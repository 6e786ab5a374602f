------------------------- MODULE RenderCreditsProofs -------------------------
(***************************************************************************)
(* RenderCredits for every price, every factor, every set of owners and    *)
(* oracles and every u64.  DollarEquivalent is about the rates of the      *)
(* book, so the invariant adds that whatever rate can be used now is in    *)
(* the book (Booked); SoldCreditsStay needs that the freeze authority went *)
(* to the program with the mint (Sealer).                                  *)
(***************************************************************************)
EXTENDS RenderCredits, ArithmeticProofs

LEMMA Quotient ==
  ASSUME NEW n \in Nat, NEW w \in Nat \ {0}
  PROVE  /\ n \div w \in Nat
         /\ (n \div w) * w <= n
         /\ n < (n \div w) * w + w
  OBVIOUS

LEMMA Scale ==
  ASSUME NEW a \in Nat, NEW b \in Nat, NEW c \in Nat, a <= b
  PROVE  a * c <= b * c
<1>1. PICK d \in Nat : b = a + d
  <2>1. b - a \in Nat /\ b = a + (b - a)
    OBVIOUS
  <2> QED BY <2>1
<1>2. b * c = a * c + d * c /\ d * c \in Nat
  BY <1>1
<1> QED BY <1>2

\* Two exchanges at rates h and p together are one at the higher of the rates.
LEMMA Higher ==
  ASSUME NEW C \in Nat, NEW d \in Nat, NEW F \in Nat, NEW X \in Nat, NEW Y \in Nat,
         NEW h \in Nat, NEW p \in Nat, C * F <= X * h, d * F <= Y * p
  PROVE  \E m \in {h, p} : (C + d) * F <= (X + Y) * m
<1>1. (C + d) * F = C * F + d * F
  OBVIOUS
<1>2. CASE p <= h
  <2>1. Y * p <= Y * h
    BY <1>2, p * Y <= h * Y, Scale
  <2>2. (X + Y) * h = X * h + Y * h
    OBVIOUS
  <2>3. (C + d) * F <= (X + Y) * h
    BY <1>1, <2>1, <2>2
  <2> QED BY <2>3
<1>3. CASE h <= p
  <2>1. X * h <= X * p
    BY <1>3, h * X <= p * X, Scale
  <2>2. (X + Y) * p = X * p + Y * p
    OBVIOUS
  <2>3. (C + d) * F <= (X + Y) * p
    BY <1>1, <2>1, <2>2
  <2> QED BY <2>3
<1> QED BY <1>2, <1>3

\* And one at the lower of them.
LEMMA Lower ==
  ASSUME NEW B \in Nat, NEW r \in Nat, NEW F \in Nat, NEW X \in Nat, NEW Y \in Nat,
         NEW l \in Nat, NEW p \in Nat, B * l <= X * F, r * p <= Y * F
  PROVE  \E m \in {l, p} : (B + r) * m <= (X + Y) * F
<1>1. (X + Y) * F = X * F + Y * F
  OBVIOUS
<1>2. CASE l <= p
  <2>1. r * l <= r * p
    BY <1>2, l * r <= p * r, Scale
  <2>2. (B + r) * l = B * l + r * l
    OBVIOUS
  <2>3. (B + r) * l <= (X + Y) * F
    BY <1>1, <2>1, <2>2
  <2> QED BY <2>3
<1>3. CASE p <= l
  <2>1. B * p <= B * l
    BY <1>3, p * B <= l * B, Scale
  <2>2. (B + r) * p = B * p + r * p
    OBVIOUS
  <2>3. (B + r) * p <= (X + Y) * F
    BY <1>1, <2>1, <2>2
  <2> QED BY <2>3
<1> QED BY <1>2, <1>3

\* What the rounding of one purchase may be off by: less than a unit of RNDR to the
\* program's loss, less than a credit to the buyer's.
Fair(rndr_amount, dc_amount, rate) ==
  /\ dc_amount * Factor <= (rndr_amount + 1) * rate
  /\ rndr_amount * rate <= (dc_amount + 1) * Factor
  /\ rate <= Factor => dc_amount <= rndr_amount

LEMMA FairForRndr ==
  ASSUME NEW r \in Nat, NEW rate \in Nat
  PROVE  CreditsFor(r, rate) \in Nat /\ Fair(r, CreditsFor(r, rate), rate)
<1> DEFINE d == (r * rate) \div Factor
<1>1. Factor \in Nat \ {0} /\ r * rate \in Nat
  BY NumbersAssumption
<1>2. d \in Nat /\ d * Factor <= r * rate /\ r * rate < d * Factor + Factor
  BY <1>1, Quotient
<1> HIDE DEF d
<1>3. (r + 1) * rate = r * rate + rate /\ (d + 1) * Factor = d * Factor + Factor
  BY <1>1, <1>2
<1>4. rate <= Factor => d <= r
  <2> SUFFICES ASSUME rate <= Factor PROVE d <= r
    OBVIOUS
  <2>1. r * rate <= r * Factor
    BY <1>1, rate * r <= Factor * r, Scale
  <2>2. d * Factor <= r * Factor
    BY <1>1, <1>2, <2>1
  <2>3. ASSUME d > r
        PROVE  FALSE
    <3>1. (r + 1) * Factor <= d * Factor
      BY <1>1, <1>2, <2>3, Scale
    <3>2. (r + 1) * Factor = r * Factor + Factor
      BY <1>1
    <3> QED BY <1>1, <1>2, <2>2, <3>1, <3>2
  <2> QED BY <1>2, <2>3
<1> QED BY <1>1, <1>2, <1>3, <1>4 DEF Fair, CreditsFor, d

LEMMA FairForCredits ==
  ASSUME NEW d \in Nat, NEW rate \in Nat \ {0}
  PROVE  RndrFor(d, rate) \in Nat /\ Fair(RndrFor(d, rate), d, rate)
<1> DEFINE r == (d * Factor) \div rate
<1>1. Factor \in Nat \ {0} /\ d * Factor \in Nat
  BY NumbersAssumption
<1>2. r \in Nat /\ r * rate <= d * Factor /\ d * Factor < r * rate + rate
  BY <1>1, Quotient
<1> HIDE DEF r
<1>3. (r + 1) * rate = r * rate + rate /\ (d + 1) * Factor = d * Factor + Factor
  BY <1>1, <1>2
<1>4. rate <= Factor => d <= r
  <2> SUFFICES ASSUME rate <= Factor PROVE d <= r
    OBVIOUS
  <2>1. d * rate <= d * Factor
    BY <1>1, rate * d <= Factor * d, Scale
  <2>2. ASSUME r < d
        PROVE  FALSE
    <3>1. (r + 1) * rate <= d * rate
      BY <1>2, <2>2, Scale
    <3> QED BY <1>1, <1>2, <1>3, <2>1, <3>1
  <2> QED BY <1>2, <2>2
<1> QED BY <1>1, <1>2, <1>3, <1>4 DEF Fair, RndrFor, r

-----------------------------------------------------------------------------
(* The state *)

MintNumbers == now \in Nat /\ supply \in U64

Numbers == MintNumbers /\ rndr \in Nat

Records ==
  /\ render_credits \in RenderCreditsType \cup {None}
  /\ quotes \in [Oracles -> QuoteType \cup {None}]
  /\ book \in BookType

Holdings ==
  /\ DOMAIN accounts \subseteq Owners
  /\ \A o \in DOMAIN accounts : accounts[o] \in [amount: Nat, frozen: BOOLEAN]

Sealer == render_credits # None => freeze_authority = Credits

Booked == LiveRates \subseteq book.rates

Worth == DollarEquivalent /\ NothingForFree /\ (book.purchases = 0 => book.credited = 0 /\ book.burned = 0)

IInv == Numbers /\ Records /\ Holdings /\ Sealer /\ Booked /\ Worth

LEMMA LiveRatesType == Records => LiveRates \subseteq Nat
  BY DEF Records, LiveRates, Live, Rate, QuoteType

LEMMA InitIInv == Init => IInv
<1> SUFFICES ASSUME Init PROVE IInv
  OBVIOUS
<1>1. Numbers /\ Records /\ Holdings
  BY U64MaxAssumption, NumbersAssumption
  DEF Init, Breaker!Init, Numbers, MintNumbers, Records, Holdings, U64, OpenedBook, BookType
<1>2. Sealer /\ Booked /\ Worth
  BY DEF Init, Sealer, Booked, Worth, LiveRates, Live, OpenedBook, DollarEquivalent, NothingForFree
<1> QED BY <1>1, <1>2 DEF IInv

\* The amounts and the rate of a purchase are naturals, and fair to both sides.
LEMMA PurchaseIsFair ==
  ASSUME IInv, NEW o \in Owners, NEW a \in Amounts \cup {None}, NEW c \in Amounts \cup {None},
         MintRenderCreditsV0(o, a, c)
  PROVE  \E r \in Nat, d \in Nat, rate \in book.rates :
           rate \in Nat /\ Fair(r, d, rate) /\ Exchange(o, r, d)
<1> DEFINE quote == quotes[render_credits.rndr_price_oracle]
           rate  == Rate(quote)
<1>1. render_credits # None /\ Priced(quote)
  BY DEF MintRenderCreditsV0, MintForRndr, MintForCredits
<1>2. render_credits.rndr_price_oracle \in Oracles
  BY <1>1 DEF IInv, Records, RenderCreditsType
<1>3. quote \in QuoteType /\ rate \in Nat
  BY <1>1, <1>2 DEF IInv, Records, Priced, Fresh, Rate, QuoteType
<1>4. rate \in LiveRates
  <2>1. Live(quote, now)
    BY <1>1, <1>3 DEF Live, Priced, Fresh
  <2> QED BY <1>2, <2>1 DEF LiveRates
<1>5. rate \in book.rates
  BY <1>4 DEF IInv, Booked
<1>6. Amounts \subseteq Nat
  BY NumbersAssumption, U64MaxAssumption DEF U64
<1>7. CASE a # None /\ MintForRndr(o, a)
  <2>1. a \in Nat /\ Exchange(o, a, CreditsFor(a, rate))
    BY <1>6, <1>7 DEF MintForRndr
  <2> HIDE DEF rate
  <2> QED BY <1>3, <1>5, <2>1, FairForRndr
<1>8. CASE c # None /\ MintForCredits(o, c)
  <2>1. c \in Nat /\ rate # 0 /\ Exchange(o, RndrFor(c, rate), c)
    BY <1>6, <1>8 DEF MintForCredits
  <2>2. rate \in Nat \ {0}
    BY <1>3, <2>1
  <2> HIDE DEF rate
  <2> QED BY <1>5, <2>1, <2>2, FairForCredits
<1> QED BY <1>7, <1>8 DEF MintRenderCreditsV0

\* One more purchase at a rate of the book keeps the book's accounts.
LEMMA ExchangeKeepsWorth ==
  ASSUME IInv, NEW o \in Owners, NEW r \in Nat, NEW d \in Nat, NEW rate \in book.rates,
         rate \in Nat, Fair(r, d, rate), Exchange(o, r, d)
  PROVE  Worth'
<1> DEFINE B == book.burned
           C == book.credited
           N == book.purchases
<1>1. B \in Nat /\ C \in Nat /\ N \in Nat /\ book.rates \subseteq Nat /\ Factor \in Nat \ {0}
  BY NumbersAssumption DEF IInv, Records, BookType
<1>2. book' = [burned |-> B + r, credited |-> C + d, purchases |-> N + 1, rates |-> book.rates]
  BY DEF Exchange, IInv, Records, BookType
<1>3. /\ d * Factor <= (r + 1) * rate
      /\ r * rate <= (d + 1) * Factor
      /\ rate <= Factor => d <= r
  BY DEF Fair
<1>4. \E h \in book.rates : C * Factor <= (B + N) * h
  <2>1. CASE N > 0
    BY <2>1 DEF IInv, Worth, DollarEquivalent
  <2>2. CASE N = 0
    <3>1. C = 0 /\ B = 0
      BY <2>2 DEF IInv, Worth
    <3>2. C * Factor <= (B + N) * rate
      BY <1>1, <2>2, <3>1
    <3> QED BY <3>2
  <2> QED BY <1>1, <2>1, <2>2
<1>5. \E l \in book.rates : B * l <= (C + N) * Factor
  <2>1. CASE N > 0
    BY <2>1 DEF IInv, Worth, DollarEquivalent
  <2>2. CASE N = 0
    <3>1. C = 0 /\ B = 0
      BY <2>2 DEF IInv, Worth
    <3>2. B * rate <= (C + N) * Factor
      BY <1>1, <2>2, <3>1
    <3> QED BY <3>2
  <2> QED BY <1>1, <2>1, <2>2
<1>6. (\A x \in book.rates : x <= Factor) => C <= B
  BY DEF IInv, Worth, NothingForFree
<1> HIDE DEF B, C, N
<1>7. \E m \in book.rates : (C + d) * Factor <= ((B + r) + (N + 1)) * m
  <2>1. PICK h \in book.rates : C * Factor <= (B + N) * h
    BY <1>4
  <2>2. h \in Nat /\ B + N \in Nat /\ r + 1 \in Nat
    BY <1>1
  <2>3. PICK m \in {h, rate} : (C + d) * Factor <= ((B + N) + (r + 1)) * m
    BY <1>1, <1>3, <2>1, <2>2, Higher
  <2>4. (B + N) + (r + 1) = (B + r) + (N + 1)
    BY <1>1
  <2> QED BY <2>3, <2>4
<1>8. \E m \in book.rates : (B + r) * m <= ((C + d) + (N + 1)) * Factor
  <2>1. PICK l \in book.rates : B * l <= (C + N) * Factor
    BY <1>5
  <2>2. l \in Nat /\ C + N \in Nat /\ d + 1 \in Nat
    BY <1>1
  <2>3. PICK m \in {l, rate} : (B + r) * m <= ((C + N) + (d + 1)) * Factor
    BY <1>1, <1>3, <2>1, <2>2, Lower
  <2>4. (C + N) + (d + 1) = (C + d) + (N + 1)
    BY <1>1
  <2> QED BY <2>3, <2>4
<1>9. (\A x \in book.rates : x <= Factor) => C + d <= B + r
  BY <1>1, <1>3, <1>6
<1>10. DollarEquivalent'
  BY <1>2, <1>7, <1>8 DEF DollarEquivalent
<1>11. NothingForFree'
  BY <1>2, <1>9 DEF NothingForFree
<1>12. book'.purchases # 0
  BY <1>1, <1>2
<1> QED BY <1>10, <1>11, <1>12 DEF Worth

-----------------------------------------------------------------------------
(* The steps *)

\* Everything that is not a purchase or a burn leaves the book's accounts alone, or
\* adds a rate to it, or opens it anew.
LEMMA BookPreserved ==
  ASSUME Booked, Worth, Records, now \in Nat,
         \/ UNCHANGED <<now, quotes, book>>
         \/ Tick
         \/ OpenBook
         \/ \E oracle \in Oracles, p \in Prices : Publish(oracle, p)
  PROVE  (Booked /\ Worth)'
<1> USE DEF Worth, DollarEquivalent, NothingForFree
<1>1. CASE UNCHANGED <<now, quotes, book>>
  BY <1>1 DEF Booked, LiveRates
<1>2. CASE Tick
  <2>1. now' = now + 1 /\ quotes' = quotes /\ book' = book
    BY <1>2 DEF Tick, Breaker!Tick
  <2>2. \A x \in Oracles : Live(quotes[x], now') => Live(quotes[x], now)
    <3> SUFFICES ASSUME NEW x \in Oracles, Live(quotes[x], now')
                 PROVE  Live(quotes[x], now)
      OBVIOUS
    <3>1. quotes[x] \in QuoteType
      BY DEF Live, Records
    <3>2. quotes[x].publish_time \in Nat /\ MaxAge \in Nat
      BY <3>1, NumbersAssumption DEF QuoteType
    <3> QED BY <2>1, <3>2 DEF Live
  <2> QED BY <2>1, <2>2 DEF Booked, LiveRates
<1>3. CASE OpenBook
  <2>1. now' = now /\ quotes' = quotes /\ book' = OpenedBook(LiveRates)
    BY <1>3 DEF OpenBook, Breaker!Observe
  <2> QED BY <2>1 DEF OpenedBook, Booked, LiveRates
<1>4. ASSUME NEW oracle \in Oracles, NEW p \in Prices, Publish(oracle, p)
      PROVE  (Booked /\ Worth)'
  <2>1. /\ now' = now
        /\ quotes' = [quotes EXCEPT ![oracle] =
                        [price |-> p.price, conf |-> p.conf, publish_time |-> now]]
        /\ book' = [book EXCEPT !.rates = @ \cup ({Rate(p)} \cap Nat)]
    BY <1>4 DEF Publish, breakerVars
  <2>2. /\ book' = [burned |-> book.burned, credited |-> book.credited,
                    purchases |-> book.purchases,
                    rates |-> book.rates \cup ({Rate(p)} \cap Nat)]
        /\ book.rates \subseteq Nat
    BY <2>1 DEF Records, BookType
  <2>3. Booked'
    <3> SUFFICES ASSUME NEW x \in Oracles, Live(quotes'[x], now)
                 PROVE  Rate(quotes'[x]) \in book.rates \cup ({Rate(p)} \cap Nat)
      BY <2>1, <2>2 DEF Booked, LiveRates
    <3>1. CASE x = oracle
      <4>1. quotes'[x] = [price |-> p.price, conf |-> p.conf, publish_time |-> now]
        BY <2>1, <3>1 DEF Records
      <4>2. Rate(quotes'[x]) = Rate(p) /\ p.price \in Int /\ p.conf \in Nat
        BY <4>1, PricesAssumption DEF Rate
      <4>3. Rate(p) \in Nat
        BY <4>2 DEF Live, Rate
      <4> QED BY <4>2, <4>3
    <3>2. CASE x # oracle
      <4>1. quotes'[x] = quotes[x]
        BY <2>1, <3>2 DEF Records
      <4> QED BY <4>1 DEF Booked, LiveRates
    <3> QED BY <3>1, <3>2
  <2>4. Worth'
    BY <2>2
  <2> QED BY <2>3, <2>4
<1> QED BY <1>1, <1>2, <1>3, <1>4

\* Every step is a step of the RC mint's breaker, or leaves it and the mint alone.
LEMMA Simulation == IInv /\ [Next]_vars => [Breaker!Next]_(Breaker!vars)
<1> SUFFICES ASSUME IInv, [Next]_vars PROVE [Breaker!Next]_(Breaker!vars)
  OBVIOUS
<1>0. Amounts \subseteq U64
  BY NumbersAssumption
<1>1. ASSUME NEW m \in Keys, NEW f \in Keys, NEW a \in Keys, NEW x \in Oracles, NEW c \in Configs,
             InitializeRenderCreditsV0(m, f, a, x, c)
      PROVE  Breaker!Next
  BY <1>1 DEF InitializeRenderCreditsV0, Breaker!Next
<1>2. ASSUME NEW s \in Keys, NEW m \in Keys \cup {Credits, None}, NEW c \in Configs \cup {None},
             UpdateBreaker(s, m, c)
      PROVE  Breaker!Next
  BY <1>2 DEF UpdateBreaker, Breaker!Next
<1>3. ASSUME NEW s \in Keys, DeleteBreaker(s)
      PROVE  Breaker!Next
  BY <1>3 DEF DeleteBreaker, Breaker!Next
<1>4. ASSUME NEW o \in Owners, NEW n \in Amounts, BurnDirectly(o, n) \/ BurnRenderCreditsV0(o, n)
      PROVE  Breaker!Next
  BY <1>0, <1>4 DEF BurnDirectly, BurnRenderCreditsV0, Breaker!Next
<1>5. ASSUME NEW s \in Keys, NEW o \in Owners, NEW n \in Amounts, MintAround(s, o, n)
      PROVE  Breaker!Next
  BY <1>0, <1>5 DEF MintAround, Breaker!Next
<1>6. ASSUME NEW o \in Owners, NEW a \in Amounts \cup {None}, NEW c \in Amounts \cup {None},
             MintRenderCreditsV0(o, a, c)
      PROVE  Breaker!Next
  <2>1. PICK r \in Nat, d \in Nat : Exchange(o, r, d)
    BY <1>6, PurchaseIsFair
  <2>2. d \in U64 /\ Breaker!MintV0(Credits, d)
    BY <2>1, U64MaxAssumption DEF Exchange, U64
  <2> QED BY <2>2 DEF Breaker!Next
<1>7. CASE Tick \/ OpenBook
  BY <1>7 DEF Tick, OpenBook, Breaker!Next
<1>8. CASE UNCHANGED breakerVars
  BY <1>8 DEF breakerVars, Breaker!vars
<1>9. CASE Administration
  BY <1>1, <1>2, <1>3, <1>8, <1>9 DEF Administration, UpdateRenderCreditsV0
<1>10. CASE TokenProgram
  BY <1>4, <1>5, <1>8, <1>10
  DEF TokenProgram, CreateAccount, CloseAccount, Transfer, FreezeDirectly
<1> QED
  BY <1>4, <1>6, <1>7, <1>8, <1>9, <1>10
  DEF Next, InitializeBurnRewardsV0, Publish, vars

LEMMA MintNumbersPreserved == MintNumbers /\ [Breaker!Next]_(Breaker!vars) => MintNumbers'
<1> SUFFICES ASSUME MintNumbers, [Breaker!Next]_(Breaker!vars) PROVE MintNumbers'
  OBVIOUS
<1> USE DEF MintNumbers, U64
<1>1. ASSUME NEW s, NEW n \in U64,
             Breaker!MintV0(s, n) \/ Breaker!MintToDirectly(s, n) \/ Breaker!Burn(n)
      PROVE  MintNumbers'
  BY <1>1, U64MaxAssumption DEF Breaker!MintV0, Breaker!MintToDirectly, Breaker!Burn
<1>2. CASE Breaker!Tick
  BY <1>2 DEF Breaker!Tick
<1>3. CASE UNCHANGED <<now, supply>>
  BY <1>3
<1>4. ASSUME NEW s, NEW a, NEW m, NEW c,
             \/ Breaker!InitializeMintWindowedBreakerV0(s, a, m, c)
             \/ Breaker!UpdateMintWindowedBreakerV0(s, a, m, c)
             \/ Breaker!DeleteMintWindowedCircuitBreakerV0(s)
             \/ Breaker!Observe
      PROVE  UNCHANGED <<now, supply>>
  BY <1>4 DEF Breaker!InitializeMintWindowedBreakerV0, Breaker!UpdateMintWindowedBreakerV0,
              Breaker!DeleteMintWindowedCircuitBreakerV0, Breaker!Observe
<1>5. CASE UNCHANGED Breaker!vars
  BY <1>3, <1>5 DEF Breaker!vars
<1>6. CASE Breaker!Next
  <2> HIDE DEF MintNumbers, U64
  <2> QED BY <1>1, <1>2, <1>3, <1>4, <1>6 DEF Breaker!Next
<1> QED BY <1>5, <1>6

LEMMA NumbersPreserved == IInv /\ [Next]_vars => Numbers'
<1> SUFFICES ASSUME IInv, [Next]_vars PROVE Numbers'
  OBVIOUS
<1>1. MintNumbers'
  BY Simulation, MintNumbersPreserved DEF IInv, Numbers
<1>2. rndr' \in Nat
  <2>1. rndr \in Nat
    BY DEF IInv, Numbers
  <2>2. ASSUME NEW o \in Owners, NEW a \in Amounts \cup {None}, NEW c \in Amounts \cup {None},
               MintRenderCreditsV0(o, a, c)
        PROVE  rndr' \in Nat
    <3>1. PICK r \in Nat, d \in Nat : Exchange(o, r, d)
      BY <2>2, PurchaseIsFair
    <3> QED BY <2>1, <3>1 DEF Exchange
  <2>3. CASE UNCHANGED rndr
    BY <2>1, <2>3
  <2> QED
    BY <2>2, <2>3
    DEF Next, vars, Administration, TokenProgram, InitializeRenderCreditsV0,
        UpdateRenderCreditsV0, UpdateBreaker, DeleteBreaker, CreateAccount, CloseAccount,
        Transfer, BurnDirectly, MintAround, FreezeDirectly, BurnRenderCreditsV0,
        InitializeBurnRewardsV0, Publish, Tick, OpenBook
<1> QED BY <1>1, <1>2 DEF Numbers

LEMMA RecordsPreserved == IInv /\ [Next]_vars => (Records /\ Sealer)'
<1> SUFFICES ASSUME IInv, [Next]_vars PROVE (Records /\ Sealer)'
  OBVIOUS
<1>0. Records /\ Sealer /\ now \in Nat
  BY DEF IInv, Numbers, MintNumbers
<1>1. CASE UNCHANGED <<render_credits, quotes, book, freeze_authority>>
  BY <1>0, <1>1 DEF Records, Sealer
<1>2. ASSUME NEW m \in Keys, NEW f \in Keys, NEW a \in Keys, NEW x \in Oracles, NEW c \in Configs,
             InitializeRenderCreditsV0(m, f, a, x, c)
      PROVE  (Records /\ Sealer)'
  BY <1>0, <1>2 DEF InitializeRenderCreditsV0, Records, Sealer, RenderCreditsType
<1>3. ASSUME NEW s \in Keys, NEW a \in Keys \cup {None}, NEW x \in Oracles \cup {None},
             UpdateRenderCreditsV0(s, a, x)
      PROVE  (Records /\ Sealer)'
  BY <1>0, <1>3 DEF UpdateRenderCreditsV0, Breaker!Given, Records, Sealer, RenderCreditsType
<1>4. ASSUME NEW o \in Owners, NEW a \in Amounts \cup {None}, NEW c \in Amounts \cup {None},
             MintRenderCreditsV0(o, a, c)
      PROVE  (Records /\ Sealer)'
  <2>1. PICK r \in Nat, d \in Nat : Exchange(o, r, d)
    BY <1>4, PurchaseIsFair
  <2>2. book' \in BookType
    <3>1. book \in BookType
      BY <1>0 DEF Records
    <3>2. book' = [burned |-> book.burned + r, credited |-> book.credited + d,
                   purchases |-> book.purchases + 1, rates |-> book.rates]
      BY <2>1, <3>1 DEF Exchange, BookType
    <3> QED BY <3>1, <3>2 DEF BookType
  <2>3. UNCHANGED <<render_credits, quotes, freeze_authority>>
    BY <2>1 DEF Exchange
  <2> QED BY <1>0, <2>2, <2>3 DEF Records, Sealer
<1>5. ASSUME NEW x \in Oracles, NEW p \in Prices, Publish(x, p)
      PROVE  (Records /\ Sealer)'
  <2>1. [price |-> p.price, conf |-> p.conf, publish_time |-> now] \in QuoteType
    BY <1>0, PricesAssumption DEF QuoteType
  <2>2. quotes' \in [Oracles -> QuoteType \cup {None}]
    BY <1>0, <1>5, <2>1 DEF Publish, Records
  <2>3. book' \in BookType
    BY <1>0, <1>5 DEF Publish, Records, BookType
  <2>4. UNCHANGED <<render_credits, freeze_authority>>
    BY <1>5 DEF Publish
  <2> QED BY <1>0, <2>2, <2>3, <2>4 DEF Records, Sealer
<1>6. CASE OpenBook
  <2>1. LiveRates \subseteq Nat
    BY <1>0, LiveRatesType
  <2>2. book' \in BookType
    BY <1>6, <2>1 DEF OpenBook, OpenedBook, BookType
  <2>3. UNCHANGED <<render_credits, quotes, freeze_authority>>
    BY <1>6 DEF OpenBook
  <2> QED BY <1>0, <2>2, <2>3 DEF Records, Sealer
<1>7. CASE Administration
  BY <1>1, <1>2, <1>3, <1>7 DEF Administration, UpdateBreaker, DeleteBreaker
<1>8. CASE TokenProgram
  BY <1>1, <1>8
  DEF TokenProgram, CreateAccount, CloseAccount, Transfer, BurnDirectly, MintAround,
      FreezeDirectly
<1>9. CASE UNCHANGED vars
  BY <1>1, <1>9 DEF vars
<1> QED
  BY <1>1, <1>4, <1>5, <1>6, <1>7, <1>8, <1>9
  DEF Next, BurnRenderCreditsV0, InitializeBurnRewardsV0, Tick

LEMMA WorthPreserved == IInv /\ [Next]_vars => (Booked /\ Worth)'
<1> SUFFICES ASSUME IInv, [Next]_vars PROVE (Booked /\ Worth)'
  OBVIOUS
<1>0. Booked /\ Worth /\ Records /\ now \in Nat
  BY DEF IInv, Numbers, MintNumbers
<1>1. ASSUME NEW o \in Owners, NEW a \in Amounts \cup {None}, NEW c \in Amounts \cup {None},
             MintRenderCreditsV0(o, a, c)
      PROVE  (Booked /\ Worth)'
  <2>1. PICK r \in Nat, d \in Nat, rate \in book.rates :
          rate \in Nat /\ Fair(r, d, rate) /\ Exchange(o, r, d)
    BY <1>1, PurchaseIsFair
  <2>2. Worth'
    BY <2>1, ExchangeKeepsWorth
  <2>3. now' = now /\ quotes' = quotes /\ book'.rates = book.rates
    BY <1>0, <2>1 DEF Exchange, Breaker!MintV0, Records, BookType
  <2>4. Booked'
    BY <1>0, <2>3 DEF Booked, LiveRates
  <2> QED BY <2>2, <2>4
<1>2. CASE \/ UNCHANGED <<now, quotes, book>>
           \/ Tick
           \/ OpenBook
           \/ \E x \in Oracles, p \in Prices : Publish(x, p)
  BY <1>0, <1>2, BookPreserved
<1>3. CASE Administration
  <2>1. UNCHANGED <<now, quotes, book>>
    BY <1>3
    DEF Administration, InitializeRenderCreditsV0, UpdateRenderCreditsV0, UpdateBreaker,
        DeleteBreaker, breakerVars, Breaker!InitializeMintWindowedBreakerV0,
        Breaker!UpdateMintWindowedBreakerV0, Breaker!DeleteMintWindowedCircuitBreakerV0
  <2> QED BY <1>2, <2>1
<1>4. CASE TokenProgram
  <2>1. UNCHANGED <<now, quotes, book>>
    BY <1>4
    DEF TokenProgram, CreateAccount, CloseAccount, Transfer, BurnDirectly, MintAround,
        FreezeDirectly, breakerVars, Breaker!Burn, Breaker!MintToDirectly, Breaker!MintV0
  <2> QED BY <1>2, <2>1
<1>5. ASSUME \/ UNCHANGED vars
             \/ \E o \in Owners, n \in Amounts : BurnRenderCreditsV0(o, n)
             \/ \E o \in Owners : InitializeBurnRewardsV0(o)
      PROVE  (Booked /\ Worth)'
  <2>1. UNCHANGED <<now, quotes, book>>
    BY <1>5 DEF vars, breakerVars, BurnRenderCreditsV0, InitializeBurnRewardsV0, Breaker!Burn
  <2> QED BY <1>2, <2>1
<1> QED BY <1>1, <1>2, <1>3, <1>4, <1>5 DEF Next

LEMMA HeldIsNat == Holdings => \A o : Held(o) \in Nat
  BY DEF Holdings, Held

\* The one way in which the program writes a credit account.
LEMMA Sealing ==
  ASSUME Holdings, NEW o \in Owners, NEW n \in Nat, accounts' = SealedWith(o, n)
  PROVE  /\ DOMAIN accounts' = DOMAIN accounts \cup {o}
         /\ accounts'[o] = [amount |-> n, frozen |-> TRUE]
         /\ \A x \in DOMAIN accounts : x # o => accounts'[x] = accounts[x]
         /\ Holdings'
<1>1. /\ DOMAIN accounts' = DOMAIN accounts \cup {o}
      /\ \A x \in DOMAIN accounts \cup {o} :
           accounts'[x] = IF x = o THEN [amount |-> n, frozen |-> TRUE] ELSE accounts[x]
  BY DEF SealedWith, With
<1>2. [amount |-> n, frozen |-> TRUE] \in [amount: Nat, frozen: BOOLEAN]
  OBVIOUS
<1>3. \A x \in DOMAIN accounts' : accounts'[x] \in [amount: Nat, frozen: BOOLEAN]
  BY <1>1, <1>2 DEF Holdings
<1> QED BY <1>1, <1>3 DEF Holdings

LEMMA HoldingsPreserved == IInv /\ [Next]_vars => Holdings'
<1> SUFFICES ASSUME Holdings, IInv, [Next]_vars PROVE Holdings'
  BY DEF IInv
<1>0. Amounts \subseteq Nat
  BY NumbersAssumption, U64MaxAssumption DEF U64
<1>1. CASE UNCHANGED accounts
  BY <1>1 DEF Holdings
<1>2. ASSUME NEW o \in Owners, NEW n \in Nat, accounts' = SealedWith(o, n)
      PROVE  Holdings'
  BY <1>2, Sealing
<1>3. ASSUME NEW o \in Owners, NEW a \in Amounts \cup {None}, NEW c \in Amounts \cup {None},
             MintRenderCreditsV0(o, a, c)
      PROVE  Holdings'
  <2>1. PICK r \in Nat, d \in Nat : Exchange(o, r, d)
    BY <1>3, PurchaseIsFair
  <2>2. Held(o) + d \in Nat
    BY HeldIsNat
  <2>3. accounts' = SealedWith(o, Held(o) + d)
    BY <2>1 DEF Exchange
  <2> QED BY <1>2, <2>2, <2>3
<1>4. ASSUME NEW o \in Owners, NEW n \in Amounts, BurnRenderCreditsV0(o, n)
      PROVE  Holdings'
  <2>1. Held(o) - n \in Nat /\ accounts' = SealedWith(o, Held(o) - n)
    <3>1. n \in Nat /\ Held(o) \in Nat /\ n <= Held(o)
      BY <1>0, <1>4, HeldIsNat DEF BurnRenderCreditsV0
    <3> QED BY <1>4, <3>1 DEF BurnRenderCreditsV0
  <2> QED BY <1>2, <2>1
<1>5. CASE TokenProgram
  <2>1. ASSUME NEW o \in Owners, CreateAccount(o)
        PROVE  Holdings'
    <3>1. /\ DOMAIN accounts' = DOMAIN accounts \cup {o}
          /\ \A x \in DOMAIN accounts' :
               accounts'[x] = IF x = o THEN [amount |-> 0, frozen |-> FALSE] ELSE accounts[x]
      BY <2>1 DEF CreateAccount, With
    <3>2. [amount |-> 0, frozen |-> FALSE] \in [amount: Nat, frozen: BOOLEAN]
      OBVIOUS
    <3>3. \A x \in DOMAIN accounts' : accounts'[x] \in [amount: Nat, frozen: BOOLEAN]
      BY <3>1, <3>2 DEF Holdings
    <3> QED BY <3>1, <3>3 DEF Holdings
  <2>6. ASSUME NEW o \in Owners, CloseAccount(o)
        PROVE  Holdings'
    BY <2>6 DEF CloseAccount, Holdings
  <2>2. ASSUME NEW o \in Owners, NEW p \in Owners, NEW n \in Amounts, Transfer(o, p, n)
        PROVE  Holdings'
    BY <1>0, <2>2 DEF Transfer, Thawed, Holdings
  <2>3. ASSUME NEW s \in Keys, NEW o \in Owners, NEW n \in Amounts, MintAround(s, o, n)
        PROVE  Holdings'
    BY <1>0, <2>3 DEF MintAround, Thawed, Holdings
  <2>4. ASSUME NEW s \in Keys, NEW o \in Owners, FreezeDirectly(s, o)
        PROVE  Holdings'
    BY <2>4 DEF FreezeDirectly, Holdings
  <2>5. ASSUME NEW o \in Owners, NEW n \in Amounts, BurnDirectly(o, n)
        PROVE  Holdings'
    BY <1>0, <2>5 DEF BurnDirectly, Thawed, Holdings
  <2> QED BY <1>5, <2>1, <2>2, <2>3, <2>4, <2>5, <2>6 DEF TokenProgram
<1>6. CASE Administration
  BY <1>1, <1>6
  DEF Administration, InitializeRenderCreditsV0, UpdateRenderCreditsV0, UpdateBreaker,
      DeleteBreaker
<1>7. CASE UNCHANGED vars
  BY <1>1, <1>7 DEF vars
<1> QED
  BY <1>1, <1>3, <1>4, <1>5, <1>6, <1>7
  DEF Next, InitializeBurnRewardsV0, Publish, Tick, OpenBook

\* The inductive invariant holds in every state of every behaviour.
THEOREM Invariance == Spec => []IInv
<1>1. IInv /\ [Next]_vars => IInv'
  BY NumbersPreserved, RecordsPreserved, WorthPreserved, HoldingsPreserved DEF IInv
<1> QED BY <1>1, InitIInv, PTL DEF Spec

\* Over any span of time the credits sold are worth what was burned for them.
THEOREM SoldAtTheirWorth == Spec => []DollarEquivalent
<1>1. IInv => DollarEquivalent
  BY DEF IInv, Worth
<1> QED BY <1>1, Invariance, PTL

\* No rounding gives a credit for nothing while RNDR is the smaller unit.
THEOREM NeverForFree == Spec => []NothingForFree
<1>1. IInv => NothingForFree
  BY DEF IInv, Worth
<1> QED BY <1>1, Invariance, PTL

\* What MintBreaker promises of a mint (SpanBound, NoMintAroundBreaker,
\* DeletionIsFinal, proved there) is promised of the RC mint.
THEOREM CreditsImplementMintBreaker == Spec => MintIsGuarded
<1>1. Init => Breaker!Init
  BY DEF Init
<1> QED BY <1>1, Invariance, Simulation, PTL DEF Spec, MintIsGuarded, Breaker!Spec

-----------------------------------------------------------------------------
(* Credits that were sold stay where they are *)

LEMMA StaysWhenUntouched ==
  ASSUME NEW o \in DOMAIN accounts, accounts[o].frozen,
         o \in DOMAIN accounts', accounts'[o] = accounts[o]
  PROVE  /\ o \in DOMAIN accounts'
         /\ accounts'[o].frozen
         /\ accounts'[o].amount = accounts[o].amount
  OBVIOUS

LEMMA StepsStay == IInv /\ [Next]_vars => [CreditsStay]_vars
<1> SUFFICES ASSUME IInv, Next, render_credits # None,
                    NEW o \in DOMAIN accounts,
                    accounts[o].frozen, accounts[o].amount > 0
             PROVE  /\ o \in DOMAIN accounts'
                    /\ accounts'[o].frozen
                    /\ \/ accounts'[o].amount = accounts[o].amount
                       \/ accounts'[o].amount - accounts[o].amount = supply' - supply
  BY DEF CreditsStay
<1> DEFINE Stays == /\ o \in DOMAIN accounts'
                    /\ accounts'[o].frozen
                    /\ \/ accounts'[o].amount = accounts[o].amount
                       \/ accounts'[o].amount - accounts[o].amount = supply' - supply
<1>0. /\ Holdings /\ supply \in Nat /\ freeze_authority = Credits
      /\ Amounts \subseteq Nat
      /\ accounts[o].amount \in Nat
  BY U64MaxAssumption, NumbersAssumption DEF IInv, Numbers, MintNumbers, Sealer, Holdings, U64
<1>1. ASSUME o \in DOMAIN accounts' /\ accounts'[o] = accounts[o]
      PROVE  Stays
  BY <1>1
<1>2. ASSUME UNCHANGED accounts
      PROVE  Stays
  BY <1>1, <1>2
<1>3. ASSUME NEW x \in Owners, NEW a \in Amounts \cup {None}, NEW c \in Amounts \cup {None},
             MintRenderCreditsV0(x, a, c)
      PROVE  Stays
  <2>1. PICK r \in Nat, d \in Nat : Exchange(x, r, d)
    BY <1>3, PurchaseIsFair
  <2>2. Held(x) \in Nat /\ Held(x) + d \in Nat
    BY <1>0, HeldIsNat
  <2>5. accounts' = SealedWith(x, Held(x) + d) /\ supply' = supply + d
    BY <2>1 DEF Exchange, Breaker!MintV0
  <2>3. /\ DOMAIN accounts' = DOMAIN accounts \cup {x}
        /\ accounts'[x] = [amount |-> Held(x) + d, frozen |-> TRUE]
        /\ \A y \in DOMAIN accounts : y # x => accounts'[y] = accounts[y]
    BY <1>0, <2>2, <2>5, Sealing
  <2>4. CASE x = o
    <3>1. Held(x) = accounts[o].amount
      BY <2>4 DEF Held
    <3> QED BY <1>0, <2>2, <2>3, <2>4, <2>5, <3>1
  <2> QED BY <1>1, <2>3, <2>4
<1>4. ASSUME NEW x \in Owners, NEW n \in Amounts, BurnRenderCreditsV0(x, n)
      PROVE  Stays
  <2>1. /\ n \in Nat /\ Held(x) - n \in Nat
        /\ accounts' = SealedWith(x, Held(x) - n) /\ supply' = supply - n
    <3>1. n \in Nat /\ Held(x) \in Nat /\ n <= Held(x)
      BY <1>0, <1>4, HeldIsNat DEF BurnRenderCreditsV0
    <3> QED BY <1>4, <3>1 DEF BurnRenderCreditsV0, Breaker!Burn
  <2>2. /\ DOMAIN accounts' = DOMAIN accounts \cup {x}
        /\ accounts'[x] = [amount |-> Held(x) - n, frozen |-> TRUE]
        /\ \A y \in DOMAIN accounts : y # x => accounts'[y] = accounts[y]
    BY <1>0, <2>1, Sealing
  <2>3. CASE x = o
    <3>1. Held(x) = accounts[o].amount
      BY <2>3 DEF Held
    <3> QED BY <1>0, <2>1, <2>2, <2>3, <3>1
  <2> QED BY <1>1, <2>2, <2>3
<1>5. ASSUME TokenProgram
      PROVE  Stays
  <2>1. ASSUME NEW x \in Owners, CreateAccount(x) \/ CloseAccount(x)
        PROVE  Stays
    BY <1>0, <1>1, <2>1 DEF CreateAccount, CloseAccount, With
  <2>2. ASSUME NEW x \in Owners, NEW y \in Owners, NEW n \in Amounts, Transfer(x, y, n)
        PROVE  Stays
    BY <1>1, <2>2 DEF Transfer, Thawed
  <2>3. ASSUME NEW s \in Keys, NEW x \in Owners, NEW n \in Amounts, MintAround(s, x, n)
        PROVE  Stays
    BY <1>1, <2>3 DEF MintAround, Thawed
  <2>4. ASSUME NEW x \in Owners, NEW n \in Amounts, BurnDirectly(x, n)
        PROVE  Stays
    BY <1>1, <2>4 DEF BurnDirectly, Thawed
  <2>5. ASSUME NEW s \in Keys, NEW x \in Owners, FreezeDirectly(s, x)
        PROVE  FALSE
    BY <1>0, <2>5, AddressAssumption DEF FreezeDirectly
  <2> HIDE DEF Stays
  <2> QED BY <1>5, <2>1, <2>2, <2>3, <2>4, <2>5 DEF TokenProgram
<1>6. ASSUME Administration
      PROVE  Stays
  BY <1>2, <1>6
  DEF Administration, InitializeRenderCreditsV0, UpdateRenderCreditsV0, UpdateBreaker,
      DeleteBreaker
<1> HIDE DEF Stays
<1>8. Stays
  BY <1>2, <1>3, <1>4, <1>5, <1>6
  DEF Next, InitializeBurnRewardsV0, Publish, Tick, OpenBook
<1> QED BY <1>8 DEF Stays

\* Once the program runs, no transfer, thaw or close ever moves credits out of a
\* frozen account.
THEOREM SoldCreditsNeverMove == Spec => SoldCreditsStay
  BY Invariance, StepsStay, PTL DEF Spec, SoldCreditsStay

-----------------------------------------------------------------------------
(* Sums over the credit accounts *)

\* The credits that can change hands: all of them until the program seals accounts,
\* those in thawed accounts from then on.
Movable ==
  IF render_credits = None THEN DOMAIN accounts ELSE {o \in DOMAIN accounts : Thawed(o)}

Ledger == IsFiniteSet(DOMAIN accounts)

\* Every credit is in an account.
Conserved == Total(Balances, DOMAIN accounts) = supply

\* OnlyOutsideCreditsCirculate is not inductive: what is sold to an account that was
\* thawed before counts from the hand-over on, and everything before it.
Circulating == outside \in Nat /\ Total(Balances, Movable) <= outside

Sums == Ledger /\ Conserved /\ Circulating

\* A step that writes the account of o alone changes a sum by what it writes.
LEMMA OneAccount ==
  ASSUME Holdings, Holdings', Ledger, NEW o \in DOMAIN accounts',
         NEW S, S \subseteq DOMAIN accounts,
         \A x \in S \ {o} : x \in DOMAIN accounts' /\ accounts'[x] = accounts[x]
  PROVE  LET rest == Total(Balances, S \ {o})
         IN /\ rest \in Nat /\ accounts'[o].amount \in Nat
            /\ Total(Balances', S \ {o}) = rest
            /\ Total(Balances', S \cup {o}) = accounts'[o].amount + rest
            /\ o \in S => Total(Balances, S) = Held(o) + rest
            /\ o \notin S => Total(Balances, S) = rest
<1> DEFINE R == S \ {o}
           f == Balances
           g == Balances'
<1>1. /\ \A x \in S : f[x] \in Nat /\ f[x] = accounts[x].amount
      /\ \A x \in R \cup {o} : x \in DOMAIN accounts' /\ g[x] \in Nat
                               /\ g[x] = accounts'[x].amount
      /\ \A x \in R : g[x] = f[x]
  BY DEF Balances, Holdings
<1>2. IsFiniteSet(S) /\ IsFiniteSet(R) /\ IsFiniteSet(R \cup {o})
  BY FS_Subset, FS_AddElement DEF Ledger
<1>3. S \cup {o} = R \cup {o} /\ (R \cup {o}) \ {o} = R /\ (o \notin S => S = R)
  OBVIOUS
<1> HIDE DEF f, g, R
<1>4. Total(g, R) = Total(f, R)
  BY <1>1, TotalSame
<1>5. /\ Total(g, R \cup {o}) = g[o] + Total(g, R) /\ Total(g, R) \in Nat
  <2>1. /\ Total(g, (R \cup {o}) \ {o}) \in Nat
        /\ Total(g, R \cup {o}) = g[o] + Total(g, (R \cup {o}) \ {o})
    BY <1>1, <1>2, TotalStep
  <2> QED BY <1>3, <2>1
<1>6. o \in S => Total(f, S) = f[o] + Total(f, R)
  BY <1>1, <1>2, TotalStep DEF R
<1>7. o \in S => f[o] = Held(o)
  BY <1>1 DEF Held
<1>8. g[o] \in Nat /\ g[o] = accounts'[o].amount
  BY <1>1
<1> QED BY <1>3, <1>4, <1>5, <1>6, <1>7, <1>8 DEF R, f, g

\* The same, of all the accounts there are.
LEMMA OneAccountOfAll ==
  ASSUME Holdings, Holdings', Ledger, NEW o, DOMAIN accounts' = DOMAIN accounts \cup {o},
         \A x \in DOMAIN accounts \ {o} : accounts'[x] = accounts[x]
  PROVE  /\ Ledger'
         /\ Total(Balances', DOMAIN accounts') + Held(o)
              = Total(Balances, DOMAIN accounts) + accounts'[o].amount
         /\ Total(Balances, DOMAIN accounts) \in Nat
         /\ Held(o) \in Nat /\ accounts'[o].amount \in Nat
<1> DEFINE D == DOMAIN accounts
           rest == Total(Balances, D \ {o})
<1>1. Ledger'
  BY FS_AddElement DEF Ledger
<1>2. /\ rest \in Nat /\ accounts'[o].amount \in Nat
      /\ Total(Balances', D \cup {o}) = accounts'[o].amount + rest
      /\ o \in D => Total(Balances, D) = Held(o) + rest
      /\ o \notin D => Total(Balances, D) = rest
  <2>1. o \in DOMAIN accounts' /\ \A x \in D \ {o} : x \in DOMAIN accounts' /\ accounts'[x] = accounts[x]
    OBVIOUS
  <2> QED BY <2>1, OneAccount
<1>3. Held(o) \in Nat /\ (o \notin D => Held(o) = 0)
  BY HeldIsNat DEF Held
<1> HIDE DEF rest
<1> QED BY <1>1, <1>2, <1>3

\* The program's way of writing an account takes it out of circulation.
LEMMA SealingSums ==
  ASSUME Holdings, Sums, supply \in Nat, NEW o \in Owners, NEW n \in Nat,
         accounts' = SealedWith(o, n), supply' = supply + n - Held(o),
         render_credits # None, UNCHANGED <<render_credits, outside>>
  PROVE  Sums'
<1>1. /\ DOMAIN accounts' = DOMAIN accounts \cup {o}
      /\ accounts'[o] = [amount |-> n, frozen |-> TRUE]
      /\ \A x \in DOMAIN accounts : x # o => accounts'[x] = accounts[x]
      /\ Holdings'
  BY Sealing
<1>2. Ledger' /\ Conserved'
  <2>1. /\ Ledger'
        /\ Total(Balances', DOMAIN accounts') + Held(o)
             = Total(Balances, DOMAIN accounts) + accounts'[o].amount
        /\ Held(o) \in Nat
    BY <1>1, OneAccountOfAll DEF Sums
  <2>2. accounts'[o].amount = n /\ Total(Balances, DOMAIN accounts) = supply
    BY <1>1 DEF Sums, Conserved
  <2>3. Total(Balances', DOMAIN accounts') \in Nat
    BY <2>1, UnitsFinite, FS_CardinalityType, <1>1 DEF Total, Ledger, Holdings, Balances
  <2> QED BY <2>1, <2>2, <2>3 DEF Conserved
<1>3. Circulating'
  <2> DEFINE S == Movable
  <2>1. S \subseteq DOMAIN accounts /\ Movable' = S \ {o}
    BY <1>1 DEF Movable, Thawed
  <2>2. /\ Total(Balances', S \ {o}) = Total(Balances, S \ {o})
        /\ Total(Balances, S \ {o}) \in Nat /\ Held(o) \in Nat
        /\ Total(Balances, S) \in {Total(Balances, S \ {o}), Held(o) + Total(Balances, S \ {o})}
    <3>1. o \in DOMAIN accounts' /\ \A x \in S \ {o} : x \in DOMAIN accounts' /\ accounts'[x] = accounts[x]
      BY <1>1, <2>1
    <3> HIDE DEF S
    <3> QED BY <1>1, <2>1, <3>1, OneAccount, HeldIsNat DEF Sums
  <2>3. Total(Balances, S) <= outside /\ outside \in Nat
    BY DEF Sums, Circulating
  <2>4. Total(Balances', Movable') <= outside
    BY <2>1, <2>2, <2>3
  <2> QED BY <2>3, <2>4 DEF Circulating
<1> QED BY <1>2, <1>3 DEF Sums

\* The token program's way: a thawed account is written, or any before the hand-over,
\* and what comes in comes from outside.
LEMMA WritingSums ==
  ASSUME Holdings, Holdings', Sums, supply \in Nat, NEW o,
         DOMAIN accounts' = DOMAIN accounts \cup {o},
         \A x \in DOMAIN accounts \ {o} : accounts'[x] = accounts[x],
         Movable' = Movable \cup {o}, o \in DOMAIN accounts => o \in Movable,
         NEW d \in Nat, outside' = outside + d,
         supply' = supply + accounts'[o].amount - Held(o),
         accounts'[o].amount <= Held(o) + d
  PROVE  Sums'
<1>1. Movable \subseteq DOMAIN accounts
  BY DEF Movable
<1>2. Ledger' /\ Conserved'
  <2>1. /\ Ledger'
        /\ Total(Balances', DOMAIN accounts') + Held(o)
             = Total(Balances, DOMAIN accounts) + accounts'[o].amount
        /\ Held(o) \in Nat /\ accounts'[o].amount \in Nat
    BY OneAccountOfAll DEF Sums
  <2>2. Total(Balances, DOMAIN accounts) = supply
    BY DEF Sums, Conserved
  <2>3. Total(Balances', DOMAIN accounts') \in Nat
    BY <2>1, UnitsFinite, FS_CardinalityType DEF Total, Ledger, Holdings, Balances
  <2> QED BY <2>1, <2>2, <2>3 DEF Conserved
<1>3. Circulating'
  <2> DEFINE S == Movable
             rest == Total(Balances, S \ {o})
  <2>1. /\ rest \in Nat /\ accounts'[o].amount \in Nat
        /\ Total(Balances', S \cup {o}) = accounts'[o].amount + rest
        /\ o \in S => Total(Balances, S) = Held(o) + rest
        /\ o \notin S => Total(Balances, S) = rest
    <3>1. o \in DOMAIN accounts' /\ \A x \in S \ {o} : x \in DOMAIN accounts' /\ accounts'[x] = accounts[x]
      BY <1>1
    <3> HIDE DEF S
    <3> QED BY <1>1, <3>1, OneAccount DEF Sums, S
  <2>2. o \notin S => Held(o) = 0
    BY DEF Held
  <2>3. Held(o) \in Nat /\ Total(Balances, S) <= outside /\ outside \in Nat
    BY HeldIsNat DEF Sums, Circulating
  <2> HIDE DEF rest
  <2>4. Total(Balances', S \cup {o}) <= outside + d /\ outside + d \in Nat
    BY <2>1, <2>2, <2>3
  <2> HIDE DEF S
  <2> QED BY <2>4 DEF Circulating, S
<1> QED BY <1>2, <1>3 DEF Sums

\* A closed account was empty.
LEMMA CloseSums ==
  ASSUME Holdings, Sums, NEW o \in Owners, CloseAccount(o)
  PROVE  Sums'
<1> DEFINE D == DOMAIN accounts
           S == Movable
<1>1. /\ o \in D /\ accounts[o].amount = 0
      /\ DOMAIN accounts' = D \ {o} /\ \A x \in D \ {o} : accounts'[x] = accounts[x]
      /\ UNCHANGED <<supply, render_credits, outside>>
      /\ Movable' = S \ {o} /\ S \subseteq D
  BY DEF CloseAccount, breakerVars, Movable, Thawed
<1>2. ASSUME NEW T, T \subseteq D
      PROVE  Total(Balances', T \ {o}) = Total(Balances, T)
  <2>1. \A x \in T \ {o} : Balances'[x] = Balances[x]
    BY <1>1, <1>2 DEF Balances
  <2>2. Total(Balances', T \ {o}) = Total(Balances, T \ {o})
    BY <2>1, TotalSame
  <2>3. CASE o \in T
    <3>1. IsFiniteSet(T) /\ \A x \in T : Balances[x] \in Nat
      BY <1>2, FS_Subset DEF Sums, Ledger, Holdings, Balances
    <3>2. Balances[o] = 0
      BY <1>1 DEF Balances
    <3>3. Total(Balances, T \ {o}) \in Nat
          /\ Total(Balances, T) = Balances[o] + Total(Balances, T \ {o})
      BY <2>3, <3>1, TotalStep
    <3> QED BY <2>2, <3>2, <3>3
  <2>4. CASE o \notin T
    <3>1. T \ {o} = T
      BY <2>4
    <3> QED BY <2>2, <3>1
  <2> QED BY <2>3, <2>4
<1>3. Ledger'
  BY <1>1, FS_RemoveElement DEF Sums, Ledger
<1>4. Conserved'
  BY <1>1, <1>2 DEF Sums, Conserved
<1>5. Circulating'
  BY <1>1, <1>2 DEF Sums, Circulating
<1> QED BY <1>3, <1>4, <1>5 DEF Sums

\* A transfer takes from one movable account what it gives to another.
LEMMA TransferSums ==
  ASSUME Holdings, Sums, NEW p \in Owners, NEW q \in Owners, NEW n \in Nat, Transfer(p, q, n)
  PROVE  Sums'
<1> DEFINE D == DOMAIN accounts
           between == [Balances EXCEPT ![p] = @ - n]
<1>1. /\ p # q /\ p \in Movable /\ q \in Movable
      /\ p \in D /\ q \in D /\ n <= accounts[p].amount /\ Movable \subseteq D
      /\ accounts' = [accounts EXCEPT ![p].amount = @ - n, ![q].amount = @ + n]
      /\ UNCHANGED <<supply, render_credits, outside>>
  BY DEF Transfer, Thawed, Movable, breakerVars
<1>2. /\ DOMAIN accounts' = D /\ Movable' = Movable
      /\ \A x \in D : accounts[x] \in [amount: Nat, frozen: BOOLEAN]
      /\ \A x \in D : accounts'[x].frozen = accounts[x].frozen
  <2>1. DOMAIN accounts' = D /\ \A x \in D : accounts[x] \in [amount: Nat, frozen: BOOLEAN]
    BY <1>1 DEF Holdings
  <2>2. \A x \in D : accounts'[x].frozen = accounts[x].frozen
    BY <1>1, <2>1
  <2> QED BY <1>1, <2>1, <2>2 DEF Movable, Thawed
<1>3. /\ \A x \in D : Balances[x] \in Nat /\ between[x] \in Nat /\ Balances'[x] \in Nat
      /\ between[p] = Balances[p] - n /\ Balances'[q] = between[q] + n
      /\ \A x \in D \ {p} : between[x] = Balances[x]
      /\ \A x \in D \ {q} : Balances'[x] = between[x]
  BY <1>1, <1>2 DEF Balances
<1> HIDE DEF between
<1>4. ASSUME NEW T, T \subseteq D, p \in T, q \in T
      PROVE  Total(Balances', T) = Total(Balances, T)
  <2>1. IsFiniteSet(T)
    BY <1>4, FS_Subset DEF Sums, Ledger
  <2>2. /\ Total(Balances, T) \in Nat /\ Total(between, T) \in Nat
        /\ Total(between, T) + Balances[p] = Total(Balances, T) + between[p]
    BY <1>3, <1>4, <2>1, TotalChange
  <2>3. /\ Total(Balances', T) \in Nat
        /\ Total(Balances', T) + between[q] = Total(between, T) + Balances'[q]
    <3>1. ASSUME NEW g, \A x \in T : between[x] \in Nat /\ g[x] \in Nat,
                 \A x \in T \ {q} : between[x] = g[x]
          PROVE  /\ Total(g, T) \in Nat
                 /\ Total(g, T) + between[q] = Total(between, T) + g[q]
      <4>1. /\ Total(between, T \ {q}) \in Nat
            /\ Total(between, T) = between[q] + Total(between, T \ {q})
        BY <1>4, <2>1, <3>1, TotalStep
      <4>2. /\ Total(g, T) \in Nat /\ Total(g, T) = g[q] + Total(g, T \ {q})
        BY <1>4, <2>1, <3>1, TotalStep
      <4>3. Total(between, T \ {q}) = Total(g, T \ {q})
        BY <3>1, TotalSame
      <4>4. between[q] \in Nat /\ g[q] \in Nat
        BY <1>4, <3>1
      <4> QED BY <4>1, <4>2, <4>3, <4>4
    <3>2. /\ \A x \in T : between[x] \in Nat /\ Balances'[x] \in Nat
          /\ \A x \in T \ {q} : between[x] = Balances'[x]
      BY <1>3, <1>4
    <3> QED BY <3>1, <3>2
  <2>4. p \in D /\ q \in D /\ Balances[p] \in Nat /\ between[q] \in Nat
    BY <1>1, <1>3
  <2> QED BY <1>3, <2>2, <2>3, <2>4
<1>5. Conserved'
  BY <1>1, <1>2, <1>4 DEF Sums, Conserved
<1>6. Circulating'
  BY <1>1, <1>2, <1>4 DEF Sums, Circulating
<1>7. Ledger'
  BY <1>2 DEF Sums, Ledger
<1> QED BY <1>5, <1>6, <1>7 DEF Sums

LEMMA InitSums == Init => Sums
<1> SUFFICES ASSUME Init PROVE Sums
  OBVIOUS
<1>1. DOMAIN accounts = {} /\ supply = 0 /\ outside = 0 /\ Movable = {}
  BY DEF Init, Breaker!Init, Movable
<1>2. IsFiniteSet({}) /\ Total(Balances, {}) = 0
  BY FS_EmptySet, TotalEmpty
<1> QED BY <1>1, <1>2 DEF Sums, Ledger, Conserved, Circulating

LEMMA TokenProgramSums ==
  ASSUME IInv, Sums, Holdings', TokenProgram
  PROVE  Sums'
<1>0. /\ Amounts \subseteq Nat /\ supply \in Nat /\ Holdings /\ Sealer /\ outside \in Nat
      /\ \A x : Held(x) \in Nat
      /\ \A x \in DOMAIN accounts : accounts[x] \in [amount: Nat, frozen: BOOLEAN]
                                    /\ accounts[x].amount = Held(x)
  BY NumbersAssumption, U64MaxAssumption, HeldIsNat
  DEF U64, IInv, Numbers, MintNumbers, Holdings, Sums, Circulating, Held
<1>1. ASSUME NEW o \in Owners, CreateAccount(o)
      PROVE  Sums'
  <2>1. /\ o \notin DOMAIN accounts /\ DOMAIN accounts' = DOMAIN accounts \cup {o}
        /\ accounts'[o] = [amount |-> 0, frozen |-> FALSE]
        /\ \A x \in DOMAIN accounts \ {o} : accounts'[x] = accounts[x]
        /\ UNCHANGED <<supply, render_credits, outside>>
    BY <1>1 DEF CreateAccount, With, breakerVars
  <2>2. Movable' = Movable \cup {o}
    BY <2>1 DEF Movable, Thawed
  <2>3. Held(o) = 0 /\ accounts'[o].amount = 0 /\ outside' = outside + 0
        /\ supply' = supply + accounts'[o].amount - Held(o)
    BY <1>0, <2>1 DEF Held
  <2> QED BY <1>0, <2>1, <2>2, <2>3, 0 \in Nat, WritingSums
<1>2. ASSUME NEW o \in Owners, NEW n \in Amounts, BurnDirectly(o, n)
      PROVE  Sums'
  <2>1. /\ o \in DOMAIN accounts /\ ~accounts[o].frozen /\ n \in Nat /\ n <= Held(o)
        /\ accounts' = [accounts EXCEPT ![o].amount = @ - n] /\ supply' = supply - n
        /\ UNCHANGED <<render_credits, outside>>
    BY <1>0, <1>2 DEF BurnDirectly, Thawed, Breaker!Burn
  <2>2. /\ DOMAIN accounts' = DOMAIN accounts /\ accounts'[o].amount = Held(o) - n
        /\ accounts'[o].frozen = accounts[o].frozen
        /\ \A x \in DOMAIN accounts \ {o} : accounts'[x] = accounts[x]
    BY <1>0, <2>1
  <2>3. Movable' = Movable \cup {o} /\ o \in Movable
    BY <2>1, <2>2 DEF Movable, Thawed
  <2>4. /\ DOMAIN accounts' = DOMAIN accounts \cup {o} /\ outside' = outside + 0
        /\ accounts'[o].amount <= Held(o) + 0
        /\ supply' = supply + accounts'[o].amount - Held(o)
    <3>1. Held(o) \in Nat /\ supply \in Nat /\ outside \in Nat
      BY <1>0
    <3>2. \A h \in Nat : n <= h => h - n <= h + 0 /\ supply - n = supply + (h - n) - h
      BY <2>1, <3>1
    <3>3. accounts'[o].amount = Held(o) - n /\ n <= Held(o)
      BY <2>1, <2>2
    <3>4. outside = outside + 0
      BY <3>1
    <3> QED BY <2>1, <2>2, <3>1, <3>2, <3>3, <3>4
  <2> QED BY <1>0, <2>2, <2>3, <2>4, 0 \in Nat, WritingSums
<1>3. ASSUME NEW s \in Keys, NEW o \in Owners, NEW n \in Amounts, MintAround(s, o, n)
      PROVE  Sums'
  <2>1. /\ o \in DOMAIN accounts /\ ~accounts[o].frozen /\ n \in Nat
        /\ accounts' = [accounts EXCEPT ![o].amount = @ + n] /\ supply' = supply + n
        /\ outside' = outside + n /\ UNCHANGED render_credits
    BY <1>0, <1>3 DEF MintAround, Thawed, Breaker!MintToDirectly, Breaker!MintV0
  <2>2. /\ DOMAIN accounts' = DOMAIN accounts /\ accounts'[o].amount = Held(o) + n
        /\ accounts'[o].frozen = accounts[o].frozen
        /\ \A x \in DOMAIN accounts \ {o} : accounts'[x] = accounts[x]
    BY <1>0, <2>1
  <2>3. Movable' = Movable \cup {o} /\ o \in Movable
    BY <2>1, <2>2 DEF Movable, Thawed
  <2>4. /\ DOMAIN accounts' = DOMAIN accounts \cup {o}
        /\ accounts'[o].amount <= Held(o) + n
        /\ supply' = supply + accounts'[o].amount - Held(o)
    <3>1. Held(o) \in Nat /\ supply \in Nat
      BY <1>0
    <3>2. \A h \in Nat : h + n <= h + n /\ supply + n = supply + (h + n) - h
      BY <2>1, <3>1
    <3> QED BY <2>1, <2>2, <3>1, <3>2
  <2> QED BY <1>0, <2>1, <2>2, <2>3, <2>4, WritingSums
<1>4. ASSUME NEW s \in Keys, NEW o \in Owners, FreezeDirectly(s, o)
      PROVE  Sums'
  <2>1. /\ render_credits = None /\ o \in DOMAIN accounts
        /\ accounts' = [accounts EXCEPT ![o].frozen = ~@]
        /\ UNCHANGED <<supply, render_credits, outside>>
    BY <1>0, <1>4, AddressAssumption DEF FreezeDirectly, Sealer, breakerVars
  <2>2. /\ DOMAIN accounts' = DOMAIN accounts
        /\ \A x \in DOMAIN accounts : accounts'[x].amount = accounts[x].amount
    BY <1>0, <2>1
  <2>3. Balances' = Balances /\ Movable' = Movable
    BY <2>1, <2>2 DEF Balances, Movable
  <2> QED BY <2>1, <2>2, <2>3 DEF Sums, Ledger, Conserved, Circulating
<1>5. ASSUME NEW o \in Owners, NEW p \in Owners, NEW n \in Amounts, Transfer(o, p, n)
      PROVE  Sums'
  BY <1>0, <1>5, TransferSums
<1>6. ASSUME NEW o \in Owners, CloseAccount(o)
      PROVE  Sums'
  BY <1>0, <1>6, CloseSums
<1> QED BY <1>1, <1>2, <1>3, <1>4, <1>5, <1>6 DEF TokenProgram

LEMMA SumsPreserved == IInv /\ Sums /\ [Next]_vars => Sums'
<1> SUFFICES ASSUME IInv, Sums, [Next]_vars PROVE Sums'
  OBVIOUS
<1>0. Amounts \subseteq Nat /\ supply \in Nat /\ Holdings /\ Records
  BY NumbersAssumption, U64MaxAssumption DEF U64, IInv, Numbers, MintNumbers
<1>1. ASSUME UNCHANGED <<accounts, supply, outside>>,
             render_credits # None => render_credits' # None
      PROVE  Sums'
  <2>1. Movable' \subseteq Movable /\ Movable \subseteq DOMAIN accounts /\ Balances' = Balances
    BY <1>1 DEF Movable, Thawed, Balances
  <2>2. IsFiniteSet(Movable) /\ \A x \in Movable : Balances[x] \in Nat
    BY <1>0, <2>1, FS_Subset DEF Sums, Ledger, Holdings, Balances
  <2>3. /\ Total(Balances, Movable') \in Nat /\ Total(Balances, Movable) \in Nat
        /\ Total(Balances, Movable') <= Total(Balances, Movable)
    <3> DEFINE f == Balances
               S == Movable
               T == Movable'
    <3>1. IsFiniteSet(S) /\ T \subseteq S /\ \A x \in S : f[x] \in Nat
      BY <2>1, <2>2
    <3> HIDE DEF f, S, T
    <3>2. \A x \in T : f[x] \in Nat /\ f[x] <= f[x]
      BY <3>1
    <3>3. Total(f, T) \in Nat /\ Total(f, S) \in Nat /\ Total(f, T) <= Total(f, S)
      BY <3>1, <3>2, TotalGrows
    <3> QED BY <3>3 DEF f, S, T
  <2>4. Circulating'
    BY <1>1, <2>1, <2>3 DEF Sums, Circulating
  <2> QED BY <1>1, <2>1, <2>4 DEF Sums, Ledger, Conserved
<1>2. CASE Administration
  <2>1. ASSUME NEW m \in Keys, NEW f \in Keys, NEW a \in Keys, NEW x \in Oracles, NEW c \in Configs,
               InitializeRenderCreditsV0(m, f, a, x, c)
        PROVE  Sums'
    BY <1>1, <2>1 DEF InitializeRenderCreditsV0, Breaker!InitializeMintWindowedBreakerV0
  <2>2. ASSUME NEW s \in Keys, NEW a \in Keys \cup {None}, NEW x \in Oracles \cup {None},
               UpdateRenderCreditsV0(s, a, x)
        PROVE  Sums'
    <3>1. render_credits' \in RenderCreditsType
      <4>1. render_credits \in RenderCreditsType
        BY <1>0, <2>2 DEF Records, UpdateRenderCreditsV0
      <4> QED BY <2>2, <4>1 DEF UpdateRenderCreditsV0, Breaker!Given, RenderCreditsType
    <3>2. render_credits' # None
      BY <3>1, AbsentAssumption
    <3> QED BY <1>1, <2>2, <3>2 DEF UpdateRenderCreditsV0, breakerVars
  <2>3. ASSUME \/ \E s \in Keys, m \in Keys \cup {Credits, None}, c \in Configs \cup {None} :
                    UpdateBreaker(s, m, c)
               \/ \E s \in Keys : DeleteBreaker(s)
        PROVE  Sums'
    BY <1>1, <2>3
    DEF UpdateBreaker, DeleteBreaker, Breaker!UpdateMintWindowedBreakerV0,
        Breaker!DeleteMintWindowedCircuitBreakerV0
  <2> QED BY <1>2, <2>1, <2>2, <2>3 DEF Administration
<1>3. ASSUME NEW o \in Owners, NEW a \in Amounts \cup {None}, NEW c \in Amounts \cup {None},
             MintRenderCreditsV0(o, a, c)
      PROVE  Sums'
  <2>1. PICK r \in Nat, d \in Nat : Exchange(o, r, d)
    BY <1>3, PurchaseIsFair
  <2>2. /\ accounts' = SealedWith(o, Held(o) + d) /\ supply' = supply + d
        /\ UNCHANGED <<render_credits, outside>> /\ render_credits # None
    BY <1>3, <2>1
    DEF Exchange, Breaker!MintV0, MintRenderCreditsV0, MintForRndr, MintForCredits
  <2>3. Held(o) \in Nat /\ Held(o) + d \in Nat /\ supply' = supply + (Held(o) + d) - Held(o)
    BY <1>0, <2>2, HeldIsNat
  <2> QED BY <1>0, <2>2, <2>3, SealingSums
<1>4. ASSUME NEW o \in Owners, NEW n \in Amounts, BurnRenderCreditsV0(o, n)
      PROVE  Sums'
  <2>1. /\ n \in Nat /\ n <= Held(o) /\ accounts' = SealedWith(o, Held(o) - n)
        /\ supply' = supply - n
        /\ UNCHANGED <<render_credits, outside>> /\ render_credits # None
    BY <1>0, <1>4 DEF BurnRenderCreditsV0, Breaker!Burn
  <2>2. Held(o) \in Nat /\ Held(o) - n \in Nat /\ supply' = supply + (Held(o) - n) - Held(o)
    BY <1>0, <2>1, HeldIsNat
  <2> QED BY <1>0, <2>1, <2>2, SealingSums
<1>5. CASE TokenProgram
  BY <1>5, HoldingsPreserved, TokenProgramSums
<1>6. CASE UNCHANGED vars
  BY <1>1, <1>6 DEF vars, breakerVars
<1> QED
  BY <1>1, <1>2, <1>3, <1>4, <1>5, <1>6
  DEF Next, InitializeBurnRewardsV0, Publish, Tick, OpenBook, breakerVars, Breaker!Tick,
      Breaker!Observe

\* Only credits minted by others than the program can change hands: whatever is sold,
\* burned, created, closed, transferred, frozen or thawed, by any number of owners.
THEOREM OthersCreditsCirculate == Spec => []OnlyOutsideCreditsCirculate
<1>1. IInv /\ Sums => OnlyOutsideCreditsCirculate
  <2> SUFFICES ASSUME IInv, Sums PROVE OnlyOutsideCreditsCirculate
    OBVIOUS
  <2> DEFINE f == Balances
             S == Movable
             T == {o \in DOMAIN accounts : Thawed(o)}
  <2>1. /\ IsFiniteSet(S) /\ IsFiniteSet(T) /\ T \subseteq S /\ \A x \in S : f[x] \in Nat
    <3>1. S \subseteq DOMAIN accounts /\ T \subseteq S /\ IsFiniteSet(DOMAIN accounts)
      BY DEF Movable, Sums, Ledger
    <3>2. \A x \in DOMAIN accounts : f[x] \in Nat
      BY DEF Balances, IInv, Holdings
    <3> HIDE DEF S, T, f
    <3>3. IsFiniteSet(S) /\ IsFiniteSet(T)
      BY <3>1, FS_Subset
    <3> QED BY <3>1, <3>2, <3>3
  <2>2. Total(f, S) <= outside /\ outside \in Nat
    BY DEF Sums, Circulating
  <2>3. SumFunctionOnSet(f, T) <= outside
    <3> HIDE DEF f, S, T
    <3>1. SumFunctionOnSet(f, T) = Total(f, T)
      BY <2>1, SumIsTotal
    <3>2. \A x \in T : f[x] \in Nat /\ f[x] <= f[x]
      BY <2>1
    <3>3. Total(f, T) \in Nat /\ Total(f, S) \in Nat /\ Total(f, T) <= Total(f, S)
      BY <2>1, <3>2, TotalGrows
    <3> QED BY <2>2, <3>1, <3>3
  <2> QED BY <2>3 DEF OnlyOutsideCreditsCirculate
<1> QED BY <1>1, InitSums, SumsPreserved, Invariance, PTL DEF Spec

-----------------------------------------------------------------------------
(* What is proved of MintBreaker, of the RC mint: Rc is the breaker's module *)
(* with its theorems, at the same substitutions as Breaker.                  *)

Rc == INSTANCE MintBreakerProofs WITH Principals <- Keys \cup {Credits}, Amounts <- U64

LEMMA RcAssumptions ==
  /\ Rc!U64MaxAssumption /\ Rc!PdaAssumption /\ Rc!ConfigsAssumption
  /\ Rc!AmountsAssumption /\ Rc!MaxTimeAssumption /\ Rc!NoneAssumption
<1>1. Rc!U64MaxAssumption /\ Rc!MaxTimeAssumption
  BY U64MaxAssumption, NumbersAssumption DEF Rc!U64MaxAssumption, Rc!MaxTimeAssumption
<1>2. Rc!PdaAssumption
  BY AddressAssumption DEF Rc!PdaAssumption
<1>3. Rc!AmountsAssumption
  BY DEF Rc!AmountsAssumption, U64, Rc!U64
<1>4. Rc!NoneAssumption
  BY AbsentAssumption
  DEF Rc!NoneAssumption, Breaker!BreakerType, Rc!BreakerType, Breaker!ConfigType,
      Rc!ConfigType, Breaker!WindowType, Rc!WindowType, Breaker!ThresholdType,
      Rc!ThresholdType, Breaker!U64, Rc!U64
<1>5. Rc!ConfigsAssumption
  BY AddressAssumption, NumbersAssumption
  DEF Rc!ConfigsAssumption, ConfigType, Rc!ConfigType, ThresholdType, Rc!ThresholdType, U64, Rc!U64
<1> QED BY <1>1, <1>2, <1>3, <1>4, <1>5

\* Breaker and Rc are the same definitions.
LEMMA SameMint ==
  ASSUME NEW s, NEW n
  PROVE  Breaker!MintV0(s, n) <=> Rc!MintV0(s, n)
  BY DEF Breaker!MintV0, Rc!MintV0, Breaker!Enforceable, Rc!Enforceable,
         Breaker!EnforcedWindow, Rc!EnforcedWindow, Breaker!Seeing, Rc!Seeing,
         Breaker!GetThreshold, Rc!GetThreshold, Breaker!NewAggregate, Rc!NewAggregate,
         Breaker!DecayDefined, Rc!DecayDefined, Breaker!Remaining, Rc!Remaining,
         Breaker!TimeDecayPreviousValue, Rc!TimeDecayPreviousValue

LEMMA SameAdministration ==
  ASSUME NEW s, NEW a, NEW m, NEW c
  PROVE  /\ Breaker!InitializeMintWindowedBreakerV0(s, a, m, c)
              <=> Rc!InitializeMintWindowedBreakerV0(s, a, m, c)
         /\ Breaker!UpdateMintWindowedBreakerV0(s, a, m, c)
              <=> Rc!UpdateMintWindowedBreakerV0(s, a, m, c)
         /\ Breaker!DeleteMintWindowedCircuitBreakerV0(s)
              <=> Rc!DeleteMintWindowedCircuitBreakerV0(s)
<1>1. Breaker!NothingSeen = Rc!NothingSeen /\ Breaker!FreshWindow = Rc!FreshWindow
  BY DEF Breaker!NothingSeen, Rc!NothingSeen, Breaker!FreshWindow, Rc!FreshWindow
<1>2. Breaker!InitializeMintWindowedBreakerV0(s, a, m, c)
        <=> Rc!InitializeMintWindowedBreakerV0(s, a, m, c)
  BY <1>1
  DEF Breaker!InitializeMintWindowedBreakerV0, Rc!InitializeMintWindowedBreakerV0,
      Breaker!IsValid, Rc!IsValid, Breaker!HandOver, Rc!HandOver
<1>3. Breaker!UpdateMintWindowedBreakerV0(s, a, m, c)
        <=> Rc!UpdateMintWindowedBreakerV0(s, a, m, c)
  BY <1>1
  DEF Breaker!UpdateMintWindowedBreakerV0, Rc!UpdateMintWindowedBreakerV0,
      Breaker!Given, Rc!Given
<1>4. Breaker!DeleteMintWindowedCircuitBreakerV0(s)
        <=> Rc!DeleteMintWindowedCircuitBreakerV0(s)
  BY <1>1
  DEF Breaker!DeleteMintWindowedCircuitBreakerV0, Rc!DeleteMintWindowedCircuitBreakerV0
<1> QED BY <1>2, <1>3, <1>4

LEMMA SameSurroundings ==
  ASSUME NEW s, NEW n
  PROVE  /\ Breaker!MintToDirectly(s, n) <=> Rc!MintToDirectly(s, n)
         /\ Breaker!Burn(n) <=> Rc!Burn(n)
         /\ Breaker!Tick <=> Rc!Tick
         /\ Breaker!Observe <=> Rc!Observe
  BY DEF Breaker!MintToDirectly, Rc!MintToDirectly, Breaker!Burn, Rc!Burn,
         Breaker!Tick, Rc!Tick, Breaker!Observe, Rc!Observe,
         Breaker!NothingSeen, Rc!NothingSeen

LEMMA SameNext == Breaker!Next => Rc!Next
<1> DEFINE P == Keys \cup {Credits}
<1>1. ASSUME NEW s \in P, NEW a \in P, NEW m \in P, NEW c \in Configs,
             Breaker!InitializeMintWindowedBreakerV0(s, a, m, c)
      PROVE  Rc!Next
  BY <1>1, SameAdministration DEF Rc!Next
<1>2. ASSUME NEW s \in P, NEW a \in P \cup {None}, NEW m \in P \cup {None},
             NEW c \in Configs \cup {None}, Breaker!UpdateMintWindowedBreakerV0(s, a, m, c)
      PROVE  Rc!Next
  BY <1>2, SameAdministration DEF Rc!Next
<1>3. ASSUME NEW s \in P, Breaker!DeleteMintWindowedCircuitBreakerV0(s)
      PROVE  Rc!Next
  BY <1>3, SameAdministration DEF Rc!Next
<1>4. ASSUME NEW s \in P, NEW n \in U64, Breaker!MintV0(s, n)
      PROVE  Rc!Next
  BY <1>4, SameMint DEF Rc!Next
<1>5. ASSUME NEW s \in P, NEW n \in U64, Breaker!MintToDirectly(s, n)
      PROVE  Rc!Next
  BY <1>5, SameSurroundings DEF Rc!Next
<1>6. ASSUME NEW n \in U64, Breaker!Burn(n)
      PROVE  Rc!Next
  BY <1>6, SameSurroundings DEF Rc!Next
<1>7. CASE Breaker!Tick \/ Breaker!Observe
  BY <1>7, SameSurroundings DEF Rc!Next
<1> QED BY <1>1, <1>2, <1>3, <1>4, <1>5, <1>6, <1>7 DEF Breaker!Next

LEMMA RcIsMintBreaker == Breaker!Spec => Rc!Spec
<1>1. Breaker!Init <=> Rc!Init
  BY DEF Breaker!Init, Rc!Init, Breaker!NothingSeen, Rc!NothingSeen
<1>2. [Breaker!Next]_(Breaker!vars) => [Rc!Next]_(Rc!vars)
  BY SameNext DEF Breaker!vars, Rc!vars
<1> QED BY <1>1, <1>2, PTL DEF Breaker!Spec, Rc!Spec

\* However prices move and whoever buys, the credits minted over a span of time are
\* within the breaker's budget.
THEOREM CreditsAreBounded == Spec => []Breaker!SpanBound
<1>1. Rc!Spec => []Rc!SpanBound
  BY RcAssumptions, Rc!SpanIsBounded, PTL
<1>2. Rc!SpanBound => Breaker!SpanBound
  BY DEF Rc!SpanBound, Breaker!SpanBound, Rc!Budget, Breaker!Budget
<1> QED BY <1>1, <1>2, RcIsMintBreaker, CreditsImplementMintBreaker, PTL DEF MintIsGuarded

-----------------------------------------------------------------------------
(* Type correctness *)

\* Nobody can make more of a token than there is, and counters of burned credits stay
\* as they were made.
Bounded ==
  /\ freeze_authority \in Keys \cup {Credits}
  /\ rndr <= Rndr
  /\ DOMAIN rewards \subseteq Owners
  /\ \A o \in DOMAIN rewards : rewards[o] \in [DOMAIN Starts -> U64]

LEMMA BoundedPreserved == IInv /\ Bounded /\ [Next]_vars => Bounded'
<1> SUFFICES ASSUME IInv, Bounded, [Next]_vars PROVE Bounded'
  OBVIOUS
<1>1. CASE UNCHANGED <<freeze_authority, rndr, rewards>>
  BY <1>1 DEF Bounded
<1>2. ASSUME NEW m \in Keys, NEW f \in Keys, NEW a \in Keys, NEW x \in Oracles, NEW c \in Configs,
             InitializeRenderCreditsV0(m, f, a, x, c)
      PROVE  Bounded'
  BY <1>2 DEF InitializeRenderCreditsV0, Bounded
<1>3. ASSUME NEW o \in Owners, NEW a \in Amounts \cup {None}, NEW c \in Amounts \cup {None},
             MintRenderCreditsV0(o, a, c)
      PROVE  Bounded'
  <2>1. PICK r \in Nat, d \in Nat : Exchange(o, r, d)
    BY <1>3, PurchaseIsFair
  <2>2. rndr \in Nat /\ Rndr \in Nat /\ rndr' = rndr - r
        /\ UNCHANGED <<freeze_authority, rewards>>
    BY <2>1, NumbersAssumption, U64MaxAssumption DEF Exchange, IInv, Numbers, U64
  <2>3. rndr' <= Rndr
    BY <2>2 DEF Bounded
  <2> QED BY <2>2, <2>3 DEF Bounded
<1>4. ASSUME NEW o \in Owners, InitializeBurnRewardsV0(o)
      PROVE  Bounded'
  <2>1. /\ DOMAIN rewards' = DOMAIN rewards \cup {o}
        /\ \A x \in DOMAIN rewards' :
             rewards'[x] = IF x = o THEN [i \in DOMAIN Starts |-> 0] ELSE rewards[x]
        /\ UNCHANGED <<freeze_authority, rndr>>
    BY <1>4 DEF InitializeBurnRewardsV0
  <2>2. [i \in DOMAIN Starts |-> 0] \in [DOMAIN Starts -> U64]
    BY U64MaxAssumption DEF U64
  <2>3. \A x \in DOMAIN rewards' : rewards'[x] \in [DOMAIN Starts -> U64]
    BY <2>1, <2>2 DEF Bounded
  <2> QED BY <2>1, <2>3 DEF Bounded
<1>5. CASE Administration
  BY <1>1, <1>2, <1>5
  DEF Administration, UpdateRenderCreditsV0, UpdateBreaker, DeleteBreaker
<1>6. CASE TokenProgram
  BY <1>1, <1>6
  DEF TokenProgram, CreateAccount, CloseAccount, Transfer, BurnDirectly, MintAround,
      FreezeDirectly
<1>7. CASE UNCHANGED vars
  BY <1>1, <1>7 DEF vars
<1> QED
  BY <1>1, <1>3, <1>4, <1>5, <1>6, <1>7
  DEF Next, BurnRenderCreditsV0, Publish, Tick, OpenBook

\* Nobody holds more credits than there are.
LEMMA HeldOfSupply ==
  ASSUME IInv, Sums, NEW o \in DOMAIN accounts
  PROVE  accounts[o].amount \in Nat /\ accounts[o].amount <= supply
<1>1. /\ IsFiniteSet(DOMAIN accounts)
      /\ \A x \in DOMAIN accounts : Balances[x] \in Nat /\ Balances[x] = accounts[x].amount
  BY DEF Sums, Ledger, IInv, Holdings, Balances
<1>2. /\ Total(Balances, DOMAIN accounts \ {o}) \in Nat
      /\ Total(Balances, DOMAIN accounts) = Balances[o] + Total(Balances, DOMAIN accounts \ {o})
  BY <1>1, TotalStep
<1>3. Total(Balances, DOMAIN accounts) = supply
  BY DEF Sums, Conserved
<1> QED BY <1>1, <1>2, <1>3

\* The credit accounts hold the supply of the RC mint between them.
THEOREM CreditsAreConserved ==
  Spec => [](SumFunctionOnSet(Balances, DOMAIN accounts) = supply)
<1>1. IInv /\ Sums => SumFunctionOnSet(Balances, DOMAIN accounts) = supply
  BY SumIsTotal DEF IInv, Holdings, Balances, Sums, Ledger, Conserved
<1> QED BY <1>1, InitSums, SumsPreserved, Invariance, PTL DEF Spec

\* Everything keeps its type: no balance outgrows a u64, because none outgrows the supply.
THEOREM TypeCorrect == Spec => []TypeOK
<1>1. Rc!Spec => []Rc!TypeOK
  BY RcAssumptions, Rc!TypeCorrect, PTL
<1>2. Rc!TypeOK => Breaker!TypeOK
  BY DEF Rc!TypeOK, Breaker!TypeOK, Rc!BreakerType, Breaker!BreakerType,
         Rc!ConfigType, Breaker!ConfigType, Rc!WindowType, Breaker!WindowType,
         Rc!ObservationType, Breaker!ObservationType, Rc!ThresholdType,
         Breaker!ThresholdType, Rc!U64, Breaker!U64
<1>3. Init => Bounded
  BY NumbersAssumption, U64MaxAssumption DEF Init, Bounded, U64
<1>4. Breaker!TypeOK /\ IInv /\ Sums /\ Bounded => TypeOK
  <2> SUFFICES ASSUME Breaker!TypeOK, IInv, Sums, Bounded PROVE TypeOK
    OBVIOUS
  <2>1. \A o \in DOMAIN accounts : accounts[o] \in AccountType
    <3> SUFFICES ASSUME NEW o \in DOMAIN accounts PROVE accounts[o] \in AccountType
      OBVIOUS
    <3>1. accounts[o].amount \in U64
      BY HeldOfSupply, U64MaxAssumption DEF IInv, Numbers, MintNumbers, U64
    <3>2. accounts[o] \in [amount: Nat, frozen: BOOLEAN]
      BY DEF IInv, Holdings
    <3> QED BY <3>1, <3>2 DEF AccountType
  <2>2. rndr \in U64
    BY NumbersAssumption, U64MaxAssumption DEF Bounded, IInv, Numbers, U64
  <2>3. outside \in Nat
    BY DEF Sums, Circulating
  <2> QED BY <2>1, <2>2, <2>3 DEF TypeOK, IInv, Records, Holdings, Bounded
<1> QED
  BY <1>1, <1>2, <1>3, <1>4, RcIsMintBreaker, CreditsImplementMintBreaker, InitSums,
     SumsPreserved, BoundedPreserved, Invariance, PTL
  DEF Spec, MintIsGuarded
=============================================================================
