---------------------------- MODULE MCClientCode ----------------------------
(* Small instances of the parts of ClientCode. *)
EXTENDS ClientCode, TLC

CONSTANTS m1, m2

\* Two callers of one wallet, a friend and two mints, one the collection of the other.
Ask(op, m, to, n) ==
  [op |-> op, mint |-> m, from |-> Wallet, to |-> to, amount |-> n, collection |-> "none"]

MCOwners == {"wallet", "friend"}
MCRequests ==
  {Ask(op, m1, "friend", 1) : op \in {"mintTo", "createAta", "createNft", "createMint"}}
    \cup {Ask("createAtaAndMint", m1, o, 2) : o \in MCOwners}
    \cup {Ask("createAtaAndMint", m1, "friend", 0), Ask("createAtaAndTransfer", m1, "friend", 1)}
    \cup {[Ask("createAtaAndTransfer", m1, "wallet", 1) EXCEPT !.from = "friend"]}
    \cup {[Ask("createNft", m2, "wallet", 1) EXCEPT !.collection = m1]}

\* An instruction of each client that resolves accounts, and one with a group of accounts; the
\* accounts are those of the programs' handlers that any rule is about.
MintRenderCredits ==
  [name |-> "mintRenderCreditsV0", client |-> "renderCredits",
   accounts |-> << <<"renderCredits">>, <<"burner">>, <<"recipientTokenAccount">>,
                   <<"recipient">>, <<"owner">>, <<"rndrMint">>, <<"rcMint">>,
                   <<"circuitBreaker">>, <<"circuitBreakerProgram">> >>,
   derived |-> <<"renderCredits">> :> {<<"rcMint">>} @@ <<"owner">> :> {}
               @@ <<"rndrMint">> :> {<<"renderCredits">>} @@ <<"rcMint">> :> {<<"renderCredits">>}
               @@ <<"circuitBreaker">> :> {<<"rcMint">>, <<"circuitBreakerProgram">>}]

BurnRenderCredits ==
  [name |-> "burnRenderCreditsV0", client |-> "renderCredits",
   accounts |-> << <<"renderCredits">>, <<"burner">>, <<"owner">>, <<"rcMint">>, <<"rndrMint">> >>,
   derived |-> <<"renderCredits">> :> {<<"rcMint">>} @@ <<"owner">> :> {}
               @@ <<"rcMint">> :> {<<"renderCredits">>}]

InitializeMintWindowedBreaker ==
  [name |-> "initializeMintWindowedBreakerV0", client |-> "circuitBreaker",
   accounts |-> << <<"payer">>, <<"circuitBreaker">>, <<"mint">>, <<"mintAuthority">> >>,
   derived |-> <<"payer">> :> {} @@ <<"circuitBreaker">> :> {<<"mint">>}
               @@ <<"mintAuthority">> :> {}]

InitializeEmissionSchedule ==
  [name |-> "initializeEmissionScheduleV0", client |-> "emissionSchedule",
   accounts |-> << <<"schedule">>, <<"rndrMint">>, <<"payer">> >>,
   derived |-> <<"payer">> :> {}]

WithAGroup ==
  [name |-> "mint", client |-> "common",
   accounts |-> << <<"tree">>, <<"common", "tree">>, <<"common", "bubblegumProgram">>,
                   <<"common", "logWrapper">> >>,
   derived |-> <<"tree">> :> {<<"common", "bubblegumProgram">>}]

MCInstructions == {MintRenderCredits, BurnRenderCredits, InitializeMintWindowedBreaker,
                   InitializeEmissionSchedule, WithAGroup}

\* One or two transactions of up to three instructions, of the client's program, another
\* program with an IDL of its own, and the System program.
Programs == {"render_credits", "circuit_breaker", "system"}
MCBatches == {<<a>> : a \in UNION {[1..n -> Programs] : n \in 1..3}}
               \cup {<<a, b>> : a \in [1..1 -> Programs], b \in [1..2 -> Programs]}
MCIdlErrors == {6000, 6001}
MCCodes == {0, 1, 2, 15, 16, 101, 2006, 3012, 6000, 6001, 6002}

\* Trees with no canopy, with a part of the path, with all of it, and one that is too deep.
MCTrees == {[depth |-> 3, canopy |-> c] : c \in 1..3} \cup {[depth |-> 2, canopy |-> 0],
            [depth |-> 4, canopy |-> 1]}

\* Amounts on the bridge's page are counted in halves.
MCIsWhole(n) == n % 2 = 0
=============================================================================
