-------------------------- MODULE AccountResolution --------------------------
(***************************************************************************)
(* The accounts of an instruction a client did not name: the resolvers of  *)
(* accountsResolver/ and the ones the SDK packages combine from them.      *)
(*                                                                         *)
(* Anchor fills in what it can derive from other accounts, asks the        *)
(* client's resolver, and starts again as long as either has added one.    *)
(* A resolver goes through the accounts in the order of the instruction,   *)
(* one await each, and sees what it and those before it have added.        *)
(***************************************************************************)
EXTENDS Integers, Sequences, SequencesExt

CONSTANT Instructions
  \* [name, client: which SDK package, accounts: their paths, in order,
  \*  derived: of some paths, the paths Anchor derives it from]

\* The resolvers each client combines, in their order.
CircuitBreakerResolvers == <<"circuitBreakerProgram">>
RenderCreditsResolvers ==
  CircuitBreakerResolvers \o <<"recipientTokenAccount", "burner", "recipient">>
EmissionScheduleResolvers == <<>>

Clients ==
  [circuitBreaker |-> CircuitBreakerResolvers, renderCredits |-> RenderCreditsResolvers,
   emissionSchedule |-> EmissionScheduleResolvers,
   common |-> <<"heliumCommon">>]

VARIABLES
  instruction, given,   \* what is to be sent, and the accounts the caller named
  wallet,               \* whether the provider has one
  accounts,             \* the key at each path, None while there is none
  pc,                   \* "derive", "resolve" or "done"
  resolver, account,    \* the resolver and the account it is at
  resolved              \* accounts added in this pass

call == <<instruction, given, wallet>>
vars == <<call, accounts, pc, resolver, account, resolved>>

None == <<>>
Name(path) == Last(path)
Paths == ToSet(instruction.accounts)
Get(a, path) == IF path \in DOMAIN a THEN a[path] ELSE None
Set(a, path, key) == IF key = None THEN a ELSE [a EXCEPT ![path] = key]
Named(a) == {p \in DOMAIN a : a[p] # None}
Resolvers == Clients[instruction.client]
Signer(p) == p \in DOMAIN instruction.derived /\ instruction.derived[p] = {}

Init ==
  /\ instruction \in Instructions /\ wallet \in BOOLEAN
  /\ \E S \in SUBSET Paths :
       \* without a wallet Anchor refuses a call that does not name its signers
       /\ wallet \/ \A p \in Paths : Signer(p) => p \in S
       /\ given = [p \in Paths |-> IF p \in S THEN <<"given", p>> ELSE None]
  /\ accounts = given
  /\ pc = "derive" /\ resolver = 1 /\ account = 1 /\ resolved = 0

-----------------------------------------------------------------------------
(* Anchor *)

\* Signers default to the wallet, other accounts are derived from those they depend on.
Derivable(a, p) ==
  /\ p \in DOMAIN instruction.derived
  /\ instruction.derived[p] \subseteq Named(a)

Derived(p) == IF Signer(p) THEN <<"wallet">> ELSE <<"derived", p>>

\* Anchor's own passes over the accounts, before the client's resolver is asked.
Derive ==
  LET new == {p \in Paths : accounts[p] = None /\ Derivable(accounts, p)} IN
  /\ pc = "derive"
  /\ accounts' = [p \in Paths |-> IF p \in new THEN Derived(p) ELSE accounts[p]]
  /\ resolved' = IF new = {} THEN 0 ELSE 1
  /\ pc' = "resolve" /\ resolver' = 1 /\ account' = 1
  /\ UNCHANGED call

-----------------------------------------------------------------------------
(* The resolvers *)

HeliumCommon ==
  {"dataCreditsProgram", "tokenMetadataProgram", "heliumSubDaosProgram", "bubblegumProgram",
   "compressionProgram", "logWrapper", "governanceProgramId", "voterStakeRegistryProgramId",
   "vsrProgram", "instructions", "lazyDistributorProgram"}

\* An account of one instruction: the associated token account of a mint and an owner.
AtaResolver(name, path, mint, owner, p, a) ==
  IF /\ instruction.name = name /\ p = path
     /\ Get(a, mint) # None /\ Get(a, owner) # None
  THEN <<"ata", Get(a, mint), Get(a, owner)>>
  ELSE None

\* Plausible slip: credits go to whoever pays for them.
ResolveForOwner(r, p, a) ==
  CASE r = "circuitBreakerProgram" -> IF Name(p) = r THEN <<"program", r>> ELSE None
    [] r = "recipientTokenAccount" ->
         AtaResolver("mintRenderCreditsV0", <<r>>, <<"rcMint">>, <<"owner">>, p, a)
    [] r = "burner" -> AtaResolver("mintRenderCreditsV0", <<r>>, <<"rndrMint">>, <<"owner">>, p, a)
    [] r = "recipient" -> IF Name(p) = r /\ Get(a, <<r>>) = None /\ wallet
                          THEN <<"wallet">> ELSE None
    [] r = "heliumCommon" -> IF Name(p) \in HeliumCommon THEN <<"program", Name(p)>> ELSE None

Resolve(r, p, a) ==
  CASE r = "circuitBreakerProgram" -> IF Name(p) = r THEN <<"program", r>> ELSE None
    [] r = "recipientTokenAccount" ->
         AtaResolver("mintRenderCreditsV0", <<r>>, <<"rcMint">>, <<"recipient">>, p, a)
    [] r = "burner" -> AtaResolver("mintRenderCreditsV0", <<r>>, <<"rndrMint">>, <<"owner">>, p, a)
    [] r = "recipient" -> IF Name(p) = r /\ Get(a, <<r>>) = None /\ wallet
                          THEN <<"wallet">> ELSE None
    [] r = "heliumCommon" -> IF Name(p) \in HeliumCommon THEN <<"program", Name(p)>> ELSE None

\* resolveIndividualImpl: what is there is kept.
Value(r, p) == IF accounts[p] # None THEN accounts[p] ELSE Resolve(r, p, accounts)

Count(p, value) == IF accounts[p] = None /\ value # None THEN 1 ELSE 0

\* One account, by one resolver.
ResolveIndividual ==
  LET p == instruction.accounts[account]
      value == Value(Resolvers[resolver], p)
  IN /\ pc = "resolve" /\ resolver <= Len(Resolvers) /\ account <= Len(instruction.accounts)
     /\ accounts' = Set(accounts, p, value)
     /\ resolved' = resolved + Count(p, value)
     /\ account' = account + 1
     /\ UNCHANGED <<call, pc, resolver>>

\* combineResolvers: the next resolver goes on with the accounts and the count of this one.
NextResolver ==
  /\ pc = "resolve" /\ resolver <= Len(Resolvers) /\ account > Len(instruction.accounts)
  /\ resolver' = resolver + 1 /\ account' = 1
  /\ UNCHANGED <<call, accounts, pc, resolved>>

\* Anchor starts again, or sends the instruction with what there is.
Return ==
  /\ pc = "resolve" /\ resolver > Len(Resolvers)
  /\ pc' = IF resolved > 0 THEN "derive" ELSE "done"
  /\ UNCHANGED <<call, accounts, resolver, account, resolved>>

Next == Derive \/ ResolveIndividual \/ NextResolver \/ Return

Spec == Init /\ [][Next]_vars

-----------------------------------------------------------------------------
(* Properties *)

\* What the accounts of a purchase of credits are to be, whoever was named: who is not paying
\* for somebody else pays for himself, the credits go to the recipient's own account, the RNDR
\* comes from the owner's.
AtaIsMeant(p, mint, owner) ==
  /\ {mint, owner} \subseteq Named(accounts) <=> accounts[p] # None
  /\ accounts[p] # None => accounts[p] = <<"ata", accounts[mint], accounts[owner]>>

Meant(p) ==
  /\ p = <<"recipient">> /\ wallet => accounts[p] = <<"wallet">>
  /\ p = <<"recipientTokenAccount">> => AtaIsMeant(p, <<"rcMint">>, <<"recipient">>)
  /\ p = <<"burner">> => AtaIsMeant(p, <<"rndrMint">>, <<"owner">>)
  /\ Name(p) \in HeliumCommon \cup {"circuitBreakerProgram"} =>
       accounts[p] = IF \E r \in ToSet(Resolvers) :
                          Name(p) \in (IF r = "heliumCommon" THEN HeliumCommon ELSE {r})
                     THEN <<"program", Name(p)>> ELSE None
  /\ Derivable(accounts, p) => accounts[p] # None

\* When Anchor stops asking, every account that was not named and can be known is filled in, with
\* the key that follows from the others as they are in the end: recipientTokenAccount is
\* looked for before recipient is, and circuitBreaker before circuitBreakerProgram, so that
\* this takes another pass, which happens only if the resolvers count what they add.
ResolvedAsMeant ==
  pc = "done" => \A p \in Paths :
    given[p] = None /\ (instruction.name = "mintRenderCreditsV0" \/ Name(p) # "burner") => Meant(p)
=============================================================================
