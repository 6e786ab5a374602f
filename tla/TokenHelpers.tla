---------------------------- MODULE TokenHelpers ----------------------------
(***************************************************************************)
(* token.ts: the helpers that make token accounts, mints and NFTs, mint    *)
(* and transfer, each with one transaction of the provider's wallet.       *)
(*                                                                         *)
(* A helper looks whether the token account is there, chooses its          *)
(* instructions by what it saw, sends them and waits.  Between its look    *)
(* and its transaction the account may appear; it may be told of an error  *)
(* though its transaction lands, then or later; and who is told of an      *)
(* error may call it again.                                                *)
(***************************************************************************)
EXTENDS Integers, Sequences, FiniteSetsExt, SequencesExt

CONSTANTS
  Mints,      \* keys of mints, those to be made included
  Existing,   \* mints that may be there already, the wallet their authority
  Owners,     \* owners of token accounts, the wallet one of them
  Wallet,     \* the provider's wallet, the one signer besides a new mint's key
  Callers,
  Requests,   \* what may be asked for: [op, mint, from, to, amount, collection]
  MaxTries,   \* bound of the model: calls a caller makes
  MaxFaults   \* bound of the model: lost transactions, lost answers, rejected awaits

None == "none"

VARIABLES
  ledger,     \* mint: of each key "none", "held" by the wallet, or sealed by its "edition";
              \* metadata and verified: mints; accounts: <<mint, owner>>; amount
  flight,     \* transactions that may still be executed
  request,    \* what each caller asks for
  pc, found,  \* where its call is, and whether it saw the account
  tries,      \* its calls so far
  faults

vars == <<ledger, flight, request, pc, found, tries, faults>>

Account(r) == <<r.mint, r.to>>

Init ==
  /\ \E made \in SUBSET Existing :
       ledger = [mint |-> [m \in Mints |-> IF m \in made THEN "held" ELSE None],
                 metadata |-> {}, verified |-> {}, accounts |-> {},
                 amount |-> [a \in Mints \X Owners |-> 0]]
  /\ flight = {}
  /\ request \in [Callers -> Requests]
  /\ pc = [c \in Callers |-> "look"] /\ found = [c \in Callers |-> FALSE]
  /\ tries = [c \in Callers |-> 1]
  /\ faults = 0

-----------------------------------------------------------------------------
(* The token programs: a transaction's instructions, one after the other *)

Supply(l, m) == MapThenSumSet(LAMBDA o : l.amount[<<m, o>>], Owners)

Can(l, r, kind) ==
  CASE kind = "createMint" -> l.mint[r.mint] = None
    [] kind = "createAta" -> l.mint[r.mint] # None /\ Account(r) \notin l.accounts
    [] kind = "mintTo" -> l.mint[r.mint] = "held" /\ Account(r) \in l.accounts
    [] kind = "transfer" -> /\ {<<r.mint, r.from>>, Account(r)} \subseteq l.accounts
                            /\ l.amount[<<r.mint, r.from>>] >= r.amount
    [] kind = "metadata" -> l.mint[r.mint] = "held" /\ r.mint \notin l.metadata
    [] kind = "verify" -> r.mint \in l.metadata /\ l.mint[r.collection] = "edition"
    [] kind = "edition" -> /\ l.mint[r.mint] = "held" /\ r.mint \in l.metadata
                           /\ Supply(l, r.mint) = 1

Do(l, r, kind) ==
  CASE kind = "createMint" -> [l EXCEPT !.mint[r.mint] = "held"]
    [] kind = "createAta" -> [l EXCEPT !.accounts = @ \cup {Account(r)}]
    [] kind = "mintTo" -> [l EXCEPT !.amount[Account(r)] = @ + r.amount]
    [] kind = "transfer" -> LET taken == [l EXCEPT !.amount[<<r.mint, r.from>>] = @ - r.amount]
                            IN  [taken EXCEPT !.amount[Account(r)] = @ + r.amount]
    [] kind = "metadata" -> [l EXCEPT !.metadata = @ \cup {r.mint}]
    [] kind = "verify" -> [l EXCEPT !.verified = @ \cup {r.mint}]
    [] kind = "edition" -> [l EXCEPT !.mint[r.mint] = "edition"]

\* All instructions take effect or, if one of them fails, none.
Run(r, kinds) ==
  FoldLeft(LAMBDA run, kind : IF run.ok /\ Can(run.ledger, r, kind)
                              THEN [run EXCEPT !.ledger = Do(@, r, kind)]
                              ELSE [ok |-> FALSE, ledger |-> ledger],
           [ok |-> TRUE, ledger |-> ledger], kinds)

-----------------------------------------------------------------------------
(* The helpers *)

Optional(b, kind) == IF b THEN <<kind>> ELSE <<>>

CreateMintInstructions == <<"createMint">>

CreateAtaAndTransferInstructions(r, seen) ==
  Optional(~seen, "createAta") \o Optional(r.amount # 0, "transfer")

CreateAtaAndMintInstructions(r, seen) ==
  Optional(~seen, "createAta") \o Optional(r.amount # 0, "mintTo")

CreateNftInstructions(r, seen) ==
  CreateMintInstructions \o <<"metadata">> \o CreateAtaAndMintInstructions(r, seen)
    \o Optional(r.collection # None, "verify") \o <<"edition">>

InstructionsFor(r, seen) ==
  CASE r.op = "mintTo" -> <<"mintTo">>
    [] r.op = "createAta" -> Optional(~seen, "createAta")
    [] r.op = "createAtaAndMint" -> CreateAtaAndMintInstructions(r, seen)
    [] r.op = "createAtaAndTransfer" -> CreateAtaAndTransferInstructions(r, seen)
    [] r.op = "createMint" -> CreateMintInstructions
    [] r.op = "createNft" -> CreateNftInstructions(r, seen)

\* createAta sends its transaction even when it is empty; the others do not.
Sends(r, seen) == r.op = "createAta" \/ InstructionsFor(r, seen) # <<>>

\* Only the wallet signs for tokens that are transferred.
Signable(r) == r.op = "createAtaAndTransfer" /\ r.amount # 0 => r.from = Wallet

Seen(r) == Account(r) \in ledger.accounts

Move(c, l) == pc' = [pc EXCEPT ![c] = l]

\* The first await of a helper: whether the account is there.
Look(c) ==
  /\ pc[c] = "look"
  /\ found' = [found EXCEPT ![c] = Seen(request[c])]
  /\ Move(c, "send")
  /\ UNCHANGED <<ledger, flight, request, tries, faults>>

Send(c) ==
  LET r == request[c] IN
  /\ pc[c] = "send"
  /\ IF ~Sends(r, found[c]) THEN Move(c, "returned") /\ UNCHANGED flight
     ELSE IF ~Signable(r) THEN Move(c, "threw") /\ UNCHANGED flight
     ELSE /\ flight' = flight \cup {[by |-> c, try |-> tries[c],
                                     kinds |-> InstructionsFor(r, found[c])]}
          /\ Move(c, "await")
  /\ UNCHANGED <<ledger, request, found, tries, faults>>

\* Plausible slip: the error is logged and not thrown again.
LoggedOnly(ok) == "returned"

Answer(ok) == IF ok THEN "returned" ELSE "threw"

\* The call that waits for t, if it still does, is told.
Told(t, ok) ==
  IF pc[t.by] = "await" /\ tries[t.by] = t.try THEN Move(t.by, Answer(ok)) ELSE UNCHANGED pc

Land(t) ==
  LET run == Run(request[t.by], t.kinds) IN
  /\ flight' = flight \ {t}
  /\ ledger' = run.ledger
  /\ Told(t, run.ok)
  /\ UNCHANGED <<request, found, tries, faults>>

Fault == faults < MaxFaults /\ faults' = faults + 1

\* The transaction is never executed; its blockhash expires.
Drop(t) ==
  /\ Fault /\ flight' = flight \ {t} /\ Told(t, FALSE)
  /\ UNCHANGED <<ledger, request, found, tries>>

\* An await is rejected; what was sent may still be executed.
Reject(c) ==
  /\ Fault /\ pc[c] \in {"look", "await"} /\ Move(c, "threw")
  /\ UNCHANGED <<ledger, flight, request, found, tries>>

\* Who was told of an error calls the helper once more.
Again(c) ==
  /\ pc[c] = "threw" /\ tries[c] < MaxTries
  /\ tries' = [tries EXCEPT ![c] = @ + 1]
  /\ Move(c, "look")
  /\ UNCHANGED <<ledger, flight, request, found, faults>>

Next ==
  \/ \E c \in Callers : Look(c) \/ Send(c) \/ Reject(c) \/ Again(c)
  \/ \E t \in flight : Land(t) \/ Drop(t)

Spec == Init /\ [][Next]_vars

-----------------------------------------------------------------------------
(* Properties *)

Minting(m) == {c \in Callers : /\ request[c].mint = m
                               /\ request[c].op \in {"mintTo", "createAtaAndMint", "createNft"}}
Giving(a) == {c \in Callers : /\ Account(request[c]) = a
                              /\ request[c].op \notin {"createAta", "createMint"}}
Asked(C) == MapThenSumSet(LAMBDA c : request[c].amount * tries[c], C)
Granted(C) == MapThenSumSet(LAMBDA c : request[c].amount, {c \in C : pc[c] = "returned"})

\* Whatever races, losses and repeated calls: a call that returns has had its effect, a call
\* that threw has had it once at most, so that a supply, and an account nobody here spends
\* from, hold what returned calls put there, and no more than all calls together asked for.
EffectsAreCounted ==
  /\ \A m \in Mints : Granted(Minting(m)) <= Supply(ledger, m)
                      /\ Supply(ledger, m) <= Asked(Minting(m))
  /\ \A a \in Mints \X (Owners \ {Wallet}) : Granted(Giving(a)) <= ledger.amount[a]
                                             /\ ledger.amount[a] <= Asked(Giving(a))

\* createNft returns a token of which there is one, for good: no helper that runs with it or
\* after it can mint another, and, if it has a collection, that is verified.
NftIsUnique ==
  \A c \in Callers : pc[c] = "returned" /\ request[c].op = "createNft" =>
    /\ ledger.mint[request[c].mint] = "edition" /\ Supply(ledger, request[c].mint) = 1
    /\ request[c].collection # None => request[c].mint \in ledger.verified
=============================================================================
