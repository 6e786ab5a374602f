------------------------------ MODULE Proposals ------------------------------
(***************************************************************************)
(* sendInstructionsOrCreateProposal and sendInstructionsOrSquads: the      *)
(* helpers that send instructions, and hand those that want a signature    *)
(* the wallet does not have to whoever can give it.                        *)
(*                                                                         *)
(* Each is one long function that sends transaction after transaction and  *)
(* stops at the first error, but for two places where errors are caught:   *)
(* inserting into a proposal, whose errors are dropped, and withRetries.   *)
(* A transaction may be executed though its sender is told of an error,    *)
(* and one that was given up may be executed later.                        *)
(***************************************************************************)
EXTENDS Integers, Sequences, SequencesExt, SortedSets

CONSTANTS
  Calls,   \* lists of instructions, each given by who signs it: see Signers
  Large,   \* the places in a list of those too large for an ordinary insertion
  Tries    \* tries of withRetries

VARIABLES
  state, inserted,      \* of each proposal: its state, and how many transactions it holds
  deposited, voted,     \* the wallet's governing tokens: in the realm, and bound by a vote
  status, added,        \* the multisig's transaction: its status and its instructions
  done,                 \* instructions that were executed
  late,                 \* insertions given up that may still be executed
  route, instructions,  \* the function called, and what it is to send
  execute,              \* its option executeProposal or executeTransaction
  pc, gov, idx, tries,  \* where it is: the governance, the instruction and the try it is at
  balance               \* whether it found governing tokens in the wallet

proposals == <<state, inserted, deposited, voted>>
chain == <<proposals, status, added, done>>
call == <<route, instructions, execute>>
script == <<pc, gov, idx, tries, balance>>
vars == <<chain, late, call, script>>

\* Who signs an instruction: the wallet, a keypair that was given, nobody (one for the compute
\* budget), an account the governance program owns, which is a governance, the native treasury
\* of a governance, which is the account derived from that one's key, or any other account.
Signers == [kind : {"wallet", "keypair", "budget", "governance", "treasury", "other"},
            key : STRING]

All == DOMAIN instructions
SignedBy(kinds) == {i \in All : instructions[i].kind \in kinds}

\* Whose signature is missing, in the order they are met: a proposal is made for accounts of the
\* governance program only, a multisig is asked for whatever else is signed.
Wanting == IF route = "governance" THEN SignedBy({"governance"})
           ELSE SignedBy({"governance", "treasury", "other"})
Met == {i \in Wanting : \A j \in 1 .. i - 1 : instructions[j] # instructions[i]}
Missing == LET first == Sorted(Met) IN [n \in DOMAIN first |-> instructions[first[n]]]

\* A governance's instructions are those that it signs, or its treasury.
Members(g) == {i \in SignedBy({"governance", "treasury"}) : instructions[i].key = Missing[g].key}
Relevant(g) == Sorted(Members(g))

\* What the wallet can sign by itself; without a multisig everything is sent as it is.
Own == IF route = "direct" THEN All ELSE SignedBy({"wallet", "budget"})

Init ==
  /\ instructions \in Calls
  /\ route \in {"governance", "squads", "direct"} /\ execute \in BOOLEAN
  /\ state = [g \in DOMAIN Missing |-> "none"] /\ inserted = [g \in DOMAIN Missing |-> 0]
  /\ deposited \in BOOLEAN /\ voted = FALSE /\ balance = FALSE
  /\ status = "none" /\ added = <<>> /\ done = {} /\ late = {}
  /\ pc = "start" /\ gov = 1 /\ idx = 1 /\ tries = 0

\* A transaction is executed if it can be, or refused or lost; its sender is told so, or told
\* of an error.
Sent(can, Effect, Then, Otherwise) ==
  \/ can /\ Effect /\ (Then \/ Otherwise)
  \/ UNCHANGED chain /\ Otherwise

Goto(l) == pc' = l /\ UNCHANGED <<gov, idx, tries, balance>>
At(l, i) == pc' = l /\ idx' = i /\ tries' = 0 /\ UNCHANGED <<gov, balance>>
Throw == Goto("failed")

-----------------------------------------------------------------------------
(* sendInstructionsOrCreateProposal *)

\* The next governance whose signature is missing; after the last, the instructions that the
\* wallet alone signs.
NextGovernance == pc' = "propose" /\ gov' = gov + 1 /\ idx' = 1 /\ UNCHANGED <<tries, balance>>

\* Tokens in the wallet are deposited, the proposal is created with the wallet to sign it off.
Propose ==
  /\ pc = "propose"
  /\ IF gov > Len(Missing) THEN Goto("own") /\ UNCHANGED chain
     ELSE Sent(TRUE, /\ state' = [state EXCEPT ![gov] = "draft"] /\ deposited' = TRUE
                     /\ UNCHANGED <<inserted, voted, status, added, done>>,
               pc' = "insert" /\ balance' = ~deposited /\ UNCHANGED <<gov, idx, tries>>, Throw)
  /\ UNCHANGED <<call, late>>

Insertable(g, i) == state[g] = "draft" /\ i = inserted[g] + 1
InsertedAt(g) == /\ inserted' = [inserted EXCEPT ![g] = @ + 1]
                 /\ UNCHANGED <<state, deposited, voted, status, added, done>>

\* Whatever comes of the transaction the next one follows.  A large one is sent again by way of
\* a lookup table, whose errors end the call, but for those met on the chain.
Insert ==
  /\ pc = "insert"
  /\ IF idx > Len(Relevant(gov)) THEN Goto("signOff") /\ UNCHANGED <<chain, late>>
     ELSE LET More == At("insert", idx + 1)
          IN \/ /\ Sent(Insertable(gov, idx), InsertedAt(gov), More,
                        More \/ (Relevant(gov)[idx] \in Large /\ Throw))
                /\ UNCHANGED late
             \/ late' = late \cup {<<gov, idx>>} /\ UNCHANGED chain /\ More
  /\ UNCHANGED call

InsertLate ==
  \E m \in late :
    /\ late' = late \ {m}
    /\ \/ Insertable(m[1], m[2]) /\ InsertedAt(m[1])
       \/ UNCHANGED chain
    /\ UNCHANGED <<call, script>>

SignOff ==
  /\ pc = "signOff"
  /\ Sent(state[gov] = "draft",
          state' = [state EXCEPT ![gov] = "voting"]
            /\ UNCHANGED <<inserted, deposited, voted, status, added, done>>,
          IF execute THEN Goto("vote") ELSE NextGovernance, Throw)
  /\ UNCHANGED <<call, late>>

\* The wallet's vote decides, or it needs others.
CastVote ==
  /\ pc = "vote"
  /\ Sent(state[gov] = "voting",
          /\ voted' = TRUE
          /\ \E s \in {"voting", "succeeded"} : state' = [state EXCEPT ![gov] = s]
          /\ UNCHANGED <<inserted, deposited, status, added, done>>,
          At("execute", 1), Throw)
  /\ UNCHANGED <<call, late>>

Executable(g, i) == state[g] = "succeeded" /\ i <= inserted[g] /\ Relevant(g)[i] \notin done
Executed(S) == done' = done \cup S /\ UNCHANGED <<proposals, status, added>>

\* One that the proposal does not hold has no account to be read: the call ends.
Unreadable == idx > inserted[gov] /\ UNCHANGED chain /\ Throw

Execute ==
  /\ pc = "execute"
  /\ IF idx > Len(Relevant(gov)) THEN Goto("relinquish") /\ UNCHANGED chain
     ELSE \/ Unreadable
          \/ /\ idx <= inserted[gov]
             /\ Sent(Executable(gov, idx), Executed({Relevant(gov)[idx]}),
                     At("execute", idx + 1), Throw)
  /\ UNCHANGED <<call, late>>

Relinquish ==
  /\ pc = "relinquish"
  /\ Sent(voted, voted' = FALSE /\ UNCHANGED <<state, inserted, deposited, status, added, done>>,
          IF balance THEN Goto("withdraw") ELSE NextGovernance, Throw)
  /\ UNCHANGED <<call, late>>

Withdraw ==
  /\ pc = "withdraw"
  /\ Sent(~voted, deposited' = FALSE /\ UNCHANGED <<state, inserted, voted, status, added, done>>,
          NextGovernance, Throw)
  /\ UNCHANGED <<call, late>>

\* The instructions that want no signature but the wallet's; without a multisig all of them,
\* which is refused when a signature is missing.
SendOwn ==
  /\ pc = "own"
  /\ Sent(route = "direct" => Missing = <<>>, Executed(Own), Goto("returned"), Throw)
  /\ UNCHANGED <<call, late>>

\* Others vote, and execute what a proposal that succeeded holds.
Others ==
  /\ \/ \E g \in DOMAIN Missing, s \in {"succeeded", "defeated"} :
          /\ state[g] = "voting" /\ state' = [state EXCEPT ![g] = s]
          /\ UNCHANGED <<inserted, deposited, voted, status, added, done>>
     \/ \E g \in DOMAIN Missing, i \in All :
          i <= Len(Relevant(g)) /\ Executable(g, i) /\ Executed({Relevant(g)[i]})
     \/ /\ status = "active" /\ status' = "ready"
        /\ UNCHANGED <<proposals, added, done>>
  /\ UNCHANGED <<late, call, script>>

-----------------------------------------------------------------------------
(* sendInstructionsOrSquads *)

\* Without a multisig, or a signature missing, instructions are sent; with two the call fails.
Start ==
  /\ pc = "start"
  /\ \/ route = "governance" /\ Goto("propose")
     \/ (route = "direct" \/ (route = "squads" /\ Missing = <<>>)) /\ Goto("own")
     \/ route = "squads" /\ Len(Missing) > 1 /\ Throw
     \/ route = "squads" /\ Len(Missing) = 1 /\ Goto("create")
  /\ UNCHANGED <<chain, late, call>>

CreateTransaction ==
  /\ pc = "create"
  /\ Sent(TRUE, status' = "draft" /\ UNCHANGED <<proposals, added, done>>, Goto("add"), Throw)
  /\ UNCHANGED <<call, late>>

\* Plausible slip: after the last try the call goes on.
RetryAndGoOn(Then) == IF tries + 1 < Tries
                      THEN tries' = tries + 1 /\ UNCHANGED <<pc, gov, idx, balance>>
                      ELSE Then

\* withRetries: an error is taken to mean that nothing was done.
Retry(Then) == IF tries + 1 < Tries
               THEN tries' = tries + 1 /\ UNCHANGED <<pc, gov, idx, balance>>
               ELSE Throw

\* Those for the compute budget are left out.
AddInstruction ==
  /\ pc = "add"
  /\ IF idx > Len(instructions) THEN At("activate", 1) /\ UNCHANGED chain
     ELSE IF idx \in SignedBy({"budget"}) THEN At("add", idx + 1) /\ UNCHANGED chain
     ELSE Sent(status = "draft", added' = Append(added, idx) /\ UNCHANGED <<proposals, status, done>>,
               At("add", idx + 1), Retry(At("add", idx + 1)))
  /\ UNCHANGED <<call, late>>

ActivateTransaction ==
  /\ pc = "activate"
  /\ Sent(status = "draft", status' = "active" /\ UNCHANGED <<proposals, added, done>>,
          At("approve", 1), Retry(At("approve", 1)))
  /\ UNCHANGED <<call, late>>

\* The wallet's approval is enough, or it needs others.
ApproveTransaction ==
  /\ pc = "approve"
  /\ LET Approved == IF execute THEN At("run", 1) ELSE Goto("returned")
     IN Sent(status = "active",
             status' \in {"active", "ready"} /\ UNCHANGED <<proposals, added, done>>,
             Approved, Retry(Approved))
  /\ UNCHANGED <<call, late>>

ExecuteTransaction ==
  /\ pc = "run"
  /\ Sent(status = "ready",
          status' = "executed" /\ done' = ToSet(added) /\ UNCHANGED <<proposals, added>>,
          Goto("returned"), Throw)
  /\ UNCHANGED <<call, late>>

-----------------------------------------------------------------------------
Next ==
  \/ Start \/ Propose \/ Insert \/ InsertLate \/ SignOff \/ CastVote \/ Execute
  \/ Relinquish \/ Withdraw \/ SendOwn \/ Others
  \/ CreateTransaction \/ AddInstruction \/ ActivateTransaction \/ ApproveTransaction
  \/ ExecuteTransaction

Spec == Init /\ [][Next]_vars

(* Properties *)

\* What a call passes over without an error: of a governance's call what no proposal is made
\* for, that is what a keypair signs, an account the governance program does not own, or the
\* treasury of a governance that signs nothing itself; of a multisig's the compute budget, or
\* what a keypair signs when no signature is missing.
PassedOver ==
  CASE route = "governance" ->
         SignedBy({"keypair", "other"}) \cup
         {i \in SignedBy({"treasury"}) :
            \A j \in SignedBy({"governance"}) : instructions[j].key # instructions[i].key}
    [] route = "squads" -> SignedBy({IF Missing = <<>> THEN "keypair" ELSE "budget"})
    [] route = "direct" -> {}

\* A call that was to execute what it proposes, and returns, has: though the errors of
\* insertions are dropped, lost answers make it try again and others vote and execute as well,
\* every instruction was executed but for those it passes over, which never are, and the
\* tokens it deposited are back.  What a multisig is asked to approve holds every instruction
\* but the compute budget's, in their order.
NothingIsSkipped ==
  /\ pc = "returned" /\ execute =>
       /\ done = All \ PassedOver
       /\ balance => ~deposited
  /\ status \notin {"none", "draft"} =>
       /\ ToSet(added) = All \ SignedBy({"budget"})
       /\ \A i, j \in DOMAIN added : i < j => added[i] <= added[j]
=============================================================================
