----------------------------- MODULE Deployment -----------------------------
(***************************************************************************)
(* deploy.ts: the script that creates the mints, funds the bridge, and     *)
(* hands the mints to the programs.                                        *)
(*                                                                         *)
(* A run goes through a list of transactions, looks before most of them    *)
(* whether their account exists, and sends and awaits one after the other. *)
(* It may be stopped anywhere, or stop because of an error; what it sent   *)
(* may be lost, or land when the script is no more or a later run is on.   *)
(* Then the script is run again.                                           *)
(***************************************************************************)
EXTENDS Integers, Sequences

CONSTANTS
  Files,      \* assets to be uploaded
  MaxBridge,  \* bound of the model: runs with the option mintBridge
  MaxFaults   \* bound of the model: failures; the script is run again after each

ASSUME BoundsAssumption == MaxBridge \in Nat /\ MaxFaults \in Nat

VARIABLES
  accounts,   \* accounts on the chain
  held,       \* mints whose authority is the deployer
  funded,     \* how often the bridge's escrow was minted its RNDR
  uploaded,   \* files in the bucket
  left,       \* transactions of ended runs that were neither executed nor lost, counted
  phase, at,  \* the script: what it does, and at which transaction
  mintBridge, \* its option
  bridged,    \* runs with it
  faults

chain == <<accounts, held, funded, uploaded>>
script == <<phase, at, mintBridge, bridged>>
deployment == <<chain, left, script, faults>>

\* The script's transactions, named by what they make, in their order.
Order == <<"rndrMint", "rndrMetadata", "bridge", "escrow", "fund",
           "rcMint", "rcMetadata", "renderCredits", "distributor">>
Transactions == {Order[i] : i \in DOMAIN Order}
LastPlace == Len(Order)
Position(x) == CHOOSE i \in DOMAIN Order : Order[i] = x
Current == Order[at]

DeploymentInit ==
  /\ accounts = {} /\ held = {} /\ funded = 0 /\ uploaded = {} /\ left = [x \in Transactions |-> 0]
  /\ phase = "off" /\ at = 1 /\ mintBridge = FALSE /\ bridged = 0 /\ faults = 0

-----------------------------------------------------------------------------
(* The chain *)

\* What a transaction makes must not be there; what it uses must be.  Metadata, minting and
\* handing a mint over need its authority.
Executable(x) ==
  CASE x \in {"rndrMint", "rcMint"} -> x \notin accounts
    [] x \in {"bridge", "escrow"} -> x \notin accounts /\ "rndrMint" \in accounts
    [] x = "fund" -> "escrow" \in accounts /\ "rndrMint" \in held
    [] x \in {"rndrMetadata", "distributor"} -> x \notin accounts /\ "rndrMint" \in held
    [] x \in {"rcMetadata", "renderCredits"} -> x \notin accounts /\ "rcMint" \in held

\* A mint is made with the deployer as its authority; the programs' initializers take it.
Execute(x) ==
  /\ accounts' = IF x = "fund" THEN accounts ELSE accounts \cup {x}
  /\ held' = CASE x \in {"rndrMint", "rcMint"} -> held \cup {x}
               [] x = "distributor" -> held \ {"rndrMint"}
               [] x = "renderCredits" -> held \ {"rcMint"}
               [] OTHER -> held
  /\ funded' = IF x = "fund" THEN funded + 1 ELSE funded
  /\ UNCHANGED uploaded

\* An error ends the run, but for one of getOrCreateAssociatedTokenAccount, which looks again.
\* Plausible slip: the answer is not looked at.
ErrorIgnored(x) == TRUE

Tolerated(x) == x = "escrow" /\ "escrow" \in accounts

GoOn(i) == at' = i /\ phase' = IF i > LastPlace THEN "done" ELSE "look"
GiveUp == phase' = "off" /\ UNCHANGED at

ExecuteOrRefuse(x) == \/ Executable(x) /\ Execute(x)
                      \/ ~Executable(x) /\ UNCHANGED chain

\* The cluster executes what the run waits for, and tells it.
Land ==
  /\ phase = "await" /\ ExecuteOrRefuse(Current)
  /\ IF Executable(Current) \/ Tolerated(Current) THEN GoOn(at + 1) ELSE GiveUp
  /\ UNCHANGED <<left, mintBridge, bridged, faults>>

\* It executes what an earlier run has left.
LandLate(x) ==
  /\ left[x] > 0 /\ left' = [left EXCEPT ![x] = @ - 1]
  /\ ExecuteOrRefuse(x)
  /\ UNCHANGED <<script, faults>>

-----------------------------------------------------------------------------
(* The script *)

Start(bridge) ==
  /\ phase = "off"
  /\ phase' = "upload" /\ at' = 1 /\ mintBridge' = bridge
  /\ bridged' = IF bridge THEN bridged + 1 ELSE bridged
  /\ UNCHANGED <<chain, left, faults>>

StartBridge == bridged < MaxBridge /\ Start(TRUE)

\* The files the bucket lacks, one after the other.
Upload ==
  /\ phase = "upload"
  /\ IF uploaded = Files
     THEN GoOn(1) /\ UNCHANGED uploaded
     ELSE /\ \E f \in Files \ uploaded : uploaded' = uploaded \cup {f}
          /\ UNCHANGED <<phase, at>>
  /\ UNCHANGED <<accounts, held, funded, left, mintBridge, bridged, faults>>

\* Plausible slips: the bridge is looked for as well; an existing account of the program is not.
CheckedWithBridge(x) == x # "fund"
CheckedButCredits(x) == x \notin {"bridge", "fund", "renderCredits"}

\* Bridge and funding are sent without a look.
Checked(x) == x \notin {"bridge", "fund"}

\* What is left out when an account is found: of a mint its metadata as well.
After(x) ==
  CASE x = "rndrMint" -> Position("bridge")
    [] x = "rcMint" -> Position("renderCredits")
    [] OTHER -> Position(x) + 1

Look ==
  /\ phase = "look"
  /\ IF Current = "bridge" /\ ~mintBridge THEN GoOn(Position("rcMint"))
     ELSE IF Checked(Current) /\ Current \in accounts THEN GoOn(After(Current))
     ELSE phase' = "send" /\ UNCHANGED at
  /\ UNCHANGED <<chain, left, mintBridge, bridged, faults>>

Send ==
  /\ phase = "send" /\ phase' = "await"
  /\ UNCHANGED <<chain, left, at, mintBridge, bridged, faults>>

Script == Upload \/ Look \/ Send

Fault == faults < MaxFaults /\ faults' = faults + 1 /\ UNCHANGED <<chain, mintBridge, bridged>>

\* The script is stopped, or an answer does not come in time: the run is over, and what it
\* sent last may still be on its way.
Interrupted ==
  /\ phase \notin {"off", "done"} /\ GiveUp /\ Fault
  /\ left' = IF phase = "await" THEN [left EXCEPT ![Current] = @ + 1] ELSE left

\* A transaction is lost for good; a run that waits for it is told.
Lose == phase = "await" /\ GiveUp /\ Fault /\ UNCHANGED left

LoseLate(x) ==
  /\ left[x] > 0 /\ left' = [left EXCEPT ![x] = @ - 1]
  /\ UNCHANGED <<chain, script, faults>>

DeploymentNext ==
  \/ Start(FALSE) \/ StartBridge \/ Script \/ Interrupted \/ Land \/ Lose
  \/ \E x \in Transactions : LandLate(x) \/ LoseLate(x)

\* The script runs on, what it waits for lands if it is not lost, and the script is run again,
\* without mintBridge, until it comes to its end.
Fairness ==
  /\ WF_deployment(Script) /\ WF_deployment(Land)
  /\ SF_deployment(Start(FALSE))

DeploymentSpec == DeploymentInit /\ [][DeploymentNext]_deployment /\ Fairness

-----------------------------------------------------------------------------
(* Properties *)

\* The whole supply is minted to the bridge once at most, however often the script is run
\* with mintBridge, interrupted between any two steps, or overtaken by what an earlier run
\* had sent: initializing the bridge, which is sent without a look, can succeed only once.
FundedOnce == funded <= 1

\* A run that comes to its end leaves both mints, each handed over to its program, and, with
\* mintBridge, a bridge that was funded.
DoneIsDeployed ==
  phase = "done" =>
    /\ {"rndrMint", "rcMint", "renderCredits", "distributor"} \subseteq accounts
    /\ held = {}
    /\ mintBridge => "bridge" \in accounts /\ funded = 1

\* After any failures, running the script again gets to the end: no step a failed run has
\* taken, or has left out, is in the way.
RerunCompletes == <>(phase = "done")
=============================================================================
