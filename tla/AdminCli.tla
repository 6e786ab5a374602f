------------------------------ MODULE AdminCli ------------------------------
(***************************************************************************)
(* The package render-admin-cli: the deployment script, run until it comes *)
(* to its end, and then the helpers an administrator calls to have further *)
(* instructions signed by a governance or a multisig.                      *)
(***************************************************************************)
EXTENDS Deployment

CONSTANTS Calls, Large, Tries  \* see Proposals

ASSUME TriesAssumption == Tries \in Nat \ {0}

VARIABLES
  state, inserted, deposited, voted, status, added, done, late,
  route, instructions, execute, pc, gov, idx, tries,
  tokens  \* its balance

Helper == INSTANCE Proposals WITH balance <- tokens

ASSUME CallsAssumption == Calls \subseteq Seq(Helper!Signers)

helper == <<state, inserted, deposited, voted, status, added, done, late,
            route, instructions, execute, pc, gov, idx, tries, tokens>>

\* Nothing of the deployment is on its way any more.
Deployed == phase = "done" /\ \A x \in Transactions : left[x] = 0

AdminInit == DeploymentInit /\ Helper!Init
Deploy == DeploymentNext /\ UNCHANGED helper
Administer == Deployed /\ Helper!Next /\ UNCHANGED deployment

AdminSpec == AdminInit /\ [][Deploy \/ Administer]_<<deployment, helper>> /\ Fairness

\* See Proposals: a call that returns has skipped nothing, whatever deployment came before.
ReturnedIsComplete == Helper!NothingIsSkipped
=============================================================================
