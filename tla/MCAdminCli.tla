----------------------------- MODULE MCAdminCli -----------------------------
(* One file to upload, two failures while deploying; then one call of a helper. *)
EXTENDS AdminCli

MCFiles == {"image"}

By(who, which) == [kind |-> who, key |-> which]

\* A governance and its treasury among others; two governances and the treasury of a third; one
\* account that a multisig may sign for, besides the compute budget; and none.
MCCalls == {<<By("governance", "A"), By("wallet", "A"), By("treasury", "A"), By("keypair", "A")>>,
            <<By("governance", "A"), By("treasury", "C"), By("governance", "B"), By("budget", "")>>,
            <<By("other", "A"), By("budget", ""), By("other", "A"), By("keypair", "A")>>,
            <<By("wallet", "A"), By("keypair", "A"), By("budget", "")>>}
=============================================================================
