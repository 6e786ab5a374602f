---------------------- MODULE MCEmissionDistribution ----------------------
(***************************************************************************)
(* EmissionDistribution on a small instance.  The emissions 5 and 6 are    *)
(* split 60/40, so that shares round down, and 80/20 to one account that   *)
(* is named twice, to whom the node is a stranger; the split 90/90 must be *)
(* refused.  The u64 is shrunk so that 80 times 6 overflows it.  The       *)
(* moments of the cron schedule come faster than the breaker's window      *)
(* passes, as in a month of 28 days.                                       *)
(***************************************************************************)
EXTENDS EmissionDistribution

CONSTANTS artist, node

Split(p, q) == <<[account |-> artist, percent |-> p], [account |-> node, percent |-> q]>>

Twice == <<[account |-> artist, percent |-> 80], [account |-> artist, percent |-> 20]>>

MCRewardsArgs == {Split(60, 40), Split(90, 90), Twice}

Item(start, emissions) ==
  [start_unix_time |-> start, emissions_per_epoch |-> emissions, emitted |-> FALSE]

MCSchedules == {<<Item(0, 5)>>, <<Item(0, 6), Item(3, 5)>>}
=============================================================================
