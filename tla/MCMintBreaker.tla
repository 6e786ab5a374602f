---------------------------- MODULE MCMintBreaker ----------------------------
(***************************************************************************)
(* MintBreaker on a small instance: u64 shrunk to 0..6 so that the supply, *)
(* the sum of enforce_window and the Percent denominator reach their       *)
(* limits, windows of 0, 2 and 3 seconds inside a clock of 6 seconds.      *)
(***************************************************************************)
EXTENDS MintBreaker

MCConfigs ==
  {[window_size_seconds |-> w, threshold_type |-> t, threshold |-> h] :
     <<w, t, h>> \in {<<0, "Absolute", 3>>, <<2, "Absolute", 3>>,
                      <<3, "Absolute", 4>>, <<3, "Percent", 4>>}}
=============================================================================
