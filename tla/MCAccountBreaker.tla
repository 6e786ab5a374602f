--------------------------- MODULE MCAccountBreaker ---------------------------
(***************************************************************************)
(* AccountBreaker on a small instance: u64 shrunk to 0..5, a Percent       *)
(* threshold of 3/5 and Absolute ones of 2 and 3, windows of 0, 2 and 3    *)
(* seconds inside a clock of 5 seconds.                                    *)
(***************************************************************************)
EXTENDS AccountBreaker

MCConfigs ==
  {[window_size_seconds |-> w, threshold_type |-> t, threshold |-> h] :
     <<w, t, h>> \in {<<0, "Absolute", 2>>, <<2, "Absolute", 3>>, <<3, "Percent", 3>>}}
=============================================================================
