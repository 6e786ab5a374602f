-------------------------- MODULE MCRenderCredits --------------------------
(***************************************************************************)
(* RenderCredits on small instances.  MCRenderCredits.cfg looks at who     *)
(* holds the credits: two owners, one price, a supply of at most three.    *)
(* MCRenderCreditsPrice.cfg looks at what they cost: one owner, two oracle *)
(* accounts, and prices worth less than a credit, more than one (rounding  *)
(* may give credits for nothing), nothing at all, and less than nothing,   *)
(* the confidence off.                                                     *)
(***************************************************************************)
EXTENDS RenderCredits, TLC

CONSTANTS alice, bob

Absolute(window, threshold) ==
  [window_size_seconds |-> window, threshold_type |-> "Absolute", threshold |-> threshold]

MCConfigs == {Absolute(2, 2)}
WiderConfigs == {Absolute(2, 4)}

Price(price, conf) == [price |-> price, conf |-> conf]

OnePrice == {Price(4, 1)}
MCPrices == {Price(4, 1), Price(5, 0), Price(2, 1), Price(1, 1)}

MCStarts == <<0, 2>>

Interchangeable == Permutations({alice, bob})
=============================================================================
