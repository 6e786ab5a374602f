------------------------ MODULE MCAccountFetchCache ------------------------
(***************************************************************************)
(* AccountFetchCache on small instances.  MCAccountFetchCache.cfg has two  *)
(* accounts, one declared static, a caller, and one request at a time      *)
(* beside the batch that fills.  MCAccountFetchCacheSettles.cfg has one    *)
(* account, two callers, and two requests whose answers may change places. *)
(***************************************************************************)
EXTENDS AccountFetchCache, TLC

CONSTANTS page, panel, k1, k2, r1, r2
=============================================================================
