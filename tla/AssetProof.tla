----------------------------- MODULE AssetProof -----------------------------
(***************************************************************************)
(* proofArgsAndAccounts: what an instruction on a compressed asset needs   *)
(* to name its leaf, put together from three reads one after the other:    *)
(* the asset, its proof, and the canopy of its tree.                       *)
(*                                                                         *)
(* An indexer answers the first two, now and then from some time ago,      *)
(* while the tree goes on changing; the tree's program knows the latest    *)
(* changes, and makes up for those since the proof.                        *)
(***************************************************************************)
EXTENDS Integers, Sequences, FiniteSetsExt, SequencesExt

CONSTANTS
  Assets,       \* the assets in the tree, named by their leaves
  Trees,        \* shapes of trees: [depth, canopy], the canopy being what the tree itself
                \* keeps of a path, from the top
  Buffer,       \* changes a tree remembers
  MaxAccounts,  \* accounts of a proof a transaction has room for
  Lag,          \* bound of the model: changes an indexer may be behind
  MaxChanges    \* bound of the model: changes to the tree

VARIABLES
  tree,   \* its shape
  log,    \* the changes so far: the asset, and whether it left the tree with it
  pc, id, \* where the call is, and for which asset
  asset, proof, canopy,   \* what it has read, and of which version of the tree
  used    \* the version the instruction met

call == <<pc, id, asset, proof, canopy, used>>
vars == <<tree, log, call>>

None == [version |-> -1]
Now == Len(log)

\* An asset's content: how often it was changed, 0 before it is minted; it tells its owner,
\* delegate, data and creators.
Content(i, v) == Cardinality({n \in 1..v : log[n].asset = i})
Redeemed(i, v) == \E n \in 1..v : log[n].asset = i /\ log[n].redeemed

Init ==
  /\ tree \in Trees /\ log = <<>>
  /\ pc = "asset" /\ id \in Assets
  /\ asset = None /\ proof = None /\ canopy = 0 /\ used = 0

\* Somebody mints, transfers or changes an asset, or takes it out of the tree.
Change(i) ==
  /\ Now < MaxChanges /\ ~Redeemed(i, Now)
  /\ \E b \in BOOLEAN : /\ b => Content(i, Now) > 0
                        /\ log' = Append(log, [asset |-> i, redeemed |-> b])
  /\ UNCHANGED <<tree, call>>

-----------------------------------------------------------------------------
(* The reads *)

Versions == {v \in 0..Now : v >= Now - Lag}

\* toAsset: an asset that left the tree has no hashes.
ToAsset(v) == [version |-> v, content |-> Content(id, v), hashed |-> ~Redeemed(id, v),
               leafId |-> id]

\* The nodes of the path that are not the leaf's own ancestors, from the bottom, by level.
ToProof(v) == [version |-> v, content |-> Content(id, v), nodeIndex |-> id + 2 ^ tree.depth,
               path |-> [level \in 1..tree.depth |-> level]]

Throw == pc' = "threw" /\ UNCHANGED <<tree, log, id, asset, proof, canopy, used>>

\* Any of the three awaits may be rejected.
Reject == pc \in {"asset", "proof", "canopy"} /\ Throw

GetAsset ==
  /\ pc = "asset"
  /\ \E v \in Versions :
       IF Content(id, v) = 0 THEN Throw
       ELSE /\ asset' = ToAsset(v) /\ pc' = "proof"
            /\ UNCHANGED <<tree, log, id, proof, canopy, used>>

GetAssetProof ==
  /\ pc = "proof"
  /\ \E v \in Versions :
       IF Content(id, v) = 0 \/ Redeemed(id, v) THEN Throw
       ELSE /\ proof' = ToProof(v) /\ pc' = "canopy"
            /\ UNCHANGED <<tree, log, id, asset, canopy, used>>

\* The canopy is the last to be read; without the asset's hashes there are no arguments.
GetCanopyDepth ==
  /\ pc = "canopy"
  /\ IF ~asset.hashed THEN Throw
     ELSE /\ canopy' = tree.canopy /\ pc' = "use"
          /\ UNCHANGED <<tree, log, id, asset, proof, used>>

-----------------------------------------------------------------------------
(* What is returned, and the instruction that uses it *)

\* Plausible slip: the hashes are those of the leaf the proof is of.
ArgsOfProof(index) == [content |-> proof.content, root |-> proof.version, index |-> index]

Args(index) == [content |-> asset.content, root |-> proof.version, index |-> index]

\* Plausible slip: the canopy is cut off at the bottom.
RemainingBelow(path) == SubSeq(path, canopy + 1, Len(path))

RemainingAccounts(path) == SubSeq(path, 1, Len(path) - canopy)

\* The tree's program fills up the path from its canopy, makes up for the changes since the
\* proof, which it knows if they are no more than it remembers, and compares the leaf.
Complete(accounts) ==
  ToSet(accounts) \cup ((tree.depth - tree.canopy + 1)..tree.depth) = 1..tree.depth
Matches(args) == args.index = id /\ args.content = Content(id, Now) /\ ~Redeemed(id, Now)
Remembered(args) == Now - args.root < Buffer

Accepts(args, accounts) ==
  IF Complete(accounts) /\ Matches(args)
  THEN IF Remembered(args) THEN {TRUE} ELSE BOOLEAN
  ELSE {FALSE}

Use ==
  LET accounts == RemainingAccounts(proof.path)
  IN /\ pc = "use"
     /\ IF Len(accounts) > MaxAccounts THEN pc' = "too large"
        ELSE \E b \in Accepts(Args(asset.leafId), accounts) :
               pc' = IF b THEN "accepted" ELSE "rejected"
     /\ used' = Now
     /\ UNCHANGED <<tree, log, id, asset, proof, canopy>>

Next == GetAsset \/ GetAssetProof \/ GetCanopyDepth \/ Reject \/ Use
        \/ \E i \in Assets : Change(i)

Spec == Init /\ [][Next]_vars

-----------------------------------------------------------------------------
(* Properties *)

\* Whatever changes between the reads, and whichever of them was answered from further back:
\* an instruction is refused only if its asset changed since it was read, or more changes
\* than the tree remembers were made since the proof; and it has room for its accounts in
\* every tree whose canopy makes up for its depth.
RefusedOnlyIfOvertaken ==
  /\ pc = "rejected" => \/ Content(id, used) # asset.content \/ Redeemed(id, used)
                        \/ used - proof.version >= Buffer
  /\ pc = "too large" => tree.depth - tree.canopy > MaxAccounts

\* An instruction that is accepted meets the asset its caller was given: nobody acts on what
\* an owner, or a delegate, of some time ago has shown him.
AcceptedAsRead == pc = "accepted" => asset.content = Content(id, used) /\ ~Redeemed(id, used)
=============================================================================
