---------------------------- MODULE BridgeLedger ----------------------------
(***************************************************************************)
(* What the bridge promises of each Ethereum transaction it is asked       *)
(* about: the transaction names an amount, and that amount is released     *)
(* from the escrow on Solana, at most once, or nothing is.                 *)
(***************************************************************************)
EXTENDS Naturals

CONSTANTS
  Transactions,  \* on Ethereum
  Amounts,       \* what they may name
  Escrow         \* RNDR the bridge holds on Solana

VARIABLES
  named,     \* the amount each transaction names, 0 as long as there is none
  escrow,    \* left in the escrow
  released   \* released for each transaction, 0 if nothing was

Init ==
  /\ named = [b \in Transactions |-> 0] /\ released = [b \in Transactions |-> 0]
  /\ escrow = Escrow

Name(b) ==
  /\ named[b] = 0
  /\ \E a \in Amounts : named' = [named EXCEPT ![b] = a]
  /\ UNCHANGED <<escrow, released>>

Release(b) ==
  /\ named[b] > 0 /\ released[b] = 0 /\ named[b] <= escrow
  /\ escrow' = escrow - named[b]
  /\ released' = [released EXCEPT ![b] = named[b]]
  /\ UNCHANGED named

Next == \E b \in Transactions : Name(b) \/ Release(b)

Spec == Init /\ [][Next]_<<named, escrow, released>>
=============================================================================
