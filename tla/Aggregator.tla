----------------------------- MODULE Aggregator -----------------------------
(***************************************************************************)
(* createSwitchboardAggregator: a feed is made under a key of the          *)
(* caller's, gets a history buffer, and is handed over.                    *)
(*                                                                         *)
(* Three calls, each of a transaction or several, follow one look whether  *)
(* the key has an account.  A call may fail, before or after its           *)
(* transactions landed, may land when its run is over, and may be made by  *)
(* two runs at once; and the function may be run again.                    *)
(***************************************************************************)
EXTENDS Integers, Sequences

CONSTANTS
  Runs,       \* runs of the function, all of them with the same key
  MaxFaults   \* bound of the model: calls whose answer is not the one of the chain

VARIABLES
  feed,      \* "none", an "account" not yet funded nor on the crank, or "active"
  history,   \* whether it has its buffer
  handed,    \* whether its authority is the one the caller named
  pc,        \* of each run: "off", "exists", a call of Steps, "returned" or "threw"
  flight,    \* transactions that may still land, by what they do
  faults

vars == <<feed, history, handed, pc, flight, faults>>

\* Plausible slip: the feed is handed over before it has its buffer.
StepsHandedEarly == <<"createFeed", "activate", "setAuthority", "history">>

\* createFeed makes the account first; only the wallet that made it can do the rest.
Steps == <<"createFeed", "activate", "history", "setAuthority">>
Kinds == {Steps[k] : k \in DOMAIN Steps}

Init ==
  /\ feed = "none" /\ history = FALSE /\ handed = FALSE
  /\ pc = [r \in Runs |-> "off"] /\ flight = {} /\ faults = 0

-----------------------------------------------------------------------------

Possible(kind) ==
  CASE kind = "createFeed" -> feed = "none"
    [] kind = "activate" -> feed = "account" /\ ~handed
    [] kind = "history" -> feed # "none" /\ ~history /\ ~handed
    [] kind = "setAuthority" -> feed # "none" /\ ~handed

Do(kind) ==
  /\ feed' = CASE kind = "createFeed" -> "account" [] kind = "activate" -> "active" [] OTHER -> feed
  /\ history' = (history \/ kind = "history")
  /\ handed' = (handed \/ kind = "setAuthority")

Refused == UNCHANGED <<feed, history, handed>>

Goto(r, l) == pc' = [pc EXCEPT ![r] = l]

\* The call after this one; after the last one the key is returned.
Following(r) ==
  LET k == CHOOSE k \in DOMAIN Steps : Steps[k] = pc[r]
  IN Goto(r, IF k = Len(Steps) THEN "returned" ELSE Steps[k + 1])

Start(r) ==
  /\ pc[r] \in {"off", "threw"} /\ Goto(r, "exists")
  /\ UNCHANGED <<feed, history, handed, flight, faults>>

Exists == feed # "none"

\* Whoever finds an account returns its key, whatever has become of the rest.
Look(r) ==
  /\ pc[r] = "exists"
  /\ Goto(r, IF Exists THEN "returned" ELSE Steps[1])
  /\ UNCHANGED <<feed, history, handed, flight, faults>>

\* A call's transaction lands, or is refused, and the run is told.
Call(r) ==
  /\ pc[r] \in Kinds
  /\ \/ Possible(pc[r]) /\ Do(pc[r]) /\ Following(r)
     \/ ~Possible(pc[r]) /\ Refused /\ Goto(r, "threw")
  /\ UNCHANGED <<flight, faults>>

\* The run ends with an error, or is stopped; what it sent may still land.
Fail(r) ==
  /\ pc[r] \in Kinds /\ faults < MaxFaults /\ faults' = faults + 1
  /\ flight' \in {flight, flight \cup {pc[r]}}
  /\ Goto(r, "threw")
  /\ UNCHANGED <<feed, history, handed>>

Late(kind) ==
  /\ flight' = flight \ {kind}
  /\ (Possible(kind) /\ Do(kind)) \/ Refused
  /\ UNCHANGED <<pc, faults>>

Next ==
  \/ \E r \in Runs : Start(r) \/ Look(r) \/ Call(r) \/ Fail(r)
  \/ \E kind \in flight : Late(kind)

Spec == Init /\ [][Next]_vars

-----------------------------------------------------------------------------
(* Properties *)

\* A feed that was handed over is complete: nobody of those who run the function could make
\* up for what is missing.  However runs fail, repeat or overlap, and whichever of their
\* transactions land late, the last of three calls is made only by the run that made the
\* account and had the answers of all before.
HandedOverComplete == handed => feed = "active" /\ history
=============================================================================
