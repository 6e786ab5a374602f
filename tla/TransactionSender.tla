------------------------- MODULE TransactionSender -------------------------
(***************************************************************************)
(* The sending side of @helium/spl-utils: one call of sendInstructions or  *)
(* sendMultipleInstructions ("multiple"; execute and executeBig end in     *)
(* them), of executeRemoteTxn ("remote"), or of bulkSendTransactions       *)
(* ("bulk"), against a chain that may drop what it is given, execute it    *)
(* late, or never.                                                         *)
(*                                                                         *)
(* The transactions of a call are 1..N.  Signing one with a blockhash      *)
(* gives a signature, and a signature is executed at most once; the same   *)
(* transaction signed with another blockhash is another signature.  A step *)
(* of the caller is one await with what follows it, and an await may fail; *)
(* the answer of a failed send may be all that was lost.                   *)
(***************************************************************************)
EXTENDS Integers

CONSTANTS
  Calls,      \* the calls that may be made, of "multiple", "remote" and "bulk"
  N,          \* transactions of a call, the empty groups left out
  BatchSize,  \* TX_BATCH_SIZE
  Tries,      \* triesRemaining: blockhashes to try before giving up
  Validity,   \* blocks that may follow a blockhash before it expires
  MaxAge      \* bound of the model: age of the blockhash a server has signed with

ASSUME CallsAssumption == Calls \subseteq {"multiple", "remote", "bulk"}
ASSUME SizesAssumption == N \in Nat \ {0} /\ BatchSize \in Nat \ {0} /\ Tries \in Nat \ {0}
ASSUME BlocksAssumption == Validity \in Nat /\ MaxAge \in Nat

VARIABLES
  height,     \* the block height
  sent,       \* signatures the cluster holds and may still execute
  landed,     \* signatures that were executed
  failed,     \* signatures whose execution failed, without effect
  call, pc,
  blockhash,  \* what the call signs with, named by the height it is from
  next,       \* the transaction to be sent, or the first one of the current chunk
  chunk,      \* bulk: the transactions signed with this blockhash
  listening,  \* not bulk: the websocket was asked for the result
  resending,  \* not bulk: the background loop runs; bulk: this round was sent once
  confirmed,  \* bulk: what bulkSendRawTransactions is about to return
  ret,        \* the signatures to be returned (bulk: ret and thisRet)
  tries

chain == <<height, sent, landed, failed>>
caller == <<call, pc, blockhash, next, chunk, listening, resending, confirmed, ret, tries>>
vars == <<chain, caller>>

Works == 1..N
Signature == [work: Works, blockhash: Nat]
Sig(w) == [work |-> w, blockhash |-> blockhash]
Sigs(W) == {Sig(w) : w \in W}
Ended == pc \in {"done", "failed"}

TypeOK ==
  /\ height \in Nat /\ blockhash \in Nat
  /\ sent \subseteq Signature /\ landed \subseteq Signature /\ failed \subseteq Signature
  /\ call \in Calls
  /\ pc \in {"start", "send", "confirm", "check", "query", "done", "failed"}
  /\ next \in Works /\ chunk \subseteq Works
  /\ listening \in BOOLEAN /\ resending \in BOOLEAN
  /\ confirmed \subseteq Signature /\ ret \subseteq Signature
  /\ tries \in 0..Tries

\* chunks(txs, TX_BATCH_SIZE): the chunk that starts with transaction n.
ChunkFrom(n) == {w \in Works : n <= w /\ w < n + BatchSize}

Init ==
  /\ height \in 0..MaxAge
  /\ sent = {} /\ landed = {} /\ failed = {}
  /\ call \in Calls /\ pc = "start"
  /\ blockhash = 0 /\ next = 1 /\ chunk = ChunkFrom(1)
  /\ listening = FALSE /\ resending = FALSE
  /\ confirmed = {} /\ ret = {} /\ tries = Tries

-----------------------------------------------------------------------------
(* The chain *)

Executed == landed \cup failed
Expired(b) == height > b + Validity

\* Blocks are counted as long as they make a difference: until the blockhash expires.
NewBlock ==
  /\ ~Ended /\ ~Expired(blockhash)
  /\ height' = height + 1
  /\ UNCHANGED <<sent, landed, failed, caller>>

Land(s) ==
  /\ s \notin Executed /\ ~Expired(s.blockhash)
  /\ sent' = sent \ {s}
  /\ \/ landed' = landed \cup {s} /\ UNCHANGED failed
     \/ failed' = failed \cup {s} /\ UNCHANGED landed
  /\ UNCHANGED <<height, caller>>

Drop(s) == sent' = sent \ {s} /\ UNCHANGED <<height, landed, failed, caller>>

-----------------------------------------------------------------------------
(* One transaction after the other: sendAndConfirmWithRetry *)

\* An await of the call is rejected, and so is the call.
Throw == pc' = "failed" /\ resending' = FALSE /\ listening' = FALSE

\* sendMultipleInstructions: the latest blockhash.
SignHere == call = "multiple" /\ blockhash' = height

\* executeRemoteTxn: a blockhash a server chose some time ago.
SignRemote ==
  /\ call = "remote"
  /\ blockhash' \in {h \in 0..height : h >= height - MaxAge}

\* All transactions of the call have the same blockhash and are signed together.
Begin ==
  /\ pc = "start" /\ (SignHere \/ SignRemote)
  /\ pc' = "send"
  /\ UNCHANGED <<chain, call, next, chunk, listening, resending, confirmed, ret, tries>>

\* The first send.  The background loop starts and the websocket is asked for the result,
\* which may fail at once; from here on neither the timeout nor the polling is left.
Send ==
  /\ pc = "send" /\ call # "bulk"
  /\ sent' = sent \cup {Sig(next)}
  /\ pc' = "confirm" /\ resending' = TRUE /\ listening' \in BOOLEAN
  /\ UNCHANGED <<height, landed, failed, call, blockhash, next, chunk, confirmed, ret, tries>>

\* The loop that sends the same bytes again twice a second ends with its first error.
Resend ==
  /\ pc = "confirm" /\ resending
  /\ resending' \in BOOLEAN
  /\ sent' \in {sent, sent \cup {Sig(next)}}
  /\ UNCHANGED <<height, landed, failed, call, pc, blockhash, next, chunk, listening,
                 confirmed, ret, tries>>

\* Plausible slip: the notification is taken for a success, whatever it says.
SucceededAnyway(s) == s \in Executed

Succeeded(s) == s \in landed

\* promiseAllInOrder: the next transaction's turn, or the end of the call.
NextInOrder ==
  IF next < N THEN next' = next + 1 /\ pc' = "send"
              ELSE pc' = "done" /\ UNCHANGED next

\* The websocket tells the result.
Notified ==
  /\ pc = "confirm" /\ listening
  /\ Sig(next) \in Executed
  /\ listening' = FALSE /\ resending' = FALSE
  /\ IF Succeeded(Sig(next))
     THEN ret' = ret \cup {Sig(next)} /\ NextInOrder
     ELSE pc' = "failed" /\ UNCHANGED <<next, ret>>
  /\ UNCHANGED <<chain, call, blockhash, chunk, confirmed, tries>>

-----------------------------------------------------------------------------
(* bulkSendTransactions and bulkSendRawTransactions *)

Pending == {w \in chunk : Sig(w) \notin confirmed}

\* Plausible slip: one signature is enough.
AnySeen(c) == \E w \in chunk : Sig(w) \in c

AllSeen(c) == \A w \in chunk : Sig(w) \in c

\* A round's transactions get a blockhash of their own, and are signed.
Round ==
  /\ pc = "start" /\ call = "bulk"
  /\ blockhash' = height /\ confirmed' = {} /\ resending' = FALSE
  /\ pc' = "check"
  /\ UNCHANGED <<chain, call, next, chunk, listening, ret, tries>>

\* bulkSendRawTransactions returns c: with all of the chunk it is the next chunk's turn,
\* otherwise what is missing goes into another round, with another blockhash.
Returned(c) ==
  /\ ret' = ret \cup c
  /\ IF AllSeen(c)
     THEN /\ UNCHANGED tries
          /\ IF next + BatchSize <= N
             THEN next' = next + BatchSize /\ chunk' = ChunkFrom(next + BatchSize) /\ pc' = "start"
             ELSE pc' = "done" /\ UNCHANGED <<next, chunk>>
     ELSE /\ chunk' = {w \in chunk : Sig(w) \notin ret'}
          /\ tries' = tries - 1
          /\ pc' = IF tries' <= 0 THEN "failed" ELSE "start"
          /\ UNCHANGED next

\* Plausible slips: the last valid block is counted as too late; the height is not asked for.
PastOneEarly(b) == height >= b + Validity
NeverPast(b) == FALSE

Past(b) == height > b + Validity

\* The height is asked for before anything is sent again, every four seconds at most.
Check ==
  /\ pc = "check"
  /\ IF Past(blockhash)
     THEN Returned(confirmed)
     ELSE /\ pc' \in {"send"} \cup (IF resending THEN {"query"} ELSE {})
          /\ UNCHANGED <<next, chunk, ret, tries>>
  /\ UNCHANGED <<chain, call, blockhash, listening, resending, confirmed>>

SendChunk ==
  /\ pc = "send" /\ call = "bulk"
  /\ sent' = sent \cup Sigs(Pending)
  /\ pc' = "query" /\ resending' = TRUE
  /\ UNCHANGED <<height, landed, failed, call, blockhash, next, chunk, listening, confirmed,
                 ret, tries>>

\* The node knows of some of those that were executed; one that failed fails the call.
Query ==
  /\ pc = "query"
  /\ \E seen \in SUBSET {w \in Pending : Sig(w) \in Executed} :
       LET c == confirmed \cup Sigs(seen) IN
         IF Sigs(seen) \cap failed # {}
         THEN pc' = "failed" /\ UNCHANGED <<next, chunk, ret, tries, confirmed>>
         ELSE /\ confirmed' = c
              /\ IF AllSeen(c) THEN Returned(c)
                               ELSE pc' = "check" /\ UNCHANGED <<next, chunk, ret, tries>>
  /\ UNCHANGED <<chain, call, blockhash, listening, resending>>

-----------------------------------------------------------------------------
(* Failing *)

\* Getting a blockhash, signing, the height, a query, a send: any of them may be rejected
\* (after five tries, where there are five).  Of a send some may have been forwarded.
Reject ==
  /\ pc \in {"start", "send", "check", "query"}
  /\ \E S \in SUBSET (IF pc # "send" THEN {} ELSE IF call = "bulk" THEN Pending ELSE {next}) :
       sent' = sent \cup Sigs(S)
  /\ Throw
  /\ UNCHANGED <<height, landed, failed, call, blockhash, next, chunk, confirmed, ret, tries>>

Caller == Begin \/ Send \/ Notified \/ Round \/ Check \/ SendChunk \/ Query \/ Reject

Next ==
  \/ Caller \/ Resend \/ NewBlock
  \/ \E s \in sent : Land(s) \/ Drop(s)

\* Blocks are made, and the caller's code runs on when an answer is there.
Spec == Init /\ [][Next]_vars /\ WF_vars(NewBlock) /\ WF_vars(Caller)

-----------------------------------------------------------------------------
(* Properties *)

\* Whatever is dropped, delayed, resent or rejected, transactions that are sent one after
\* the other take effect in that order, without a gap, and none after one that failed
\* (promiseAllInOrder over sendAndConfirmWithRetry; each may rely on those before it).
LandsInOrder ==
  call # "bulk" =>
    /\ \A s \in landed : \A v \in 1..(s.work - 1) : Sig(v) \in landed
    /\ \A s \in failed : \A t \in sent \cup Executed : t.work <= s.work

\* A call that returns has executed each of its transactions, and returns one signature for
\* each; no signature is ever counted that was not executed, and no transaction twice,
\* though a bulk call may have signed it with several blockhashes.
ReturnsWhatLanded ==
  /\ ret \cup confirmed \subseteq landed
  /\ \A s, t \in ret \cup confirmed : s.work = t.work => s = t
  /\ pc = "done" => \A w \in Works : \E s \in ret : s.work = w

\* At any height one signature of a transaction at most can still be executed: it is not
\* signed again before the blockhash it was signed with has expired.
NoTwoAlive ==
  \A s, t \in sent \cup Executed :
    s.work = t.work /\ s # t => \/ s.blockhash + Validity < t.blockhash
                                \/ t.blockhash + Validity < s.blockhash

\* A bulk call comes to an end: it does not wait for a transaction that was dropped, or for
\* a node that does not tell, longer than its blockhashes last.
BulkEnds == call = "bulk" ~> Ended

\* "If you never get anything back, that means it's definitely been dropped": a call comes
\* to an end, with a result or with "Timed out awaiting confirmation on transaction".
EveryCallEnds == <>Ended
=============================================================================
