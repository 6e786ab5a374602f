------------------------- MODULE AccountFetchCache -------------------------
(***************************************************************************)
(* The account cache of @helium/spl-utils: one object in one JavaScript    *)
(* thread, shared by every caller of a page.  An action is one turn of the *)
(* event loop: a call up to its first await, a timer, the answer of the    *)
(* RPC node with everything it resolves, or a websocket notification.      *)
(*                                                                         *)
(* An account is abstracted to whether it exists, its contents to whether  *)
(* they were found; accounts are created and change, and are not closed.   *)
(* The size at which a batch is sent before its timer is abstracted away:  *)
(* a batch goes out at some time after its first key.  A caller disposes   *)
(* once of what it was given.                                              *)
(***************************************************************************)
EXTENDS Integers, FiniteSets

CONSTANTS
  Users,       \* callers in the page, each with one call at a time
  Keys,        \* the addresses of accounts
  StaticKeys,  \* those somebody declares never to change
  Requests     \* bound of the model: requests to the RPC node in flight

ASSUME UsersAssumption == IsFiniteSet(Users)
ASSUME StaticAssumption == StaticKeys \subseteq Keys

VARIABLES
  exists,                  \* the accounts on the chain
  user,                    \* what each caller is doing
  genericCache,            \* found, missing (null), or no entry
  statics, missingAccounts,
  accountWatchersCount,
  accountChangeListeners,  \* the subscription kept for a key: id 0, another one, or none
  subscribed,              \* the connection has given out its first subscription, id 0,
                           \* to somebody before or to the cache
  subscriptions,           \* how many subscriptions to an account the connection has
  pendingCalls,            \* the promise kept for a key: who made it, or that it was rejected
  staticCalls,             \* the pending ones that were made for a static account
  currentBatch,
  request,                 \* requests to the node, and the accounts it saw when it read
  flaky,                   \* requests to the node may fail
  open                     \* the interval of fetchMissing is running

callers == <<user, pendingCalls, staticCalls>>
watching == <<missingAccounts, accountWatchersCount, accountChangeListeners,
              subscribed, subscriptions>>
vars == <<exists, callers, genericCache, statics, watching, currentBatch, request, flaky, open>>

Idle == [doing |-> "idle"]
Lost == [doing |-> "lost"]
Doing(what, k, watch) == [doing |-> what, key |-> k, watch |-> watch]
Free == [keys |-> {}, read |-> FALSE, found |-> {}]

\* A pending promise has its callback in pendingCallbacks, and a key has one such
\* callback: whoever waited on the one it replaces is never called.
Pending == {"caller", "fetchMissing", "requeryMissing"}
Background == Pending \ {"caller"}

TypeOK ==
  /\ exists \subseteq Keys
  /\ user \in [Users -> {Idle, Lost} \cup [doing: {"searching", "holding"},
                                           key: Keys, watch: BOOLEAN]]
  /\ genericCache \in [Keys -> {"none", "missing", "found"}]
  /\ statics \subseteq StaticKeys
  /\ missingAccounts \subseteq Keys
  /\ accountWatchersCount \in [Keys -> Nat]
  /\ accountChangeListeners \in [Keys -> {"none", "zero", "some"}]
  /\ subscribed \in BOOLEAN
  /\ subscriptions \in [Keys -> Nat]
  /\ pendingCalls \in [Keys -> Pending \cup {"none", "rejected"}]
  /\ staticCalls \subseteq StaticKeys
  /\ currentBatch \subseteq Keys
  /\ request \in [Requests -> [keys: SUBSET Keys, read: BOOLEAN, found: SUBSET Keys]]
  /\ flaky \in BOOLEAN /\ open \in BOOLEAN

Init ==
  /\ exists \in SUBSET Keys
  /\ user = [c \in Users |-> Idle]
  /\ genericCache = [k \in Keys |-> "none"]
  /\ statics = {} /\ missingAccounts = {}
  /\ accountWatchersCount = [k \in Keys |-> 0]
  /\ accountChangeListeners = [k \in Keys |-> "none"]
  /\ subscribed \in BOOLEAN
  /\ subscriptions = [k \in Keys |-> 0]
  /\ pendingCalls = [k \in Keys |-> "none"]
  /\ staticCalls = {} /\ currentBatch = {}
  /\ request = [r \in Requests |-> Free]
  /\ flaky = TRUE /\ open = TRUE

-----------------------------------------------------------------------------
(* Watching *)

\* The callers a settled promise for k reaches.
Waiting(k) == {c \in Users : user[c].doing = "searching" /\ user[c].key = k}

\* Plausible slip: an account somebody listens to is listened to again.
SubscribesAnew(k, found) == k \in found /\ k \notin statics'

\* "Only websocket watch accounts that exist.  Don't recreate listeners."
Subscribes(k, found) ==
  k \in found /\ k \notin statics' /\ accountChangeListeners[k] = "none"

\* The listeners there may be once the accounts of new have been subscribed to, one after
\* the other: the connection numbers its subscriptions from 0.
Listeners(new) ==
  LET Given(first) == [k \in Keys |-> IF k \in first THEN "zero"
                                      ELSE IF k \in new THEN "some" ELSE accountChangeListeners[k]]
  IN {Given(first) : first \in IF subscribed \/ new = {} THEN {{}} ELSE {{k} : k \in new}}

\* Plausible slip: off by one.
AtMostOneLeft(newCount) == newCount <= 1

NobodyLeft(newCount) == newCount <= 0

\* The subscriptions given up for keys nobody watches any more: the test for an id takes
\* 0 for none.
Unsubscribed(left, listener) == {k \in left : listener[k] = "some"}

\* watch() for the callers of K, of whom stay[k] keep what they are given and the others
\* dispose of it at once; found are the accounts with data, and settled are polled no more.
Watch(K, found, stay, settled) ==
  LET new   == {k \in K : Subscribes(k, found)}
      left  == {k \in K : NobodyLeft(accountWatchersCount[k] + stay[k])}
      Up(S) == [k \in Keys |-> IF k \in S THEN 1 ELSE 0]
  IN \E listener \in Listeners(new) :
       LET gone == Unsubscribed(left, listener) IN
         /\ accountChangeListeners' = [k \in Keys |-> IF k \in gone THEN "none" ELSE listener[k]]
         /\ subscriptions' = [k \in Keys |-> subscriptions[k] + Up(new)[k] - Up(gone)[k]]
         /\ subscribed' = (subscribed \/ new # {})
         /\ accountWatchersCount' =
              [k \in Keys |-> accountWatchersCount[k] + (IF k \in K THEN stay[k] ELSE 0)]
         /\ missingAccounts' = ((missingAccounts \cup (K \ found)) \ left) \ settled

\* A caller gives back what watch() returned.
Dispose(c) ==
  LET k    == user[c].key
      left == {j \in {k} : NobodyLeft(accountWatchersCount[k] - 1)}
      gone == Unsubscribed(left, accountChangeListeners)
  IN /\ user[c].doing = "holding"
     /\ user' = [user EXCEPT ![c] = Idle]
     /\ accountWatchersCount' = [accountWatchersCount EXCEPT ![k] = @ - 1]
     /\ accountChangeListeners' =
          [j \in Keys |-> IF j \in gone THEN "none" ELSE accountChangeListeners[j]]
     /\ subscriptions' = [j \in Keys |-> IF j \in gone THEN subscriptions[j] - 1 ELSE subscriptions[j]]
     /\ missingAccounts' = missingAccounts \ left
     /\ UNCHANGED <<exists, pendingCalls, staticCalls, genericCache, statics, subscribed,
                    currentBatch, request, flaky, open>>

\* onAccountChange: a subscription is live as long as the connection has it, known or not.
Notify(k) ==
  /\ subscriptions[k] > 0
  /\ genericCache' = [genericCache EXCEPT ![k] = "found"]
  /\ UNCHANGED <<exists, callers, statics, watching, currentBatch, request, flaky, open>>

\* delete(): the count of watchers and the polling stay.
Delete(k) ==
  /\ genericCache' = [genericCache EXCEPT ![k] = "none"]
  /\ IF accountChangeListeners[k] = "some"
     THEN /\ accountChangeListeners' = [accountChangeListeners EXCEPT ![k] = "none"]
          /\ subscriptions' = [subscriptions EXCEPT ![k] = @ - 1]
     ELSE UNCHANGED <<accountChangeListeners, subscriptions>>
  /\ UNCHANGED <<exists, callers, statics, missingAccounts, accountWatchersCount, subscribed,
                 currentBatch, request, flaky, open>>

-----------------------------------------------------------------------------
(* Searching *)

\* The callers of K that a new query leaves behind, and c, which makes one.
Overtaken(K) == [c \in Users |-> IF \E k \in K : c \in Waiting(k)
                                 THEN Lost ELSE user[c]]

\* Plausible slip: the key of a call that is already pending is not asked for again.
AddToBatchOnce(K, who, static) ==
  /\ pendingCalls' = [k \in Keys |-> IF k \in K THEN who ELSE pendingCalls[k]]
  /\ staticCalls' = (staticCalls \ K) \cup static
  /\ currentBatch' = currentBatch \cup {k \in K : pendingCalls[k] = "none"}

\* addToBatch() and the promise search() keeps, for every key of K.
AddToBatch(K, who, static) ==
  /\ pendingCalls' = [k \in Keys |-> IF k \in K THEN who ELSE pendingCalls[k]]
  /\ staticCalls' = (staticCalls \ K) \cup static
  /\ currentBatch' = currentBatch \cup K

\* search(), and searchAndWatch() when the caller watches, up to the first wait: answered out
\* of the cache, joining the promise that is kept (when that one was rejected, so is the
\* caller), or asking the node.
Search(c, k, isStatic, forceRequery, watch) ==
  /\ user[c] = Idle
  /\ isStatic => k \in StaticKeys
  /\ statics' = IF isStatic THEN statics \cup {k} ELSE statics \ {k}
  /\ \/ /\ ~forceRequery /\ genericCache[k] # "none"
        /\ IF watch
           THEN /\ Watch({k}, {j \in {k} : genericCache[j] = "found"}, [j \in {k} |-> 1], {})
                /\ user' = [user EXCEPT ![c] = Doing("holding", k, TRUE)]
           ELSE UNCHANGED <<watching, user>>
        /\ UNCHANGED <<pendingCalls, staticCalls, currentBatch>>
     \/ /\ ~forceRequery /\ genericCache[k] = "none" /\ pendingCalls[k] # "none"
        /\ user' = IF pendingCalls[k] = "rejected" THEN user
                   ELSE [user EXCEPT ![c] = Doing("searching", k, watch)]
        /\ UNCHANGED <<watching, pendingCalls, staticCalls, currentBatch>>
     \/ /\ forceRequery \/ (genericCache[k] = "none" /\ pendingCalls[k] = "none")
        /\ user' = [Overtaken({k}) EXCEPT ![c] = Doing("searching", k, watch)]
        /\ AddToBatch({k}, "caller", IF isStatic THEN {k} ELSE {})
        /\ UNCHANGED watching
  /\ UNCHANGED <<exists, genericCache, request, flaky, open>>

\* The two callers of the cache itself ask anew and dispose of the answer at once.
Requery(K, who) ==
  /\ user' = Overtaken(K)
  /\ AddToBatch(K, who, K \cap statics)
  /\ UNCHANGED <<exists, genericCache, statics, watching, request, flaky, open>>

\* The interval: accounts that were watched and did not exist.
FetchMissing == open /\ missingAccounts # {} /\ Requery(missingAccounts, "fetchMissing")

\* A transaction sent over the connection is final: the accounts it may have written.
RequeryMissing(K) == K # {} /\ Requery(K, "requeryMissing")

-----------------------------------------------------------------------------
(* The requests *)

\* The timer of the batch, or flush().
FetchBatch(r) ==
  /\ currentBatch # {} /\ request[r] = Free
  /\ request' = [request EXCEPT ![r] = [Free EXCEPT !.keys = currentBatch]]
  /\ currentBatch' = {}
  /\ UNCHANGED <<exists, callers, genericCache, statics, watching, flaky, open>>

\* The node reads the accounts at some time, and its answer comes at a later one.
Read(r) ==
  LET keys == request[r].keys
  IN /\ keys # {} /\ ~request[r].read
     /\ request' = [request EXCEPT ![r] = [keys |-> keys, read |-> TRUE, found |-> keys \cap exists]]
     /\ UNCHANGED <<exists, callers, genericCache, statics, watching, currentBatch, flaky, open>>

Answered(r) == {k \in request[r].keys : pendingCalls[k] \in Pending}

\* The callers of k that get to watch, and keep watching.
Keeping(k) == {c \in Waiting(k) : user[c].watch}

\* Plausible slip: an account that was asked about is polled no more, found or not.
SettledAnyway(r) == {k \in Answered(r) : pendingCalls[k] = "requeryMissing"}

\* requeryMissing() stops the polling of what it found.
Settled(r) ==
  {k \in Answered(r) \cap request[r].found : pendingCalls[k] = "requeryMissing"}

\* The answer resolves the promises that are pending, whichever request they were made for;
\* whoever waited goes on in the same turn: it watches, and stores what it was given.
Respond(r) ==
  LET answered == Answered(r)
      found    == answered \cap request[r].found
      watched  == {k \in answered : Keeping(k) # {} \/ pendingCalls[k] \in Background}
      stored   == watched \cup (staticCalls \cap found)
      reached  == UNION {Waiting(k) : k \in answered}
  IN /\ request[r].read
     /\ UNCHANGED <<exists, statics, currentBatch, flaky, open>>
     /\ Watch(watched, found, [k \in watched |-> Cardinality(Keeping(k))], Settled(r))
     /\ genericCache' = [k \in Keys |-> IF k \in stored
                                        THEN (IF k \in found THEN "found" ELSE "missing")
                                        ELSE genericCache[k]]
     /\ user' = [c \in Users |-> IF c \notin reached THEN user[c]
                                 ELSE IF user[c].watch THEN [user[c] EXCEPT !.doing = "holding"]
                                 ELSE Idle]
     /\ pendingCalls' = [k \in Keys |-> IF k \in answered THEN "none" ELSE pendingCalls[k]]
     /\ staticCalls' = staticCalls \ answered
     /\ request' = [request EXCEPT ![r] = Free]

\* Plausible slip: an error calls nobody back.
FailSilently(r) ==
  /\ flaky /\ request[r].keys # {}
  /\ request' = [request EXCEPT ![r] = Free]
  /\ UNCHANGED <<exists, callers, genericCache, statics, watching, currentBatch, flaky, open>>

\* The request fails: those promises are rejected, and so is whoever waited; search() keeps
\* the rejected promise.
Fail(r) ==
  LET answered == Answered(r)
      reached  == UNION {Waiting(k) : k \in answered}
  IN /\ flaky /\ request[r].keys # {}
     /\ user' = [c \in Users |-> IF c \in reached THEN Idle ELSE user[c]]
     /\ pendingCalls' = [k \in Keys |-> IF k \in answered THEN "rejected" ELSE pendingCalls[k]]
     /\ staticCalls' = staticCalls \ answered
     /\ request' = [request EXCEPT ![r] = Free]
     /\ UNCHANGED <<exists, genericCache, statics, watching, currentBatch, flaky, open>>

\* close(): the interval ends; what is watched or pending stays.
Close ==
  /\ open' = FALSE
  /\ UNCHANGED <<exists, callers, genericCache, statics, watching, currentBatch, request, flaky>>

\* An account is created on the chain.
Create(k) ==
  /\ exists' = exists \cup {k}
  /\ UNCHANGED <<callers, genericCache, statics, watching, currentBatch, request, flaky, open>>

\* The node works from now on.
Recover ==
  /\ flaky' = FALSE
  /\ UNCHANGED <<exists, callers, genericCache, statics, watching, currentBatch, request, open>>

Next ==
  \/ \E c \in Users, k \in Keys, isStatic, forceRequery, watch \in BOOLEAN :
       Search(c, k, isStatic, forceRequery, watch)
  \/ \E c \in Users : Dispose(c)
  \/ \E k \in Keys : Notify(k) \/ Delete(k) \/ Create(k)
  \/ FetchMissing
  \/ \E K \in SUBSET Keys : RequeryMissing(K)
  \/ \E r \in Requests : FetchBatch(r) \/ Read(r) \/ Respond(r) \/ Fail(r)
  \/ Close \/ Recover

\* Timers fire, and the node answers, one way or the other.
Fairness ==
  /\ WF_vars(\E r \in Requests : FetchBatch(r))
  /\ \A r \in Requests : WF_vars(Read(r)) /\ WF_vars(Respond(r) \/ Fail(r))
  /\ WF_vars(FetchMissing)

Spec == Init /\ [][Next]_vars /\ Fairness

-----------------------------------------------------------------------------
(* Properties *)

\* At most one subscription to an account at a time, and none that delete() or the last
\* watcher could not give up because the cache has forgotten it (watch, its dispose and
\* delete keep accountChangeListeners and the connection in step).
OneListener ==
  \A k \in Keys : subscriptions[k] = (IF accountChangeListeners[k] = "none" THEN 0 ELSE 1)

\* Nothing is kept for nobody: however calls, answers, polls and disposals fall, an account
\* that is listened to or polled has a watcher (except by the subscription with id 0, which
\* the test of watch's dispose takes for none).
NothingKeptForNobody ==
  \A k \in Keys : accountChangeListeners[k] = "some" \/ k \in missingAccounts
                    => accountWatchersCount[k] > 0

\* The connection listens to an account, once, only while the cache knows of it and somebody
\* watches it: nothing leaks and nothing is told twice, whoever disposes, deletes or requeries.
ListenersMatchWatchers == OneListener /\ NothingKeptForNobody

\* An account somebody watches is listened to if the cache has it and polled if the cache
\* says it is missing: no order of stale answers, failures, other callers' disposals and
\* requeries leaves a watcher with neither (unless it was declared static).
FollowedOrPolled ==
  \A k \in Keys : accountWatchersCount[k] > 0 =>
    /\ genericCache[k] = "found" /\ k \notin StaticKeys => accountChangeListeners[k] # "none"
    /\ genericCache[k] = "missing" => k \in missingAccounts

\* A promise that search() keeps and that has not settled has a request under way that will
\* settle it: it never waits for a batch that has already been answered.
AskedIsUnderWay ==
  \A k \in Keys : pendingCalls[k] \in Pending =>
    k \in currentBatch \/ \E r \in Requests : k \in request[r].keys

\* A search comes to an end, or a forced requery of the same account has taken its callback
\* in pendingCallbacks; then it never does.
SettledOrOvertaken ==
  \A c \in Users : (user[c].doing = "searching") ~> (user[c].doing # "searching")

\* An account that exists and stays watched is in the cache for good some time, whatever
\* stale answers and failures came before, once the node works and no caller takes the
\* polls' answers for itself: as long as it is thought missing it is polled.
MissingIsNoticed ==
  \A k \in Keys :
    <>[](/\ open /\ ~flaky /\ Waiting(k) = {}
         /\ k \in exists /\ accountWatchersCount[k] > 0 /\ genericCache[k] # "none")
      => <>[](genericCache[k] = "found")
=============================================================================
