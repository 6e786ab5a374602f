---------------------- MODULE AccountFetchCacheProofs ----------------------
(***************************************************************************)
(* AccountFetchCache for any number of callers, accounts and requests.     *)
(* The inductive invariant is the conjunction of the four properties the   *)
(* runs check with one fact more (Counted): the number kept for an account *)
(* is the number of callers that have its dispose in hand, so that nobody  *)
(* else's disposal brings it to zero.                                      *)
(***************************************************************************)
EXTENDS AccountFetchCache, FiniteSetTheorems, TLAPS

Holders(k) == {c \in Users : user[c].doing = "holding" /\ user[c].key = k}

Counted == \A k \in Keys : accountWatchersCount[k] = Cardinality(Holders(k))

IInv ==
  TypeOK /\ OneListener /\ NothingKeptForNobody /\ FollowedOrPolled /\ AskedIsUnderWay /\ Counted

-----------------------------------------------------------------------------
(* Watching *)

Listened(l) == l \in [Keys -> {"none", "zero", "some"}]

\* What subscribing does to the listeners.
LEMMA ListenersStep ==
  ASSUME TypeOK, NEW new \in SUBSET Keys, NEW listener \in Listeners(new)
  PROVE  /\ Listened(listener)
         /\ \A k \in Keys : IF k \in new THEN listener[k] # "none"
                                         ELSE listener[k] = accountChangeListeners[k]
<1> DEFINE Given(first) == [k \in Keys |-> IF k \in first THEN "zero"
                                           ELSE IF k \in new THEN "some"
                                           ELSE accountChangeListeners[k]]
<1>1. PICK first \in SUBSET new : listener = Given(first)
  BY DEF Listeners
<1>2. \A k \in Keys : listener[k] = IF k \in first THEN "zero"
                                    ELSE IF k \in new THEN "some" ELSE accountChangeListeners[k]
  BY <1>1
<1> QED BY <1>1, <1>2 DEF TypeOK, Listened

\* What watch() keeps true, and what it does to the accounts it is called for and to others.
LEMMA WatchStep ==
  ASSUME TypeOK, OneListener, NothingKeptForNobody,
         NEW K \in SUBSET Keys, NEW found, NEW stay \in [K -> Nat], NEW settled,
         Watch(K, found, stay, settled)
  PROVE  /\ Listened(accountChangeListeners') /\ subscribed' \in BOOLEAN
         /\ missingAccounts' \subseteq Keys
         /\ accountWatchersCount' \in [Keys -> Nat] /\ subscriptions' \in [Keys -> Nat]
         /\ OneListener' /\ NothingKeptForNobody'
         /\ \A k \in K : /\ accountWatchersCount'[k] = accountWatchersCount[k] + stay[k]
                         /\ accountWatchersCount'[k] > 0 =>
                              /\ k \in found /\ k \notin statics' => accountChangeListeners'[k] # "none"
                              /\ k \notin found /\ k \notin settled => k \in missingAccounts'
         /\ \A k \in Keys \ K : /\ accountWatchersCount'[k] = accountWatchersCount[k]
                                /\ accountChangeListeners'[k] = accountChangeListeners[k]
                                /\ k \notin settled =>
                                     (k \in missingAccounts' <=> k \in missingAccounts)
<1> DEFINE new  == {k \in K : Subscribes(k, found)}
           left == {k \in K : NobodyLeft(accountWatchersCount[k] + stay[k])}
           Up(S) == [k \in Keys |-> IF k \in S THEN 1 ELSE 0]
<1>1. PICK listener \in Listeners(new) :
        LET gone == Unsubscribed(left, listener) IN
          /\ accountChangeListeners' = [k \in Keys |-> IF k \in gone THEN "none" ELSE listener[k]]
          /\ subscriptions' = [k \in Keys |-> subscriptions[k] + Up(new)[k] - Up(gone)[k]]
          /\ subscribed' = (subscribed \/ new # {})
          /\ accountWatchersCount' =
               [k \in Keys |-> accountWatchersCount[k] + (IF k \in K THEN stay[k] ELSE 0)]
          /\ missingAccounts' = ((missingAccounts \cup (K \ found)) \ left) \ settled
  BY DEF Watch
<1> DEFINE gone == Unsubscribed(left, listener)
<1>2. /\ Listened(listener)
      /\ \A k \in Keys : IF k \in new THEN listener[k] # "none"
                                      ELSE listener[k] = accountChangeListeners[k]
  BY ListenersStep
<1>3. /\ new \subseteq K /\ left \subseteq K
      /\ \A k \in new : accountChangeListeners[k] = "none"
      /\ \A k \in K : k \in left <=> accountWatchersCount[k] + stay[k] <= 0
      /\ \A k \in Keys : k \in gone <=> k \in left /\ listener[k] = "some"
  BY DEF Subscribes, NobodyLeft, Unsubscribed
<1> HIDE DEF new, left, gone
<1>4. \A k \in Keys :
        /\ accountChangeListeners'[k] = IF k \in gone THEN "none" ELSE listener[k]
        /\ subscriptions'[k] = subscriptions[k] + (IF k \in new THEN 1 ELSE 0)
                                 - (IF k \in gone THEN 1 ELSE 0)
        /\ accountWatchersCount'[k] = accountWatchersCount[k] + (IF k \in K THEN stay[k] ELSE 0)
  BY <1>1 DEF gone
<1>5. accountWatchersCount' \in [Keys -> Nat]
  BY <1>1 DEF TypeOK
<1>6. /\ Listened(accountChangeListeners') /\ subscribed' \in BOOLEAN
      /\ missingAccounts' \subseteq Keys
  BY <1>1, <1>2 DEF TypeOK, Listened
<1>7. OneListener'
  <2>1. SUFFICES ASSUME NEW k \in Keys
                 PROVE  subscriptions'[k] = (IF accountChangeListeners'[k] = "none" THEN 0 ELSE 1)
    BY DEF OneListener
  <2>2. subscriptions[k] = (IF accountChangeListeners[k] = "none" THEN 0 ELSE 1)
    BY DEF OneListener
  <2> QED BY <1>2, <1>3, <1>4, <2>2
<1>8. subscriptions' \in [Keys -> Nat]
  <2>1. \A k \in Keys : subscriptions'[k] \in Nat
    BY <1>7 DEF OneListener
  <2> QED BY <1>1, <2>1
<1>9. NothingKeptForNobody'
  <2>1. SUFFICES ASSUME NEW k \in Keys,
                        accountChangeListeners'[k] = "some" \/ k \in missingAccounts'
                 PROVE  accountWatchersCount'[k] > 0
    BY DEF NothingKeptForNobody
  <2>2. accountWatchersCount[k] \in Nat
    BY DEF TypeOK
  <2>3. CASE k \in K
    <3>1. k \notin left
      BY <2>1, <1>1, <1>3, <1>4 DEF gone
    <3> QED BY <3>1, <2>2, <2>3, <1>3, <1>4
  <2>4. CASE k \notin K
    <3>1. accountChangeListeners[k] = "some" \/ k \in missingAccounts
      BY <2>1, <2>4, <1>1, <1>2, <1>3, <1>4
    <3> QED BY <3>1, <2>2, <2>4, <1>4 DEF NothingKeptForNobody
  <2> QED BY <2>3, <2>4
<1>10. ASSUME NEW k \in K, accountWatchersCount'[k] > 0
       PROVE  /\ k \in found /\ k \notin statics' => accountChangeListeners'[k] # "none"
              /\ k \notin found /\ k \notin settled => k \in missingAccounts'
  <2>1. k \notin left
    BY <1>10, <1>3, <1>4 DEF TypeOK
  <2>2. ASSUME k \in found, k \notin statics'
        PROVE  accountChangeListeners'[k] # "none"
    <3>1. k \in new \/ accountChangeListeners[k] # "none"
      BY <2>2 DEF new, Subscribes
    <3> QED BY <3>1, <2>1, <1>2, <1>3, <1>4
  <2> QED BY <2>1, <2>2, <1>1
<1>11. \A k \in K : accountWatchersCount'[k] = accountWatchersCount[k] + stay[k]
  BY <1>4
<1>12. ASSUME NEW k \in Keys \ K
       PROVE  /\ accountWatchersCount'[k] = accountWatchersCount[k]
              /\ accountChangeListeners'[k] = accountChangeListeners[k]
              /\ k \notin settled => (k \in missingAccounts' <=> k \in missingAccounts)
  BY <1>1, <1>2, <1>3, <1>4 DEF TypeOK
<1> QED BY <1>5, <1>6, <1>7, <1>8, <1>9, <1>10, <1>11, <1>12
-----------------------------------------------------------------------------
(* The callers *)

LEMMA HoldersFinite == ASSUME NEW k PROVE IsFiniteSet(Holders(k)) /\ Cardinality(Holders(k)) \in Nat
  BY UsersAssumption, FS_Subset, FS_CardinalityType DEF Holders

LEMMA WaitingFinite ==
  ASSUME NEW k PROVE IsFiniteSet(Keeping(k)) /\ Cardinality(Keeping(k)) \in Nat
  BY UsersAssumption, FS_Subset, FS_CardinalityType DEF Waiting, Keeping

\* A step in which nobody starts or stops holding.
LEMMA HoldersKept ==
  ASSUME Counted, UNCHANGED accountWatchersCount,
         \A c \in Users : \/ user'[c] = user[c]
                          \/ user[c].doing # "holding" /\ user'[c].doing # "holding"
  PROVE  Counted'
<1>1. \A k \in Keys : Holders(k)' = Holders(k)
  BY DEF Holders
<1> QED BY <1>1 DEF Counted

\* A step that leaves the watching and the promises alone.
LEMMA QuietStep ==
  ASSUME IInv, TypeOK', UNCHANGED <<watching, pendingCalls, genericCache>>, Counted',
         \A k \in Keys : pendingCalls[k] \in Pending =>
           k \in currentBatch' \/ \E r \in Requests : k \in request'[r].keys
  PROVE  IInv'
<1>1. OneListener' /\ NothingKeptForNobody' /\ FollowedOrPolled'
  BY DEF IInv, watching, OneListener, NothingKeptForNobody, FollowedOrPolled
<1>2. AskedIsUnderWay'
  BY DEF AskedIsUnderWay
<1> QED BY <1>1, <1>2 DEF IInv

LEMMA DisposePreserves ==
  ASSUME IInv, NEW c \in Users, Dispose(c)
  PROVE  IInv'
<1>1. PICK k \in Keys : /\ k = user[c].key /\ user[c].doing = "holding"
                        /\ user' = [user EXCEPT ![c] = Idle]
  BY DEF Dispose, IInv, TypeOK, Idle, Lost
<1> DEFINE left == {j \in {k} : NobodyLeft(accountWatchersCount[k] - 1)}
           gone == Unsubscribed(left, accountChangeListeners)
<1>2. /\ accountWatchersCount' = [accountWatchersCount EXCEPT ![k] = @ - 1]
      /\ accountChangeListeners' =
           [j \in Keys |-> IF j \in gone THEN "none" ELSE accountChangeListeners[j]]
      /\ subscriptions' = [j \in Keys |-> IF j \in gone THEN subscriptions[j] - 1 ELSE subscriptions[j]]
      /\ missingAccounts' = missingAccounts \ left
      /\ UNCHANGED <<exists, pendingCalls, staticCalls, genericCache, statics, subscribed,
                     currentBatch, request, flaky, open>>
  BY <1>1 DEF Dispose
<1>3. \A j \in Keys : /\ j \in left <=> j = k /\ accountWatchersCount[k] - 1 <= 0
                      /\ j \in gone <=> j \in left /\ accountChangeListeners[j] = "some"
  BY <1>1 DEF NobodyLeft, Unsubscribed
<1> HIDE DEF left, gone
<1>4. Counted' /\ accountWatchersCount[k] > 0
  <2>1. /\ Holders(k)' = Holders(k) \ {c} /\ c \in Holders(k)
        /\ \A j \in Keys \ {k} : Holders(j)' = Holders(j)
    BY <1>1 DEF Holders, Idle, IInv, TypeOK
  <2>2. /\ Cardinality(Holders(k) \ {c}) = Cardinality(Holders(k)) - 1
        /\ Cardinality(Holders(k)) > 0
    BY <2>1, HoldersFinite, FS_RemoveElement, FS_EmptySet
  <2> QED BY <1>1, <1>2, <2>1, <2>2 DEF Counted, IInv, TypeOK
<1>5. \A j \in Keys : /\ accountWatchersCount'[j] = accountWatchersCount[j] - (IF j = k THEN 1 ELSE 0)
                      /\ subscriptions[j] = (IF accountChangeListeners[j] = "none" THEN 0 ELSE 1)
                      /\ accountWatchersCount[j] \in Nat
  BY <1>1, <1>2 DEF IInv, TypeOK, OneListener
<1>6. OneListener' /\ subscriptions' \in [Keys -> Nat]
  <2>1. \A j \in Keys : /\ subscriptions'[j] = (IF accountChangeListeners'[j] = "none" THEN 0 ELSE 1)
                        /\ subscriptions'[j] \in Nat
    BY <1>2, <1>3, <1>5
  <2> QED BY <2>1, <1>2 DEF OneListener
<1>7. TypeOK'
  <2>1. accountWatchersCount' \in [Keys -> Nat]
    BY <1>1, <1>2, <1>4 DEF IInv, TypeOK
  <2>2. user' \in [Users -> {Idle, Lost} \cup [doing: {"searching", "holding"},
                                               key: Keys, watch: BOOLEAN]]
    BY <1>1 DEF IInv, TypeOK
  <2> QED BY <1>2, <1>6, <2>1, <2>2 DEF IInv, TypeOK
<1>8. NothingKeptForNobody'
  BY <1>2, <1>3, <1>5 DEF IInv, NothingKeptForNobody
<1>9. FollowedOrPolled'
  BY <1>2, <1>3, <1>5 DEF IInv, FollowedOrPolled
<1>10. AskedIsUnderWay'
  BY <1>2 DEF IInv, AskedIsUnderWay
<1> QED BY <1>4, <1>6, <1>7, <1>8, <1>9, <1>10 DEF IInv

LEMMA NotifyPreserves ==
  ASSUME IInv, NEW k \in Keys, Notify(k)
  PROVE  IInv'
<1>1. TypeOK'
  BY DEF Notify, IInv, TypeOK, callers, watching
<1>2. Counted' /\ OneListener' /\ NothingKeptForNobody' /\ AskedIsUnderWay'
  BY DEF Notify, IInv, callers, watching, Counted, Holders, OneListener, NothingKeptForNobody,
         AskedIsUnderWay
<1>3. accountChangeListeners[k] # "none"
  BY DEF Notify, IInv, OneListener
<1>4. FollowedOrPolled'
  BY <1>3 DEF Notify, IInv, TypeOK, watching, FollowedOrPolled
<1> QED BY <1>1, <1>2, <1>4 DEF IInv

LEMMA DeletePreserves ==
  ASSUME IInv, NEW k \in Keys, Delete(k)
  PROVE  IInv'
<1>1. TypeOK' /\ OneListener'
  <2>1. \A j \in Keys : subscriptions'[j] = (IF accountChangeListeners'[j] = "none" THEN 0 ELSE 1)
    BY DEF Delete, IInv, TypeOK, OneListener
  <2>2. subscriptions' \in [Keys -> Nat]
    <3>1. \A j \in Keys : subscriptions'[j] \in Nat
      BY <2>1
    <3>2. subscriptions' = [j \in Keys |-> subscriptions'[j]]
      BY DEF Delete, IInv, TypeOK
    <3> QED BY <3>1, <3>2
  <2>3. accountChangeListeners' \in [Keys -> {"none", "zero", "some"}]
    BY DEF Delete, IInv, TypeOK
  <2> QED BY <2>1, <2>2, <2>3 DEF Delete, IInv, TypeOK, callers, OneListener
<1>2. Counted' /\ AskedIsUnderWay'
  BY DEF Delete, IInv, callers, Counted, Holders, AskedIsUnderWay
<1>3. NothingKeptForNobody' /\ FollowedOrPolled'
  BY DEF Delete, IInv, TypeOK, callers, NothingKeptForNobody, FollowedOrPolled
<1> QED BY <1>1, <1>2, <1>3 DEF IInv
-----------------------------------------------------------------------------
(* Asking *)

\* A new query leaves callers behind, and none of those that hold something.
LEMMA OvertakenStep ==
  ASSUME TypeOK, NEW K \in SUBSET Keys, NEW c \in Users
  PROVE  /\ Overtaken(K)[c] \in {user[c], Lost}
         /\ user[c].doing # "searching" => Overtaken(K)[c] = user[c]
         /\ user[c].doing = "holding" \/ Overtaken(K)[c].doing # "holding"
  BY DEF Overtaken, Waiting, Lost

LEMMA AskStep ==
  ASSUME IInv, NEW K \in SUBSET Keys, NEW who \in Pending,
         NEW static \in SUBSET (K \cap StaticKeys), AddToBatch(K, who, static),
         UNCHANGED <<watching, genericCache, exists, request, flaky, open>>,
         statics' \subseteq StaticKeys,
         \A c \in Users : \/ user'[c] = user[c]
                          \/ user[c].doing # "holding" /\ user'[c].doing # "holding",
         user' \in [Users -> {Idle, Lost} \cup [doing: {"searching", "holding"},
                                                key: Keys, watch: BOOLEAN]]
  PROVE  IInv'
<1>1. TypeOK'
  BY StaticAssumption DEF AddToBatch, IInv, TypeOK, watching
<1>2. Counted'
  BY HoldersKept DEF IInv, watching
<1>3. OneListener' /\ NothingKeptForNobody' /\ FollowedOrPolled'
  BY DEF IInv, watching, OneListener, NothingKeptForNobody, FollowedOrPolled
<1>4. AskedIsUnderWay'
  BY DEF AddToBatch, IInv, TypeOK, AskedIsUnderWay
<1> QED BY <1>1, <1>2, <1>3, <1>4 DEF IInv

LEMMA RequeryPreserves ==
  ASSUME IInv, NEW K \in SUBSET Keys, NEW who \in Pending, Requery(K, who)
  PROVE  IInv'
<1>1. user' = Overtaken(K) /\ user' \in [Users -> {user[c] : c \in Users} \cup {Lost}]
  BY OvertakenStep DEF Requery, IInv, Overtaken
<1>2. user' \in [Users -> {Idle, Lost} \cup [doing: {"searching", "holding"},
                                             key: Keys, watch: BOOLEAN]]
  BY <1>1 DEF IInv, TypeOK
<1>3. \A c \in Users : \/ user'[c] = user[c]
                       \/ user[c].doing # "holding" /\ user'[c].doing # "holding"
  BY <1>1, OvertakenStep DEF IInv, Lost
<1>4. K \cap statics \in SUBSET (K \cap StaticKeys)
  BY DEF IInv, TypeOK
<1> QED BY <1>2, <1>3, <1>4, AskStep DEF Requery, IInv, TypeOK

\* A caller that is answered out of the cache and keeps watching.
LEMMA FromCachePreserves ==
  ASSUME IInv, NEW c \in Users, NEW k \in Keys, user[c] = Idle,
         statics' \subseteq StaticKeys, k \in statics' => k \in StaticKeys,
         genericCache[k] # "none",
         Watch({k}, {j \in {k} : genericCache[j] = "found"}, [j \in {k} |-> 1], {}),
         user' = [user EXCEPT ![c] = Doing("holding", k, TRUE)],
         UNCHANGED <<exists, genericCache, pendingCalls, staticCalls, currentBatch, request,
                     flaky, open>>
  PROVE  IInv'
<1> DEFINE K     == {k}
           found == {j \in {k} : genericCache[j] = "found"}
           stay  == [j \in {k} |-> 1]
<1>1. /\ K \in SUBSET Keys /\ stay \in [K -> Nat] /\ Watch(K, found, stay, {})
      /\ \A j : j \in K <=> j = k
      /\ k \in found <=> genericCache[k] = "found"
      /\ stay[k] = 1
  OBVIOUS
<1> HIDE DEF K, found, stay
<1>w. /\ Listened(accountChangeListeners') /\ subscribed' \in BOOLEAN
      /\ missingAccounts' \subseteq Keys
      /\ accountWatchersCount' \in [Keys -> Nat] /\ subscriptions' \in [Keys -> Nat]
      /\ OneListener' /\ NothingKeptForNobody'
      /\ \A j \in K : /\ accountWatchersCount'[j] = accountWatchersCount[j] + stay[j]
                      /\ accountWatchersCount'[j] > 0 =>
                           /\ j \in found /\ j \notin statics' => accountChangeListeners'[j] # "none"
                           /\ j \notin found /\ j \notin {} => j \in missingAccounts'
      /\ \A j \in Keys \ K : /\ accountWatchersCount'[j] = accountWatchersCount[j]
                             /\ accountChangeListeners'[j] = accountChangeListeners[j]
                             /\ j \notin {} => (j \in missingAccounts' <=> j \in missingAccounts)
  BY <1>1, WatchStep DEF IInv
<1>2. /\ Listened(accountChangeListeners') /\ subscribed' \in BOOLEAN
      /\ missingAccounts' \subseteq Keys
      /\ accountWatchersCount' \in [Keys -> Nat] /\ subscriptions' \in [Keys -> Nat]
      /\ OneListener' /\ NothingKeptForNobody'
  BY <1>w
<1>3. /\ accountWatchersCount'[k] = accountWatchersCount[k] + 1
      /\ accountWatchersCount'[k] > 0 =>
           /\ genericCache[k] = "found" /\ k \notin statics' => accountChangeListeners'[k] # "none"
           /\ genericCache[k] # "found" => k \in missingAccounts'
  BY <1>1, <1>w
<1>4. \A j \in Keys \ {k} : /\ accountWatchersCount'[j] = accountWatchersCount[j]
                            /\ accountChangeListeners'[j] = accountChangeListeners[j]
                            /\ j \in missingAccounts' <=> j \in missingAccounts
  BY <1>1, <1>w
<1>5. TypeOK'
  <2>1. user' \in [Users -> {Idle, Lost} \cup [doing: {"searching", "holding"},
                                               key: Keys, watch: BOOLEAN]]
    BY DEF IInv, TypeOK, Doing
  <2> QED BY <1>2, <2>1 DEF IInv, TypeOK, Listened
<1>6. Counted'
  <2>1. /\ Holders(k)' = Holders(k) \cup {c} /\ c \notin Holders(k)
        /\ \A j \in Keys \ {k} : Holders(j)' = Holders(j)
    BY DEF Holders, Idle, Doing, IInv, TypeOK
  <2>2. Cardinality(Holders(k) \cup {c}) = Cardinality(Holders(k)) + 1
    BY <2>1, HoldersFinite, FS_AddElement
  <2> QED BY <1>3, <1>4, <2>1, <2>2 DEF Counted, IInv
<1>7. FollowedOrPolled'
  BY <1>3, <1>4 DEF FollowedOrPolled, IInv, TypeOK
<1>8. AskedIsUnderWay'
  BY DEF IInv, AskedIsUnderWay
<1> QED BY <1>2, <1>5, <1>6, <1>7, <1>8 DEF IInv

LEMMA SearchPreserves ==
  ASSUME IInv, NEW c \in Users, NEW k \in Keys, NEW isStatic \in BOOLEAN,
         NEW forceRequery \in BOOLEAN, NEW watch \in BOOLEAN,
         Search(c, k, isStatic, forceRequery, watch)
  PROVE  IInv'
<1>1. /\ user[c] = Idle /\ statics' \subseteq StaticKeys
      /\ isStatic => k \in StaticKeys
      /\ UNCHANGED <<exists, genericCache, request, flaky, open>>
  BY DEF Search, IInv, TypeOK
<1>2. CASE genericCache[k] # "none" /\ watch /\ UNCHANGED <<pendingCalls, staticCalls, currentBatch>>
           /\ Watch({k}, {j \in {k} : genericCache[j] = "found"}, [j \in {k} |-> 1], {})
           /\ user' = [user EXCEPT ![c] = Doing("holding", k, TRUE)]
  <2>1. UNCHANGED <<exists, genericCache, pendingCalls, staticCalls, currentBatch, request,
                    flaky, open>>
    BY <1>1, <1>2
  <2> QED BY <1>1, <1>2, <2>1, FromCachePreserves
<1>3. CASE /\ UNCHANGED <<watching, pendingCalls, staticCalls, currentBatch>>
           /\ user' \in {user, [user EXCEPT ![c] = Doing("searching", k, watch)]}
  <2>1. \A d \in Users : \/ user'[d] = user[d]
                         \/ user[d].doing # "holding" /\ user'[d].doing # "holding"
    <3>1. \A d \in Users : user'[d] \in {user[d], IF d = c THEN Doing("searching", k, watch) ELSE user[d]}
      BY <1>3 DEF IInv, TypeOK
    <3> QED BY <1>1, <3>1 DEF Idle, Doing
  <2>2. TypeOK'
    <3>1. user' \in [Users -> {Idle, Lost} \cup [doing: {"searching", "holding"},
                                                 key: Keys, watch: BOOLEAN]]
      BY <1>3 DEF IInv, TypeOK, Doing
    <3> QED BY <1>1, <1>3, <3>1 DEF IInv, TypeOK, watching
  <2>3. Counted'
    BY <1>3, <2>1, HoldersKept DEF IInv, watching
  <2>4. \A j \in Keys : pendingCalls[j] \in Pending =>
          j \in currentBatch' \/ \E r \in Requests : j \in request'[r].keys
    BY <1>1, <1>3 DEF IInv, AskedIsUnderWay
  <2> QED BY <1>1, <1>3, <2>2, <2>3, <2>4, QuietStep
<1>4. CASE /\ user' = [Overtaken({k}) EXCEPT ![c] = Doing("searching", k, watch)]
           /\ AddToBatch({k}, "caller", IF isStatic THEN {k} ELSE {})
           /\ UNCHANGED watching
  <2>1. \A d \in Users : \/ user'[d] = user[d]
                         \/ user[d].doing # "holding" /\ user'[d].doing # "holding"
    <3>1. \A d \in Users : user'[d] = IF d = c THEN Doing("searching", k, watch)
                                               ELSE Overtaken({k})[d]
      BY <1>4 DEF Overtaken
    <3>2. \A d \in Users : \/ Overtaken({k})[d] = user[d]
                           \/ user[d].doing # "holding" /\ Overtaken({k})[d].doing # "holding"
      BY OvertakenStep DEF IInv, Lost
    <3>3. user[c].doing # "holding" /\ Doing("searching", k, watch).doing # "holding"
      BY <1>1 DEF Idle, Doing
    <3> QED BY <3>1, <3>2, <3>3
  <2>2. user' \in [Users -> {Idle, Lost} \cup [doing: {"searching", "holding"},
                                               key: Keys, watch: BOOLEAN]]
    BY <1>4 DEF IInv, TypeOK, Overtaken, Doing
  <2>3. /\ "caller" \in Pending /\ {k} \in SUBSET Keys
        /\ (IF isStatic THEN {k} ELSE {}) \in SUBSET ({k} \cap StaticKeys)
    BY <1>1 DEF Pending
  <2> QED BY <1>1, <1>4, <2>1, <2>2, <2>3, AskStep
<1> QED BY <1>1, <1>2, <1>3, <1>4 DEF Search
-----------------------------------------------------------------------------
(* The requests *)

LEMMA FetchBatchPreserves ==
  ASSUME IInv, NEW r \in Requests, FetchBatch(r)
  PROVE  IInv'
<1>1. \A q \in Requests : request'[q].keys = IF q = r THEN currentBatch ELSE request[q].keys
  BY DEF FetchBatch, IInv, TypeOK, Free
<1>2. TypeOK'
  BY DEF FetchBatch, IInv, TypeOK, Free, callers, watching
<1>3. Counted'
  BY HoldersKept DEF FetchBatch, IInv, callers, watching
<1>4. \A k \in Keys : pendingCalls[k] \in Pending =>
        k \in currentBatch' \/ \E q \in Requests : k \in request'[q].keys
  <2>1. request[r].keys = {}
    BY DEF FetchBatch, Free
  <2> QED BY <1>1, <2>1 DEF FetchBatch, IInv, AskedIsUnderWay
<1> QED BY <1>2, <1>3, <1>4, QuietStep DEF FetchBatch, callers

LEMMA ReadPreserves ==
  ASSUME IInv, NEW r \in Requests, Read(r)
  PROVE  IInv'
<1>1. \A q \in Requests : request'[q].keys = request[q].keys
  BY DEF Read, IInv, TypeOK
<1>2. TypeOK'
  <2>1. request[r].keys \in SUBSET Keys
    BY DEF IInv, TypeOK
  <2>2. request' \in [Requests -> [keys: SUBSET Keys, read: BOOLEAN, found: SUBSET Keys]]
    BY <2>1 DEF Read, IInv, TypeOK
  <2> QED BY <2>2 DEF Read, IInv, TypeOK, callers, watching
<1>3. Counted'
  BY HoldersKept DEF Read, IInv, callers, watching
<1>4. \A k \in Keys : pendingCalls[k] \in Pending =>
        k \in currentBatch' \/ \E q \in Requests : k \in request'[q].keys
  BY <1>1 DEF Read, IInv, AskedIsUnderWay
<1> QED BY <1>2, <1>3, <1>4, QuietStep DEF Read, callers

\* Whose promises an answer settles has no need of a request any more; the others have theirs.
LEMMA SettledLeave ==
  ASSUME IInv, NEW r \in Requests, NEW outcome \in {"none", "rejected"},
         pendingCalls' = [k \in Keys |-> IF k \in Answered(r) THEN outcome ELSE pendingCalls[k]],
         request' = [request EXCEPT ![r] = Free], UNCHANGED currentBatch
  PROVE  AskedIsUnderWay'
<1>1. SUFFICES ASSUME NEW k \in Keys, pendingCalls'[k] \in Pending
               PROVE  k \in currentBatch \/ \E q \in Requests : k \in request'[q].keys
  BY DEF AskedIsUnderWay
<1>2. k \notin Answered(r) /\ pendingCalls[k] \in Pending
  BY <1>1 DEF Pending
<1>3. CASE k \in currentBatch
  BY <1>3
<1>4. CASE k \notin currentBatch
  <2>1. PICK q \in Requests : k \in request[q].keys
    BY <1>2, <1>4 DEF IInv, AskedIsUnderWay
  <2>2. q # r
    BY <1>2, <2>1 DEF Answered
  <2> QED BY <2>1, <2>2 DEF IInv, TypeOK
<1> QED BY <1>3, <1>4

LEMMA FailPreserves ==
  ASSUME IInv, NEW r \in Requests, Fail(r)
  PROVE  IInv'
<1> DEFINE reached == UNION {Waiting(k) : k \in Answered(r)}
<1>1. /\ user' = [c \in Users |-> IF c \in reached THEN Idle ELSE user[c]]
      /\ pendingCalls' = [k \in Keys |-> IF k \in Answered(r) THEN "rejected" ELSE pendingCalls[k]]
      /\ staticCalls' = staticCalls \ Answered(r)
      /\ request' = [request EXCEPT ![r] = Free]
      /\ UNCHANGED <<exists, genericCache, statics, watching, currentBatch, flaky, open>>
  BY DEF Fail
<1>2. \A c \in reached : user[c].doing = "searching"
  BY DEF Waiting
<1> HIDE DEF reached
<1>3. \A c \in Users : \/ user'[c] = user[c]
                       \/ user[c].doing # "holding" /\ user'[c].doing # "holding"
  BY <1>1, <1>2 DEF Idle
<1>4. Counted'
  BY <1>1, <1>3, HoldersKept DEF IInv, watching
<1>5. TypeOK'
  BY <1>1 DEF IInv, TypeOK, watching, Free
<1>6. AskedIsUnderWay'
  BY <1>1, SettledLeave
<1>7. OneListener' /\ NothingKeptForNobody' /\ FollowedOrPolled'
  BY <1>1 DEF IInv, watching, OneListener, NothingKeptForNobody, FollowedOrPolled
<1> QED BY <1>4, <1>5, <1>6, <1>7 DEF IInv

\* The answer: whoever watches is counted, whatever was found is listened to, and the rest
\* is polled.
LEMMA RespondPreserves ==
  ASSUME IInv, NEW r \in Requests, Respond(r)
  PROVE  IInv'
<1> DEFINE answered == Answered(r)
           found    == answered \cap request[r].found
           watched  == {k \in answered : Keeping(k) # {} \/ pendingCalls[k] \in Background}
           stored   == watched \cup (staticCalls \cap found)
           reached  == UNION {Waiting(k) : k \in answered}
           stay     == [k \in watched |-> Cardinality(Keeping(k))]
           settled  == Settled(r)
<1>1. /\ Watch(watched, found, stay, settled)
      /\ genericCache' = [k \in Keys |-> IF k \in stored
                                         THEN (IF k \in found THEN "found" ELSE "missing")
                                         ELSE genericCache[k]]
      /\ user' = [c \in Users |-> IF c \notin reached THEN user[c]
                                  ELSE IF user[c].watch THEN [user[c] EXCEPT !.doing = "holding"]
                                  ELSE Idle]
      /\ pendingCalls' = [k \in Keys |-> IF k \in answered THEN "none" ELSE pendingCalls[k]]
      /\ staticCalls' = staticCalls \ answered
      /\ request' = [request EXCEPT ![r] = Free]
      /\ UNCHANGED <<exists, statics, currentBatch, flaky, open>>
  BY DEF Respond
<1>2. /\ answered \in SUBSET Keys /\ watched \in SUBSET Keys /\ watched \subseteq answered
      /\ \A k \in answered \ watched : Keeping(k) = {}
      /\ \A k \in watched : stay[k] = Cardinality(Keeping(k))
      /\ \A c : c \in reached <=> \E k \in answered : c \in Waiting(k)
  BY DEF Answered, IInv, TypeOK
<1>3. stay \in [watched -> Nat]
  BY WaitingFinite
<1>4. settled \subseteq found /\ settled \subseteq watched
  BY DEF Settled, Answered, Background, Pending
<1>5. /\ stored \subseteq watched \cup StaticKeys
      /\ \A k \in stored \ watched : k \in found
  BY DEF IInv, TypeOK
<1> HIDE DEF answered, found, watched, stored, reached, stay, settled
<1>6. /\ Listened(accountChangeListeners') /\ subscribed' \in BOOLEAN
      /\ missingAccounts' \subseteq Keys
      /\ accountWatchersCount' \in [Keys -> Nat] /\ subscriptions' \in [Keys -> Nat]
      /\ OneListener' /\ NothingKeptForNobody'
      /\ \A k \in watched :
           /\ accountWatchersCount'[k] = accountWatchersCount[k] + stay[k]
           /\ accountWatchersCount'[k] > 0 =>
                /\ k \in found /\ k \notin statics' => accountChangeListeners'[k] # "none"
                /\ k \notin found /\ k \notin settled => k \in missingAccounts'
      /\ \A k \in Keys \ watched :
           /\ accountWatchersCount'[k] = accountWatchersCount[k]
           /\ accountChangeListeners'[k] = accountChangeListeners[k]
           /\ k \notin settled => (k \in missingAccounts' <=> k \in missingAccounts)
  BY <1>1, <1>2, <1>3, WatchStep DEF IInv
<1>7. TypeOK'
  <2>1. \A c \in reached : user[c].doing = "searching"
    BY <1>2 DEF Waiting
  <2>2. user' \in [Users -> {Idle, Lost} \cup [doing: {"searching", "holding"},
                                               key: Keys, watch: BOOLEAN]]
    <3>1. ASSUME NEW c \in Users
          PROVE  user'[c] \in {Idle, Lost} \cup [doing: {"searching", "holding"},
                                                 key: Keys, watch: BOOLEAN]
      <4>1. CASE c \notin reached
        BY <1>1, <4>1 DEF IInv, TypeOK
      <4>2. CASE c \in reached
        <5>1. user[c] \in [doing: {"searching", "holding"}, key: Keys, watch: BOOLEAN]
          BY <2>1, <4>2 DEF IInv, TypeOK, Idle, Lost
        <5> QED BY <1>1, <4>2, <5>1
      <4> QED BY <4>1, <4>2
    <3> QED BY <1>1, <3>1
  <2>3. request' \in [Requests -> [keys: SUBSET Keys, read: BOOLEAN, found: SUBSET Keys]]
    BY <1>1 DEF IInv, TypeOK, Free
  <2>4. /\ genericCache' \in [Keys -> {"none", "missing", "found"}]
        /\ pendingCalls' \in [Keys -> Pending \cup {"none", "rejected"}]
        /\ staticCalls' \subseteq StaticKeys
    BY <1>1 DEF IInv, TypeOK
  <2> QED BY <1>1, <1>6, <2>2, <2>3, <2>4 DEF IInv, TypeOK, Listened
<1>8. Counted'
  <2>1. SUFFICES ASSUME NEW k \in Keys
                 PROVE  accountWatchersCount'[k] = Cardinality(Holders(k)')
    BY DEF Counted
  <2>2. /\ k \in answered => Holders(k)' = Holders(k) \cup Keeping(k)
        /\ k \notin answered => Holders(k)' = Holders(k)
    <3>1. \A c \in Users : c \in reached =>
             /\ user[c].doing = "searching"
             /\ user[c].key \in answered
      BY <1>2 DEF Waiting
    <3>2. ASSUME NEW c \in Users, c \notin reached
          PROVE  /\ c \in Holders(k)' <=> c \in Holders(k)
                 /\ k \in answered => c \notin Keeping(k)
      BY <1>1, <1>2, <3>2 DEF Holders, Keeping
    <3>3. ASSUME NEW c \in Users, c \in reached
          PROVE  /\ c \notin Holders(k)
                 /\ c \in Holders(k)' <=> user[c].watch /\ user[c].key = k
                 /\ c \in Keeping(k) <=> user[c].watch /\ user[c].key = k
      <4>1. user[c].doing = "searching" /\ user[c].key \in answered
        BY <3>1, <3>3
      <4>2. user[c] \in [doing: {"searching", "holding"}, key: Keys, watch: BOOLEAN]
        BY <4>1 DEF IInv, TypeOK, Idle, Lost
      <4>3. /\ user[c].watch => user'[c].doing = "holding" /\ user'[c].key = user[c].key
            /\ ~user[c].watch => user'[c].doing = "idle"
        BY <1>1, <3>3, <4>2 DEF Idle
      <4> QED BY <4>1, <4>2, <4>3 DEF Holders, Keeping, Waiting
    <3>4. Holders(k)' \subseteq Users /\ Holders(k) \subseteq Users /\ Keeping(k) \subseteq Users
      BY DEF Holders, Keeping, Waiting
    <3>5. k \notin answered => \A c \in reached : c \notin Holders(k)'
      BY <3>1, <3>3, <3>4, <1>2 DEF Waiting
    <3> QED BY <3>2, <3>3, <3>4, <3>5
  <2>3. Cardinality(Holders(k) \cup Keeping(k)) = Cardinality(Holders(k)) + Cardinality(Keeping(k))
    <3>1. Holders(k) \cap Keeping(k) = {}
      BY DEF Holders, Keeping, Waiting
    <3> QED BY <3>1, HoldersFinite, WaitingFinite, FS_Union, FS_EmptySet
  <2>4. accountWatchersCount[k] = Cardinality(Holders(k))
    BY DEF IInv, Counted
  <2>5. CASE k \in watched
    BY <1>2, <1>6, <2>2, <2>3, <2>4, <2>5
  <2>6. CASE k \notin watched
    <3>1. Holders(k)' = Holders(k)
      BY <1>2, <2>2, <2>6
    <3> QED BY <1>6, <2>4, <2>6, <3>1
  <2> QED BY <2>5, <2>6
<1>9. FollowedOrPolled'
  <2>1. SUFFICES ASSUME NEW k \in Keys, accountWatchersCount'[k] > 0
                 PROVE  /\ genericCache'[k] = "found" /\ k \notin StaticKeys
                             => accountChangeListeners'[k] # "none"
                        /\ genericCache'[k] = "missing" => k \in missingAccounts'
    BY DEF FollowedOrPolled
  <2>2. CASE k \in watched
    <3>1. k \in stored /\ k \notin StaticKeys => k \notin statics'
      BY <1>1, <2>2 DEF stored, IInv, TypeOK
    <3>2. k \in stored /\ (k \in settled => k \in found)
      BY <1>4, <2>2 DEF stored
    <3> QED BY <1>1, <1>6, <2>1, <2>2, <3>1, <3>2 DEF IInv, TypeOK
  <2>3. CASE k \notin watched
    <3>1. k \in stored => k \in StaticKeys /\ genericCache'[k] = "found"
      BY <1>1, <1>5, <2>3
    <3>2. k \notin stored => genericCache'[k] = genericCache[k]
      BY <1>1
    <3>3. k \notin settled
      BY <1>4, <2>3
    <3> QED BY <1>6, <2>1, <2>3, <3>1, <3>2, <3>3 DEF IInv, FollowedOrPolled
  <2> QED BY <2>2, <2>3
<1>10. AskedIsUnderWay'
  BY <1>1, SettledLeave DEF answered
<1> QED BY <1>6, <1>7, <1>8, <1>9, <1>10 DEF IInv
-----------------------------------------------------------------------------
(* The theorems *)

LEMMA InitIInv == Init => IInv
<1>1. SUFFICES ASSUME Init PROVE IInv
  OBVIOUS
<1>2. TypeOK
  BY <1>1 DEF Init, TypeOK, Free
<1>3. Counted
  <2>1. \A k \in Keys : Holders(k) = {}
    BY <1>1 DEF Init, Holders, Idle
  <2> QED BY <1>1, <2>1, FS_EmptySet DEF Init, Counted
<1>4. OneListener /\ NothingKeptForNobody /\ FollowedOrPolled /\ AskedIsUnderWay
  BY <1>1 DEF Init, OneListener, NothingKeptForNobody, FollowedOrPolled, AskedIsUnderWay, Pending
<1> QED BY <1>2, <1>3, <1>4 DEF IInv

\* The steps of the world around the cache, which touch nothing of it.
LEMMA WorldPreserves ==
  ASSUME IInv, UNCHANGED <<callers, genericCache, statics, watching, currentBatch, request>>,
         exists' \subseteq Keys, flaky' \in BOOLEAN, open' \in BOOLEAN
  PROVE  IInv'
  BY DEF IInv, TypeOK, callers, watching, OneListener, NothingKeptForNobody, FollowedOrPolled,
         AskedIsUnderWay, Counted, Holders

LEMMA NextPreserves ==
  ASSUME IInv, [Next]_vars
  PROVE  IInv'
<1>1. ASSUME NEW c \in Users, NEW k \in Keys, NEW isStatic \in BOOLEAN,
             NEW forceRequery \in BOOLEAN, NEW watch \in BOOLEAN,
             Search(c, k, isStatic, forceRequery, watch)
      PROVE  IInv'
  BY <1>1, SearchPreserves
<1>2. ASSUME NEW c \in Users, Dispose(c)
      PROVE  IInv'
  BY <1>2, DisposePreserves
<1>3. ASSUME NEW k \in Keys, Notify(k) \/ Delete(k) \/ Create(k)
      PROVE  IInv'
  <2>1. CASE Create(k)
    BY <2>1, WorldPreserves DEF Create, IInv, TypeOK
  <2> QED BY <1>3, <2>1, NotifyPreserves, DeletePreserves
<1>4. CASE FetchMissing
  BY <1>4, RequeryPreserves DEF FetchMissing, IInv, TypeOK, Pending
<1>5. ASSUME NEW K \in SUBSET Keys, RequeryMissing(K)
      PROVE  IInv'
  BY <1>5, RequeryPreserves DEF RequeryMissing, Pending
<1>6. ASSUME NEW r \in Requests, FetchBatch(r) \/ Read(r) \/ Respond(r) \/ Fail(r)
      PROVE  IInv'
  BY <1>6, FetchBatchPreserves, ReadPreserves, RespondPreserves, FailPreserves
<1>7. CASE Close \/ Recover
  BY <1>7, WorldPreserves DEF Close, Recover, IInv, TypeOK
<1>8. CASE UNCHANGED vars
  BY <1>8, WorldPreserves DEF vars, IInv, TypeOK
<1> QED BY <1>1, <1>2, <1>3, <1>4, <1>5, <1>6, <1>7, <1>8 DEF Next

THEOREM Invariance == Spec => []IInv
  BY InitIInv, NextPreserves, PTL DEF Spec

\* The cache and the connection agree on every subscription, no account has two, and every
\* listener and every poll is somebody's.
THEOREM ListenersAreKnown == Spec => []ListenersMatchWatchers
<1>1. IInv => ListenersMatchWatchers
  BY DEF IInv, ListenersMatchWatchers
<1> QED BY <1>1, Invariance, PTL

\* The cache's state keeps its types.
THEOREM TypeCorrect == Spec => []TypeOK
<1>1. IInv => TypeOK
  BY DEF IInv
<1> QED BY <1>1, Invariance, PTL

\* No watcher is left without a listener or a poll.
THEOREM WatchersAreServed == Spec => []FollowedOrPolled
  BY Invariance, PTL DEF IInv

\* No pending promise waits for a request that is gone.
THEOREM PromisesAreUnderWay == Spec => []AskedIsUnderWay
  BY Invariance, PTL DEF IInv
=============================================================================
