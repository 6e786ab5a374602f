-------------------------- MODULE ClientCodeProofs --------------------------
(***************************************************************************)
(* What is proved of the parts of ClientCode, each for every value of its  *)
(* constants.  A behaviour of ClientCode is a behaviour of every part (of  *)
(* the unused ones, one that stays where it starts), so that a part's      *)
(* theorem rests on an invariant of the part alone.                        *)
(***************************************************************************)
EXTENDS ClientCode, ArithmeticProofs, SequenceTheorems, TLAPS

-----------------------------------------------------------------------------
(* One use of one part is a behaviour of every part *)

\* What is proved of a part alone holds of it in ClientCode.
LEMMA ClientIsSender == ClientSpec => Init /\ [][Next]_vars
<1>1. ClientInit => Init
  BY DEF ClientInit
<1>2. [ClientNext]_clientVars => [Next]_vars
  BY DEF ClientNext, clientVars
<1> QED BY <1>1, <1>2, PTL DEF ClientSpec

LEMMA ClientIsToken == ClientSpec => Token!Spec
<1>1. ClientInit => Token!Init
  BY DEF ClientInit
<1>2. [ClientNext]_clientVars => [Token!Next]_(Token!vars)
  BY DEF ClientNext, clientVars, token, Token!vars
<1> QED BY <1>1, <1>2, PTL DEF ClientSpec, Token!Spec

LEMMA ClientIsResolution == ClientSpec => Resolution!Spec
<1>1. ClientInit => Resolution!Init
  BY DEF ClientInit
<1>2. [ClientNext]_clientVars => [Resolution!Next]_(Resolution!vars)
  BY DEF ClientNext, clientVars, resolution, Resolution!vars, Resolution!call
<1> QED BY <1>1, <1>2, PTL DEF ClientSpec, Resolution!Spec

LEMMA ClientIsErrors == ClientSpec => Errors!Spec
<1>1. ClientInit => Errors!Init
  BY DEF ClientInit
<1>2. [ClientNext]_clientVars => [Errors!Next]_(Errors!vars)
  BY DEF ClientNext, clientVars, errors, Errors!vars
<1> QED BY <1>1, <1>2, PTL DEF ClientSpec, Errors!Spec

LEMMA ClientIsProof == ClientSpec => Proof!Spec
<1>1. ClientInit => Proof!Init
  BY DEF ClientInit
<1>2. [ClientNext]_clientVars => [Proof!Next]_(Proof!vars)
  BY DEF ClientNext, clientVars, proofs, Proof!vars, Proof!call
<1> QED BY <1>1, <1>2, PTL DEF ClientSpec, Proof!Spec

LEMMA ClientIsFeed == ClientSpec => Feed!Spec
<1>1. ClientInit => Feed!Init
  BY DEF ClientInit
<1>2. [ClientNext]_clientVars => [Feed!Next]_(Feed!vars)
  BY DEF ClientNext, clientVars, aggregator, Feed!vars
<1> QED BY <1>1, <1>2, PTL DEF ClientSpec, Feed!Spec

LEMMA ClientIsDisplay == ClientSpec => Display!Spec
<1>1. ClientInit => Display!Init
  BY DEF ClientInit
<1>2. [ClientNext]_clientVars => [Display!Next]_(Display!vars)
  BY DEF ClientNext, clientVars, display, Display!vars, Display!display, Display!transfers
<1> QED BY <1>1, <1>2, PTL DEF ClientSpec, Display!Spec

LEMMA ClientIsAmounts == ClientSpec => Amount!Spec
<1>1. ClientInit => Amount!Init
  BY DEF ClientInit
<1>2. [ClientNext]_clientVars => [Amount!Next]_(Amount!vars)
  BY DEF ClientNext, clientVars, amounts, Amount!vars
<1> QED BY <1>1, <1>2, PTL DEF ClientSpec, Amount!Spec

-----------------------------------------------------------------------------
(* createSwitchboardAggregator *)

\* A run goes on to a call only when those before it have taken effect, and what they have
\* made stays; this holds of the last call's transaction also when its run is over.
Complete == feed = "active" /\ history
FeedInv ==
  /\ feed \in {"none", "account", "active"}
  /\ feedPc \in [Runs -> {"off", "exists", "returned", "threw"} \cup Feed!Kinds]
  /\ feedFlight \subseteq Feed!Kinds
  /\ \A r \in Runs : /\ feedPc[r] = "history" => feed = "active"
                     /\ feedPc[r] = "setAuthority" => Complete
  /\ "setAuthority" \in feedFlight => Complete
  /\ handed => Complete

LEMMA FeedKinds == Feed!Kinds = {"createFeed", "activate", "history", "setAuthority"}
<1>1. DOMAIN Feed!Steps = 1..4
  BY DEF Feed!Steps
<1> QED BY <1>1, 1..4 = {1, 2, 3, 4} DEF Feed!Kinds, Feed!Steps

\* The call after each of the four.
LEMMA FeedFollowing ==
  ASSUME NEW r \in Runs, feedPc[r] \in Feed!Kinds, Feed!Following(r)
  PROVE  feedPc' = [feedPc EXCEPT ![r] =
           IF feedPc[r] = "createFeed" THEN "activate"
           ELSE IF feedPc[r] = "activate" THEN "history"
           ELSE IF feedPc[r] = "history" THEN "setAuthority" ELSE "returned"]
<1> DEFINE k == CHOOSE k \in DOMAIN Feed!Steps : Feed!Steps[k] = feedPc[r]
<1>1. DOMAIN Feed!Steps = 1..4 /\ Len(Feed!Steps) = 4
  BY DEF Feed!Steps
<1>2. \E j \in DOMAIN Feed!Steps : Feed!Steps[j] = feedPc[r]
  BY DEF Feed!Kinds
<1>3. k \in 1..4 /\ Feed!Steps[k] = feedPc[r]
  BY <1>1, <1>2
<1>4. feedPc' = [feedPc EXCEPT ![r] = IF k = 4 THEN "returned" ELSE Feed!Steps[k + 1]]
  BY <1>1 DEF Feed!Following, Feed!Goto
<1>5. Feed!Steps[1] = "createFeed" /\ Feed!Steps[2] = "activate" /\ Feed!Steps[3] = "history"
      /\ Feed!Steps[4] = "setAuthority"
  BY DEF Feed!Steps
<1> HIDE DEF k
<1>6. k = 1 \/ k = 2 \/ k = 3 \/ k = 4
  BY <1>3
<1>7. (IF k = 4 THEN "returned" ELSE Feed!Steps[k + 1])
        = IF feedPc[r] = "createFeed" THEN "activate"
          ELSE IF feedPc[r] = "activate" THEN "history"
          ELSE IF feedPc[r] = "history" THEN "setAuthority" ELSE "returned"
  <2>1. CASE k = 1
    BY <1>3, <1>5, <2>1
  <2>2. CASE k = 2
    BY <1>3, <1>5, <2>2
  <2>3. CASE k = 3
    BY <1>3, <1>5, <2>3
  <2>4. CASE k = 4
    BY <1>3, <1>5, <2>4
  <2> QED BY <1>6, <2>1, <2>2, <2>3, <2>4
<1> QED BY <1>4, <1>7, Zenon

LEMMA FeedInit == Feed!Init => FeedInv
BY FeedKinds DEF Feed!Init, FeedInv

LEMMA FeedCall ==
  ASSUME FeedInv, NEW r \in Runs, Feed!Call(r)
  PROVE  FeedInv'
<1> USE FeedKinds DEF FeedInv, Complete, Feed!Call
<1>1. CASE Feed!Possible(feedPc[r]) /\ Feed!Do(feedPc[r]) /\ Feed!Following(r)
  <2> DEFINE to == IF feedPc[r] = "createFeed" THEN "activate"
                   ELSE IF feedPc[r] = "activate" THEN "history"
                   ELSE IF feedPc[r] = "history" THEN "setAuthority" ELSE "returned"
  <2>1. feedPc' = [feedPc EXCEPT ![r] = to]
    BY <1>1, FeedFollowing
  <2> HIDE DEF to
  <2>2. to \in {"activate", "history", "setAuthority", "returned"}
    BY DEF to
  <2>3. feed = "active" => feed' = "active"
    BY <1>1 DEF Feed!Possible, Feed!Do
  <2>4. (history => history') /\ feed' \in {"none", "account", "active"}
    BY <1>1 DEF Feed!Do
  <2>5. /\ to = "history" => feed' = "active"
        /\ to = "setAuthority" => feed' = "active" /\ history'
        /\ handed' => feed' = "active" /\ history'
    BY <1>1, <2>3, <2>4 DEF Feed!Do, to
  <2> QED BY <2>1, <2>2, <2>3, <2>4, <2>5
<1>2. CASE ~Feed!Possible(feedPc[r]) /\ Feed!Refused /\ Feed!Goto(r, "threw")
  BY <1>2 DEF Feed!Refused, Feed!Goto
<1> QED BY <1>1, <1>2

LEMMA FeedLate ==
  ASSUME FeedInv, NEW kind \in feedFlight, Feed!Late(kind)
  PROVE  FeedInv'
<1> USE FeedKinds DEF FeedInv, Complete, Feed!Late
<1>1. CASE Feed!Possible(kind) /\ Feed!Do(kind)
  <2>1. feed = "active" => feed' = "active"
    BY <1>1 DEF Feed!Possible, Feed!Do
  <2>2. (history => history') /\ feed' \in {"none", "account", "active"}
    BY <1>1 DEF Feed!Do
  <2>3. handed' => feed' = "active" /\ history'
    BY <1>1, <2>1, <2>2 DEF Feed!Do
  <2> QED BY <2>1, <2>2, <2>3
<1>2. CASE Feed!Refused
  BY <1>2 DEF Feed!Refused
<1> QED BY <1>1, <1>2

LEMMA FeedStep == FeedInv /\ [Feed!Next]_(Feed!vars) => FeedInv'
<1> SUFFICES ASSUME FeedInv, [Feed!Next]_(Feed!vars) PROVE FeedInv'
  OBVIOUS
<1>1. ASSUME NEW r \in Runs, Feed!Start(r) PROVE FeedInv'
  BY <1>1, FeedKinds DEF FeedInv, Complete, Feed!Start, Feed!Goto
<1>2. ASSUME NEW r \in Runs, Feed!Look(r) PROVE FeedInv'
  <2>1. Feed!Steps[1] = "createFeed"
    BY DEF Feed!Steps
  <2> QED BY <1>2, <2>1, FeedKinds DEF FeedInv, Complete, Feed!Look, Feed!Goto
<1>3. ASSUME NEW r \in Runs, Feed!Call(r) PROVE FeedInv'
  BY <1>3, FeedCall
<1>4. ASSUME NEW r \in Runs, Feed!Fail(r) PROVE FeedInv'
  BY <1>4, FeedKinds DEF FeedInv, Complete, Feed!Fail, Feed!Goto
<1>5. ASSUME NEW kind \in feedFlight, Feed!Late(kind) PROVE FeedInv'
  BY <1>5, FeedLate
<1>6. CASE UNCHANGED Feed!vars
  BY <1>6 DEF FeedInv, Complete, Feed!vars
<1> QED BY <1>1, <1>2, <1>3, <1>4, <1>5, <1>6 DEF Feed!Next

\* For any number of runs and failures, a feed that was handed over is complete
\* (createSwitchboardAggregator).
THEOREM HandedOver == ClientSpec => []HandedOverComplete
<1>1. FeedInv => HandedOverComplete
  BY DEF FeedInv, Complete, HandedOverComplete, Feed!HandedOverComplete
<1> QED BY <1>1, FeedInit, FeedStep, ClientIsFeed, PTL DEF Feed!Spec

-----------------------------------------------------------------------------
(* The bridge's page *)

Quiet == error = Display!None /\ submittedSolTx = Display!None

\* As long as none was begun during another one, only the latest can be under way, and what is
\* shown is what it has set; one that could not be packaged is over, and has the cross.
Shown ==
  last # Display!None /\ ~overlapped =>
    /\ last \in Transfers
    /\ \A t \in Transfers \ {last} : ~Display!Running(t)
    /\ clickPc[last] \in Display!StepNames \cup {"balance", "sent", "ended"}
    /\ clickPc[last] = "balance" => Quiet /\ currentStep = "burningEthRndr"
    /\ clickPc[last] \in Display!StepNames => Quiet /\ currentStep = clickPc[last]
    /\ clickPc[last] = "sent" => error = Display!None /\ currentStep = "transferringRndr"
    /\ clickPc[last] = "ended" => currentStep \in Display!StepNames
    /\ error \in {Display!None, last}
    /\ last \in unpackaged => error = last /\ currentStep = "transferringRndr"

DisplayInv ==
  /\ clickPc \in [Transfers -> {"idle", "balance", "sent", "ended"} \cup Display!StepNames]
  /\ submittedSolTx # Display!None =>
       submittedSolTx \in Transfers /\ clickPc[submittedSolTx] = "sent"
  /\ unpackaged \subseteq {t \in Transfers : clickPc[t] = "ended"}
  /\ overlapped \in BOOLEAN
  /\ Shown

LEMMA DisplaySteps ==
  /\ Display!Steps[1] = "burningEthRndr" /\ Display!Steps[2] = "verifyingMintIntent"
  /\ Display!Steps[3] = "packagingSolTx" /\ Display!Steps[4] = "transferringRndr"
  /\ DOMAIN Display!Steps = 1..4
  /\ Display!StepNames =
       {"burningEthRndr", "verifyingMintIntent", "packagingSolTx", "transferringRndr"}
<1>1. DOMAIN Display!Steps = 1..4
  BY DEF Display!Steps
<1> QED BY <1>1, 1..4 = {1, 2, 3, 4} DEF Display!StepNames, Display!Steps

LEMMA DisplayOrder ==
  /\ Display!Order("burningEthRndr") = 1 /\ Display!Order("verifyingMintIntent") = 2
  /\ Display!Order("packagingSolTx") = 3 /\ Display!Order("transferringRndr") = 4
  /\ Display!Order(Display!None) = 0
<1>1. ASSUME NEW k \in 1..4 PROVE Display!Order(Display!Steps[k]) = k
  <2> DEFINE j == CHOOSE j \in DOMAIN Display!Steps : Display!Steps[j] = Display!Steps[k]
  <2>1. Display!Steps[k] # Display!None
    BY <1>1, DisplaySteps DEF Display!Steps, Display!None
  <2>2. j \in 1..4 /\ Display!Steps[j] = Display!Steps[k]
    BY DisplaySteps
  <2>3. j = k
    BY <2>2 DEF Display!Steps
  <2> QED BY <2>1, <2>3 DEF Display!Order
<1>2. Display!Order(Display!None) = 0
  BY DEF Display!Order
<1> QED BY <1>1, <1>2, DisplaySteps

LEMMA DisplayInit == Display!Init => DisplayInv
BY DEF Display!Init, DisplayInv, Shown

LEMMA SubmitKeeps ==
  ASSUME DisplayInv, NEW t \in Transfers, Display!SubmitTransfer(t)
  PROVE  DisplayInv'
<1> USE DisplaySteps DEF DisplayInv, Display!SubmitTransfer, Display!Goto
<1>1. PICK to \in {"burningEthRndr", "ended"} : clickPc' = [clickPc EXCEPT ![t] = to]
  BY Zenon
<1>2. /\ submittedSolTx' = Display!None /\ error' = Display!None /\ last' = t
      /\ currentStep' = "burningEthRndr" /\ unpackaged' = unpackaged /\ t \notin unpackaged
  BY DEF Display!None
<1>3. \A u \in Transfers \ {t} : Display!Running(u)' <=> Display!Running(u)
  BY <1>1 DEF Display!Running
<1>4. ~overlapped' => \A u \in Transfers : ~Display!Running(u)
  OBVIOUS
<1>5. Shown'
  BY <1>1, <1>2, <1>3, <1>4 DEF Shown, Quiet
<1>6. overlapped' \in BOOLEAN
  OBVIOUS
<1> QED BY <1>1, <1>2, <1>5, <1>6

LEMMA ProceedKeeps ==
  ASSUME DisplayInv, NEW t \in Transfers, Display!Proceed(t)
  PROVE  DisplayInv'
<1> USE DisplaySteps DEF DisplayInv, Display!Proceed, Display!Goto
<1> DEFINE to == Display!Following(t)
<1>1. clickPc' = [clickPc EXCEPT ![t] = to]
  OBVIOUS
<1>2. /\ clickPc[t] = "burningEthRndr" => to = "balance" /\ currentStep' = currentStep
      /\ clickPc[t] = "balance" => to = "verifyingMintIntent" /\ currentStep' = to
      /\ clickPc[t] = "verifyingMintIntent" => to = "packagingSolTx" /\ currentStep' = to
      /\ clickPc[t] = "packagingSolTx" => to = "transferringRndr" /\ currentStep' = to
      /\ clickPc[t] = "transferringRndr" => to = "sent" /\ currentStep' = currentStep
  BY DEF Display!Following, Display!StepAfter
<1>3. clickPc[t] \in Display!StepNames \cup {"balance"}
  BY DEF Display!Running
<1> HIDE DEF to
<1>4. to \in {"sent", "balance"} \cup Display!StepNames
  BY <1>2, <1>3
<1>5. /\ clickPc[t] = "transferringRndr" => submittedSolTx' = t
      /\ clickPc[t] # "transferringRndr" => submittedSolTx' = submittedSolTx
  BY DEF Display!SolTxAfter
<1>6. clickPc' \in [Transfers -> {"idle", "balance", "sent", "ended"} \cup Display!StepNames]
  BY <1>1, <1>4
<1>7. submittedSolTx' # Display!None =>
        submittedSolTx' \in Transfers /\ clickPc'[submittedSolTx'] = "sent"
  BY <1>1, <1>2, <1>3, <1>5
<1>8. unpackaged' \subseteq {u \in Transfers : clickPc'[u] = "ended"}
  BY <1>1, <1>3
<1>9. Shown'
  <2> SUFFICES ASSUME last # Display!None, ~overlapped PROVE Shown'
    BY DEF Shown
  <2>1. t = last
    BY DEF Shown
  <2>2. last \notin unpackaged
    BY <1>3, <2>1
  <2>3. \A u \in Transfers \ {last} : ~Display!Running(u)'
    BY <1>1, <2>1 DEF Shown, Display!Running
  <2> QED BY <1>1, <1>2, <1>3, <1>4, <1>5, <2>1, <2>2, <2>3 DEF Shown, Quiet
<1> QED BY <1>6, <1>7, <1>8, <1>9

LEMMA FailKeeps ==
  ASSUME DisplayInv, NEW t \in Transfers, Display!Fail(t)
  PROVE  DisplayInv'
<1> USE DisplaySteps DEF DisplayInv, Display!Fail, Display!Goto
<1>1. clickPc' = [clickPc EXCEPT ![t] = "ended"]
  OBVIOUS
<1>2. clickPc[t] \in Display!StepNames \cup {"balance"}
  BY DEF Display!Running
<1>3. Shown'
  <2> SUFFICES ASSUME last # Display!None, ~overlapped PROVE Shown'
    BY DEF Shown
  <2>1. t = last
    BY DEF Shown
  <2>2. \A u \in Transfers \ {last} : ~Display!Running(u)'
    BY <1>1, <2>1 DEF Shown, Display!Running
  <2>3. currentStep' \in Display!StepNames /\ error' \in {Display!None, last}
    BY <1>2, <2>1 DEF Shown, Quiet
  <2>4. last \in unpackaged' => error' = last /\ currentStep' = "transferringRndr"
    BY <1>2, <2>1
  <2> QED BY <1>1, <2>1, <2>2, <2>3, <2>4 DEF Shown
<1> QED BY <1>1, <1>2, <1>3

LEMMA DisplayStep == DisplayInv /\ [Display!Next]_(Display!vars) => DisplayInv'
<1> SUFFICES ASSUME DisplayInv, [Display!Next]_(Display!vars) PROVE DisplayInv'
  OBVIOUS
<1>1. ASSUME NEW n \in Inputs, Display!Type(n) PROVE DisplayInv'
  BY <1>1 DEF DisplayInv, Shown, Quiet, Display!Running, Display!Type, Display!display,
     Display!transfers
<1>2. CASE UNCHANGED Display!vars
  BY <1>2 DEF DisplayInv, Shown, Quiet, Display!Running, Display!vars, Display!display,
     Display!transfers
<1> QED BY <1>1, <1>2, SubmitKeeps, ProceedKeeps, FailKeeps DEF Display!Next

\* For any number of transfers that fail and overlap anyhow, a success is told of one that has
\* come to its end; and the marks are true as long as none is begun during another one (index.tsx).
THEOREM MarksOfThePage == ClientSpec => []MarksAreTrue
<1>1. DisplayInv => MarksAreTrue
  <2> SUFFICES ASSUME DisplayInv PROVE MarksAreTrue
    OBVIOUS
  <2>1. Display!SuccessIsReal
    BY DEF DisplayInv, Display!SuccessIsReal, Display!Success
  <2>2. ASSUME last # Display!None, ~overlapped
        PROVE  /\ \A k \in 1..4 :
                    /\ clickPc[last] # "ended" /\ Display!Check(k) => k <= Display!Behind(last)
                    /\ Display!Cross(k) => error = last /\ clickPc[last] = "ended"
               /\ last \in unpackaged => Display!Check(3) /\ Display!Cross(4)
               /\ Display!Running(last) => Display!Spinner
    <3> USE <2>2, DisplaySteps, DisplayOrder DEF DisplayInv, Shown, Quiet
    <3>1. ASSUME NEW k \in 1..4, clickPc[last] # "ended", Display!Check(k)
          PROVE  k <= Display!Behind(last)
      <4>1. Display!Order(currentStep) > k
        BY <3>1 DEF Display!Check
      <4>2. CASE clickPc[last] \in Display!StepNames
        BY <3>1, <4>1, <4>2 DEF Display!Behind
      <4>3. CASE clickPc[last] = "balance"
        BY <3>1, <4>1, <4>3 DEF Display!Behind
      <4>4. CASE clickPc[last] = "sent"
        BY <3>1, <4>1, <4>4 DEF Display!Behind
      <4> QED BY <3>1, <4>2, <4>3, <4>4
    <3>2. ASSUME NEW k \in 1..4, Display!Cross(k)
          PROVE  error = last /\ clickPc[last] = "ended"
      BY <3>2 DEF Display!Cross
    <3>3. last \in unpackaged => Display!Check(3) /\ Display!Cross(4)
      BY DEF Display!Check, Display!Cross
    <3>4. Display!Running(last) => Display!Spinner
      BY DEF Display!Running, Display!Spinner, Display!Success, Display!None
    <3> QED BY <3>1, <3>2, <3>3, <3>4
  <2> QED BY <2>1, <2>2 DEF MarksAreTrue, Display!MarksAreTrue
<1> QED BY <1>1, DisplayInit, DisplayStep, ClientIsDisplay, PTL DEF Display!Spec

-----------------------------------------------------------------------------
(* anchorError.ts *)

ErrorsInv == thrown # Errors!Nothing => status # Errors!Pending /\ thrown = Errors!Parse(status)

LEMMA ErrorsStep == ErrorsInv /\ [Errors!Next]_(Errors!vars) => ErrorsInv'
<1> SUFFICES ASSUME ErrorsInv, [Errors!Next]_(Errors!vars) PROVE ErrorsInv'
  OBVIOUS
<1>1. CASE Errors!Succeed \/ Errors!FailBefore \/ \E i \in DOMAIN batch[position] : Errors!FailAt(i)
  <2>1. status = Errors!Pending /\ thrown' = thrown
    BY <1>1 DEF Errors!Succeed, Errors!FailBefore, Errors!FailAt
  <2> QED BY <2>1 DEF ErrorsInv
<1>2. CASE Errors!Catch
  BY <1>2 DEF Errors!Catch, ErrorsInv, Errors!Parse, Errors!Known, Errors!ProgramError,
     Errors!ErrorCode, Errors!Message
<1>3. CASE UNCHANGED Errors!vars
  BY <1>3 DEF Errors!vars, ErrorsInv, Errors!Parse, Errors!Known, Errors!ProgramError,
     Errors!ErrorCode, Errors!Message
<1> QED BY <1>1, <1>2, <1>3 DEF Errors!Next

\* The caller's IDL is looked up first.
LEMMA MessageOfIdl ==
  ASSUME NEW code \in IdlErrors
  PROVE  Errors!Known(code) /\ Errors!Message(code) = <<"idl", code>>
<1> DEFINE First(k) == /\ code \in DOMAIN Errors!Tables[k]
                       /\ \A j \in 1..(k - 1) : code \notin DOMAIN Errors!Tables[j]
           first == CHOOSE k \in DOMAIN Errors!Tables : First(k)
<1>1. DOMAIN Errors!Tables = 1..3 /\ Errors!Tables[1] = Errors!Errors
  BY DEF Errors!Tables
<1>2. code \in DOMAIN Errors!Tables[1]
  BY <1>1 DEF Errors!Errors
<1>3. First(1) /\ 1 \in DOMAIN Errors!Tables
  BY <1>1, <1>2
<1>4. first \in 1..3 /\ First(first)
  BY <1>1, <1>3, Zenon
<1>5. first = 1
  BY <1>2, <1>4
<1>6. Errors!Message(code) = Errors!Tables[1][code]
  BY <1>5, Zenon DEF Errors!Message
<1> QED BY <1>1, <1>2, <1>6 DEF Errors!Errors, Errors!Known

\* For any IDL, any codes and whichever instruction of whichever transaction fails: a code but
\* 0 is told as it is, with the IDL's message if it is the client's (ProgramError.parse).
THEOREM CodesKeepTheirValues == ClientSpec => []CodesAreTold
<1>1. Errors!Init => ErrorsInv
  BY DEF Errors!Init, ErrorsInv
<1>2. ErrorsInv => CodesAreTold
  <2> SUFFICES ASSUME ErrorsInv, Errors!Caught, Errors!Coded, status.code # 0
               PROVE  /\ program = Client /\ status.code \in IdlErrors =>
                           thrown = [kind |-> "ProgramError", code |-> status.code,
                                     msg |-> <<"idl", status.code>>]
                      /\ \/ thrown.kind = "ProgramError" /\ thrown.code = status.code
                         \/ thrown = status /\ ~Errors!Known(status.code)
    BY DEF CodesAreTold, Errors!CodesAreTold
  <2>1. Errors!ErrorCode(status) = status.code
    BY DEF Errors!Coded, Errors!ErrorCode
  <2>2. thrown = IF Errors!Known(status.code) THEN Errors!ProgramError(status.code) ELSE status
    BY <2>1, Zenon DEF ErrorsInv, Errors!Caught, Errors!Parse
  <2> QED BY <2>2, MessageOfIdl DEF Errors!ProgramError
<1> QED BY <1>1, <1>2, ErrorsStep, ClientIsErrors, PTL DEF Errors!Spec

-----------------------------------------------------------------------------
(* proofArgsAndAccounts *)

Version == {v \in Nat : v <= Len(log)}

\* What is held is of a version there was, and as it was then.
Read ==
  /\ tree \in Trees /\ id \in Assets
  /\ log \in Seq([asset : Assets, redeemed : BOOLEAN])
  /\ proofPc \in {"proof", "canopy", "use", "accepted", "rejected", "too large"} =>
       asset.leafId = id
  /\ proofPc \in {"canopy", "use", "accepted", "rejected", "too large"} =>
       proof.version \in Version /\ proof.path = [level \in 1..tree.depth |-> level]
  /\ proofPc \in {"use", "accepted", "rejected", "too large"} => canopy = tree.canopy
  /\ proofPc \in {"accepted", "rejected", "too large"} => used \in Version

ProofInv == Read /\ ReadsAreConsistent

\* What an asset was at a version stays what it was.
LEMMA PastStays ==
  ASSUME NEW e, log \in Seq([asset : Assets, redeemed : BOOLEAN]), NEW v \in Version, NEW i,
         log' = Append(log, e)
  PROVE  /\ Proof!Content(i, v)' = Proof!Content(i, v)
         /\ Proof!Redeemed(i, v)' <=> Proof!Redeemed(i, v)
<1>1. \A n \in 1..v : log'[n] = log[n]
  BY DEF Version
<1>2. {n \in 1..v : log'[n].asset = i} = {n \in 1..v : log[n].asset = i}
  BY <1>1
<1> QED BY <1>1, <1>2 DEF Proof!Content, Proof!Redeemed

LEMMA ChangeKeeps ==
  ASSUME ProofInv, NEW i \in Assets, Proof!Change(i)
  PROVE  ProofInv'
<1> USE DEF ProofInv, Proof!Change, Proof!call
<1>1. PICK e \in [asset : Assets, redeemed : BOOLEAN] : log' = Append(log, e)
  BY DEF Read
<1>2. UNCHANGED <<tree, proofPc, id, asset, proof, canopy, used>>
  OBVIOUS
<1>3. log' \in Seq([asset : Assets, redeemed : BOOLEAN]) /\ Version \subseteq Version'
  <2>1. log \in Seq([asset : Assets, redeemed : BOOLEAN])
    BY DEF Read
  <2>2. log' \in Seq([asset : Assets, redeemed : BOOLEAN]) /\ Len(log') = Len(log) + 1
        /\ Len(log) \in Nat
    BY <1>1, <2>1, AppendProperties, LenProperties
  <2> QED BY <2>2 DEF Version
<1>4. Read'
  BY <1>2, <1>3 DEF Read
<1>5. ReadsAreConsistent'
  <2>1. CASE proofPc \in {"accepted", "rejected", "too large"}
    <3>1. used \in Version /\ log \in Seq([asset : Assets, redeemed : BOOLEAN])
      BY <2>1 DEF Read
    <3>2. /\ Proof!Content(id, used)' = Proof!Content(id, used)
          /\ Proof!Redeemed(id, used)' <=> Proof!Redeemed(id, used)
      <4> HIDE DEF ProofInv, Proof!Change
      <4>1. /\ {n \in 1..used : log'[n].asset = id} = {n \in 1..used : log[n].asset = id}
            /\ \A n \in 1..used : log'[n] = log[n]
        BY <1>1, <3>1 DEF Version
      <4> QED BY <1>2, <4>1 DEF Proof!Content, Proof!Redeemed
    <3> QED BY <1>2, <3>2 DEF ReadsAreConsistent, Proof!RefusedOnlyIfOvertaken, Proof!AcceptedAsRead
  <2> QED BY <1>2, <2>1 DEF ReadsAreConsistent, Proof!RefusedOnlyIfOvertaken, Proof!AcceptedAsRead
<1> QED BY <1>4, <1>5

LEMMA ReadsKeep ==
  ASSUME ProofInv, Proof!GetAsset \/ Proof!GetAssetProof \/ Proof!GetCanopyDepth \/ Proof!Reject
  PROVE  ProofInv'
<1> USE DEF ProofInv
<1>1. UNCHANGED <<tree, log, id, used>> /\ Version' = Version
  BY DEF Proof!GetAsset, Proof!GetAssetProof, Proof!GetCanopyDepth, Proof!Reject, Proof!Throw,
     Version
<1>2. proofPc' \in {"proof", "canopy", "use", "threw"}
  BY DEF Proof!GetAsset, Proof!GetAssetProof, Proof!GetCanopyDepth, Proof!Reject, Proof!Throw
<1>3. ReadsAreConsistent'
  BY <1>2 DEF ReadsAreConsistent, Proof!RefusedOnlyIfOvertaken, Proof!AcceptedAsRead
<1>4. Read'
  <2>1. CASE Proof!GetAsset
    <3>1. CASE proofPc' = "threw"
      BY <1>1, <3>1 DEF Read
    <3>2. CASE proofPc' # "threw"
      <4>1. PICK v \in Proof!Versions : asset' = Proof!ToAsset(v) /\ proofPc' = "proof"
        BY <2>1, <3>2 DEF Proof!GetAsset, Proof!Throw
      <4>2. asset'.leafId = id
        BY <4>1 DEF Proof!ToAsset
      <4> QED BY <1>1, <4>1, <4>2 DEF Read
    <3> QED BY <3>1, <3>2
  <2>2. CASE Proof!GetAssetProof
    <3>1. CASE proofPc' = "threw"
      BY <1>1, <3>1 DEF Read
    <3>2. CASE proofPc' # "threw"
      <4>1. PICK v \in Proof!Versions : proof' = Proof!ToProof(v) /\ proofPc' = "canopy"
                                        /\ proofPc = "proof" /\ UNCHANGED <<asset, canopy>>
        BY <2>2, <3>2 DEF Proof!GetAssetProof, Proof!Throw
      <4>2. v \in Version
        <5>1. Len(log) \in Nat
          BY LenProperties DEF Read
        <5> QED BY <5>1 DEF Proof!Versions, Proof!Now, Version
      <4> QED BY <1>1, <4>1, <4>2 DEF Read, Proof!ToProof
    <3> QED BY <3>1, <3>2
  <2>3. CASE Proof!GetCanopyDepth
    BY <1>1, <2>3 DEF Read, Proof!GetCanopyDepth, Proof!Throw
  <2>4. CASE Proof!Reject
    BY <1>1, <2>4 DEF Read, Proof!Reject, Proof!Throw
  <2> QED BY <2>1, <2>2, <2>3, <2>4
<1> QED BY <1>3, <1>4

\* What is left of a sequence when it is cut after its n-th element.
LEMMA CutIs ==
  ASSUME NEW s \in Seq(Nat), NEW n \in Nat, n <= Len(s)
  PROVE  /\ SubSeq(s, 1, n) \in Seq(Nat) /\ Len(SubSeq(s, 1, n)) = n
         /\ \A i \in 1..n : SubSeq(s, 1, n)[i] = s[i]
<1>1. /\ Len(s) \in Nat
      /\ \A i \in 1..n : s[i] \in Nat
  BY ElementOfSeq, LenProperties
<1>2. /\ SubSeq(s, 1, n) \in Seq(Nat)
      /\ Len(SubSeq(s, 1, n)) = IF 1 <= n THEN n - 1 + 1 ELSE 0
      /\ \A i \in 1 .. n - 1 + 1 : SubSeq(s, 1, n)[i] = s[1 + i - 1]
  BY <1>1, SubSeqProperties
<1>3. n - 1 + 1 = n /\ (\A i \in 1..n : 1 + i - 1 = i) /\ (1 <= n \/ n = 0)
  OBVIOUS
<1> QED BY <1>2, <1>3

\* What is left of the path and the canopy make up the whole path.
LEMMA PathIsComplete ==
  ASSUME Read, proofPc = "use"
  PROVE  /\ Len(Proof!RemainingAccounts(proof.path)) = tree.depth - tree.canopy
         /\ Proof!Complete(Proof!RemainingAccounts(proof.path))
<1> DEFINE rest == Proof!RemainingAccounts(proof.path)
<1>1. proof.path = [level \in 1..tree.depth |-> level] /\ canopy = tree.canopy
  BY DEF Read
<1>2. /\ tree.depth \in Nat /\ tree.canopy \in Nat /\ tree.canopy <= tree.depth
      /\ tree.depth - tree.canopy \in Nat
  BY TreesAssumption DEF Read
<1>3. proof.path \in Seq(Nat) /\ Len(proof.path) = tree.depth
  BY <1>1, <1>2
<1>4. rest = SubSeq(proof.path, 1, tree.depth - tree.canopy)
  BY <1>1, <1>3 DEF Proof!RemainingAccounts
<1> HIDE DEF rest
<1>5. /\ rest \in Seq(Nat) /\ Len(rest) = tree.depth - tree.canopy
      /\ \A i \in 1..(tree.depth - tree.canopy) : rest[i] = proof.path[i]
  <2>1. tree.depth - tree.canopy <= Len(proof.path)
    BY <1>2, <1>3
  <2> QED BY ONLY <1>2, <1>3, <1>4, <2>1, CutIs
<1>6. Len(rest) = tree.depth - tree.canopy /\ DOMAIN rest = 1..(tree.depth - tree.canopy)
  BY <1>5, LenProperties
<1>7. {rest[i] : i \in DOMAIN rest} = 1..(tree.depth - tree.canopy)
  <2>1. \A i \in 1..(tree.depth - tree.canopy) : i \in 1..tree.depth
    BY <1>2
  <2>2. \A i \in 1..(tree.depth - tree.canopy) : rest[i] = i
    BY <1>1, <1>5, <2>1
  <2> QED BY <1>6, <2>2
<1>8. 1..(tree.depth - tree.canopy) \cup ((tree.depth - tree.canopy + 1)..tree.depth)
        = 1..tree.depth
  BY <1>2
<1> QED BY <1>6, <1>7, <1>8 DEF rest, Proof!Complete, Proof!ToSet

LEMMA UseKeeps == ProofInv /\ Proof!Use => ProofInv'
<1> SUFFICES ASSUME ProofInv, Proof!Use PROVE ProofInv'
  OBVIOUS
<1> USE DEF ProofInv
<1> DEFINE rest == Proof!RemainingAccounts(proof.path)
           args == Proof!Args(asset.leafId)
<1>1. proofPc = "use" /\ used' = Len(log) /\ UNCHANGED <<tree, log, id, asset, proof, canopy>>
  BY DEF Proof!Use, Proof!Now
<1>2. Len(rest) = tree.depth - tree.canopy /\ Proof!Complete(rest)
  BY <1>1, PathIsComplete
<1>3. IF Len(rest) > MaxAccounts THEN proofPc' = "too large"
      ELSE \E b \in Proof!Accepts(args, rest) : proofPc' = IF b THEN "accepted" ELSE "rejected"
  BY DEF Proof!Use
<1>4. /\ args.index = id /\ args.content = asset.content /\ args.root = proof.version
      /\ proof.version \in Version /\ Len(log) \in Nat
  BY <1>1 DEF Read, Proof!Args
<1> HIDE DEF args, rest
<1>5. \A b \in Proof!Accepts(args, rest) :
        /\ b \in BOOLEAN
        /\ b => Proof!Matches(args)
        /\ ~b => ~Proof!Matches(args) \/ ~Proof!Remembered(args)
  BY <1>2 DEF Proof!Accepts
<1>6. Version' = Version /\ used' \in Version
  BY <1>1, <1>4 DEF Version
<1>7. proofPc' \in {"accepted", "rejected", "too large"}
  BY <1>3
<1>8. Read'
  BY <1>1, <1>6, <1>7 DEF Read
<1>9. Proof!Content(id, used)' = Proof!Content(id, Len(log))
      /\ (Proof!Redeemed(id, used)' <=> Proof!Redeemed(id, Len(log)))
  BY <1>1 DEF Proof!Content, Proof!Redeemed
<1>10. proofPc' = "too large" => tree.depth - tree.canopy > MaxAccounts
  BY <1>2, <1>3
<1>11. proofPc' = "accepted" => Proof!Matches(args)
  BY <1>3, <1>5
<1>12. proofPc' = "rejected" => ~Proof!Matches(args) \/ ~Proof!Remembered(args)
  BY <1>3, <1>5
<1>13. Proof!Matches(args) <=> /\ asset.content = Proof!Content(id, Len(log))
                               /\ ~Proof!Redeemed(id, Len(log))
  BY <1>4 DEF Proof!Matches, Proof!Now
<1>14. ~Proof!Remembered(args) => Len(log) - proof.version >= Buffer
  BY <1>4, ReadsAssumption DEF Proof!Remembered, Proof!Now, Version
<1>15. Proof!AcceptedAsRead'
  BY <1>1, <1>9, <1>11, <1>13 DEF Proof!AcceptedAsRead
<1>16. Proof!RefusedOnlyIfOvertaken'
  BY <1>1, <1>9, <1>10, <1>12, <1>13, <1>14 DEF Proof!RefusedOnlyIfOvertaken
<1> QED BY <1>8, <1>15, <1>16 DEF ReadsAreConsistent

LEMMA ProofStep == ProofInv /\ [Proof!Next]_(Proof!vars) => ProofInv'
<1> SUFFICES ASSUME ProofInv, [Proof!Next]_(Proof!vars) PROVE ProofInv'
  OBVIOUS
<1>1. CASE UNCHANGED Proof!vars
  BY <1>1 DEF ProofInv, Read, Version, ReadsAreConsistent, Proof!RefusedOnlyIfOvertaken,
     Proof!AcceptedAsRead, Proof!Content, Proof!Redeemed, Proof!vars, Proof!call
<1> QED BY <1>1, ChangeKeeps, ReadsKeep, UseKeeps DEF Proof!Next

\* For any trees, canopies, indexers and changes between the three reads: an instruction is
\* refused only if it was overtaken, and accepted only on the asset that was read
\* (proofArgsAndAccounts).
THEOREM ReadsHold == ClientSpec => []ReadsAreConsistent
<1>1. Proof!Init => ProofInv
  BY DEF Proof!Init, ProofInv, Read, ReadsAreConsistent, Proof!RefusedOnlyIfOvertaken,
     Proof!AcceptedAsRead
<1>2. ProofInv => ReadsAreConsistent
  BY DEF ProofInv
<1> QED BY <1>1, <1>2, ProofStep, ClientIsProof, PTL DEF Proof!Spec

-----------------------------------------------------------------------------
(* accountsResolver *)

Programs == Resolution!HeliumCommon \cup {"circuitBreakerProgram"}

\* Whether a resolver of the client knows a program of this name.
Offered(p) ==
  \E r \in Resolution!ToSet(Resolution!Resolvers) :
    Resolution!Name(p) \in (IF r = "heliumCommon" THEN Resolution!HeliumCommon ELSE {r})

AtaOf(p, mint, owner) ==
  /\ {mint, owner} \subseteq Resolution!Named(accounts)
  /\ accounts[p] = <<"ata", accounts[mint], accounts[owner]>>

\* An account that a resolver has added is what is meant, as the accounts it follows from do
\* not change any more.
Sound(p) ==
  /\ p = <<"recipient">> => accounts[p] = <<"wallet">>
  /\ p = <<"recipientTokenAccount">> => AtaOf(p, <<"rcMint">>, <<"recipient">>)
  /\ p = <<"burner">> => AtaOf(p, <<"rndrMint">>, <<"owner">>)
  /\ Resolution!Name(p) \in Programs =>
       accounts[p] = <<"program", Resolution!Name(p)>> /\ Offered(p)

\* The k-th resolver was asked for account j in this pass.
Asked(k, j) == k < resolver \/ (k = resolver /\ j < account)

\* The k-th resolver does not know account j.
Fruitless(k, j) ==
  LET p == instruction.accounts[j] IN
  accounts[p] = Resolution!None =>
    Resolution!Resolve(Resolution!Resolvers[k], p, accounts) = Resolution!None

Underivable ==
  \A p \in Resolution!Paths :
    accounts[p] = Resolution!None => ~Resolution!Derivable(accounts, p)

\* A pass that has added nothing so far has found nothing among what it has asked.
ResolutionInv ==
  /\ instruction \in Instructions /\ wallet \in BOOLEAN
  /\ resolverPc \in {"derive", "resolve", "done"}
  /\ resolver \in Nat \ {0} /\ account \in Nat \ {0} /\ resolved \in Nat
  /\ accounts = [p \in Resolution!Paths |-> accounts[p]]
  /\ \A p \in Resolution!Paths :
       given[p] = Resolution!None /\ accounts[p] # Resolution!None
         /\ p \notin DOMAIN instruction.derived => Sound(p)
  /\ resolverPc = "resolve" /\ resolved = 0 =>
       /\ Underivable
       /\ \A k \in DOMAIN Resolution!Resolvers, j \in DOMAIN instruction.accounts :
            Asked(k, j) => Fruitless(k, j)
  /\ resolverPc = "done" =>
       /\ Underivable
       /\ \A k \in DOMAIN Resolution!Resolvers, j \in DOMAIN instruction.accounts : Fruitless(k, j)

LEMMA RenderCreditsResolversAre ==
  Resolution!RenderCreditsResolvers =
    <<"circuitBreakerProgram", "recipientTokenAccount", "burner", "recipient">>
<1> DEFINE Names == {"circuitBreakerProgram", "recipientTokenAccount", "burner", "recipient"}
           s == <<"circuitBreakerProgram">>
           t == <<"recipientTokenAccount", "burner", "recipient">>
           st == <<"circuitBreakerProgram", "recipientTokenAccount", "burner", "recipient">>
<1>1. s \in Seq(Names) /\ t \in Seq(Names) /\ Len(s) = 1 /\ Len(t) = 3
  OBVIOUS
<1>2. /\ s \o t \in Seq(Names) /\ Len(s \o t) = 4
      /\ \A i \in 1..4 : (s \o t)[i] = IF i <= 1 THEN s[i] ELSE t[i - 1]
  BY <1>1, ConcatProperties
<1>3. st \in Seq(Names) /\ Len(st) = 4
  OBVIOUS
<1>4. \A i \in 1..4 : (s \o t)[i] = st[i]
  BY <1>2, 1..4 = {1, 2, 3, 4}
<1>5. s \o t = st
  BY <1>2, <1>3, <1>4, SeqEqual
<1> QED BY <1>5 DEF Resolution!RenderCreditsResolvers, Resolution!CircuitBreakerResolvers

LEMMA ResolversAre ==
  ASSUME instruction \in Instructions
  PROVE  Resolution!Resolvers \in
           {<<"circuitBreakerProgram">>,
            <<"circuitBreakerProgram", "recipientTokenAccount", "burner", "recipient">>,
            <<>>, <<"heliumCommon">>}
<1>1. instruction.client \in {"circuitBreaker", "renderCredits", "emissionSchedule", "common"}
  BY AccountsAssumption DEF Resolution!Clients
<1> QED BY RenderCreditsResolversAre, <1>1 DEF Resolution!Resolvers, Resolution!Clients,
        Resolution!CircuitBreakerResolvers, Resolution!EmissionScheduleResolvers

LEMMA ResolverNames ==
  ASSUME instruction \in Instructions
  PROVE  /\ DOMAIN Resolution!Resolvers = 1..Len(Resolution!Resolvers)
         /\ Len(Resolution!Resolvers) \in Nat
         /\ \A k \in DOMAIN Resolution!Resolvers : Resolution!Resolvers[k] \in
              {"circuitBreakerProgram", "recipientTokenAccount", "burner", "recipient",
               "heliumCommon"}
<1> DEFINE Names == {"circuitBreakerProgram", "recipientTokenAccount", "burner", "recipient",
                     "heliumCommon"}
<1>1. /\ <<"circuitBreakerProgram">> \in Seq(Names)
      /\ <<"circuitBreakerProgram", "recipientTokenAccount", "burner", "recipient">> \in Seq(Names)
      /\ <<>> \in Seq(Names) /\ <<"heliumCommon">> \in Seq(Names)
  OBVIOUS
<1>2. Resolution!Resolvers \in Seq(Names)
  BY <1>1, ResolversAre
<1> QED BY <1>2

LEMMA ResolversOfAPurchase ==
  ASSUME instruction \in Instructions, instruction.name = "mintRenderCreditsV0"
  PROVE  Resolution!Resolvers =
           <<"circuitBreakerProgram", "recipientTokenAccount", "burner", "recipient">>
BY RenderCreditsResolversAre, AccountsAssumption DEF Resolution!Resolvers, Resolution!Clients

LEMMA NamesOfPaths ==
  /\ Resolution!Name(<<"recipient">>) = "recipient"
  /\ Resolution!Name(<<"recipientTokenAccount">>) = "recipientTokenAccount"
  /\ Resolution!Name(<<"burner">>) = "burner"
  /\ {"recipient", "recipientTokenAccount", "burner"} \cap Programs = {}
BY DEF Resolution!Name, Resolution!Last, Programs, Resolution!HeliumCommon

\* What each of the resolvers answers.
LEMMA ResolveIs ==
  ASSUME NEW p, NEW a
  PROVE  /\ Resolution!Resolve("circuitBreakerProgram", p, a) =
              IF Resolution!Name(p) = "circuitBreakerProgram"
              THEN <<"program", "circuitBreakerProgram">> ELSE Resolution!None
         /\ Resolution!Resolve("recipientTokenAccount", p, a) =
              Resolution!AtaResolver("mintRenderCreditsV0", <<"recipientTokenAccount">>,
                                     <<"rcMint">>, <<"recipient">>, p, a)
         /\ Resolution!Resolve("burner", p, a) =
              Resolution!AtaResolver("mintRenderCreditsV0", <<"burner">>,
                                     <<"rndrMint">>, <<"owner">>, p, a)
         /\ Resolution!Resolve("recipient", p, a) =
              IF /\ Resolution!Name(p) = "recipient" /\ Resolution!Get(a, <<"recipient">>) = Resolution!None
                 /\ wallet
              THEN <<"wallet">> ELSE Resolution!None
         /\ Resolution!Resolve("heliumCommon", p, a) =
              IF Resolution!Name(p) \in Resolution!HeliumCommon
              THEN <<"program", Resolution!Name(p)>> ELSE Resolution!None
<1>1. Resolution!Resolve("circuitBreakerProgram", p, a) =
        IF Resolution!Name(p) = "circuitBreakerProgram"
        THEN <<"program", "circuitBreakerProgram">> ELSE Resolution!None
  BY DEF Resolution!Resolve
<1>2. Resolution!Resolve("recipientTokenAccount", p, a) =
        Resolution!AtaResolver("mintRenderCreditsV0", <<"recipientTokenAccount">>,
                               <<"rcMint">>, <<"recipient">>, p, a)
  BY DEF Resolution!Resolve
<1>3. Resolution!Resolve("burner", p, a) =
        Resolution!AtaResolver("mintRenderCreditsV0", <<"burner">>,
                               <<"rndrMint">>, <<"owner">>, p, a)
  BY DEF Resolution!Resolve
<1>4. Resolution!Resolve("recipient", p, a) =
        IF /\ Resolution!Name(p) = "recipient" /\ Resolution!Get(a, <<"recipient">>) = Resolution!None
           /\ wallet
        THEN <<"wallet">> ELSE Resolution!None
  BY DEF Resolution!Resolve
<1>5. Resolution!Resolve("heliumCommon", p, a) =
        IF Resolution!Name(p) \in Resolution!HeliumCommon
        THEN <<"program", Resolution!Name(p)>> ELSE Resolution!None
  BY DEF Resolution!Resolve
<1> QED BY <1>1, <1>2, <1>3, <1>4, <1>5

LEMMA ResolutionInit == Resolution!Init => ResolutionInv
<1> SUFFICES ASSUME Resolution!Init PROVE ResolutionInv
  OBVIOUS
<1>1. accounts = given /\ resolverPc = "derive" /\ resolver = 1 /\ account = 1 /\ resolved = 0
  BY DEF Resolution!Init
<1>2. instruction \in Instructions /\ wallet \in BOOLEAN
  BY DEF Resolution!Init
<1>3. given = [p \in Resolution!Paths |-> given[p]]
  BY DEF Resolution!Init
<1> QED BY <1>1, <1>2, <1>3 DEF ResolutionInv

\* What follows from accounts there are stays so when only accounts are added.
LEMMA SoundStays ==
  ASSUME UNCHANGED <<instruction, given, wallet>>,
         accounts = [q \in Resolution!Paths |-> accounts[q]],
         accounts' = [q \in Resolution!Paths |-> accounts'[q]],
         \A q \in Resolution!Paths : accounts[q] # Resolution!None => accounts'[q] = accounts[q],
         NEW p \in Resolution!Paths, accounts[p] # Resolution!None, Sound(p)
  PROVE  Sound(p)'
<1>1. accounts'[p] = accounts[p]
  OBVIOUS
<1>2. ASSUME NEW m, NEW o, AtaOf(p, m, o) PROVE AtaOf(p, m, o)'
  <2>1. /\ m \in Resolution!Paths /\ accounts[m] # Resolution!None
        /\ o \in Resolution!Paths /\ accounts[o] # Resolution!None
    BY <1>2 DEF AtaOf, Resolution!Named
  <2>2. accounts'[m] = accounts[m] /\ accounts'[o] = accounts[o]
    BY <2>1
  <2>3. {m, o} \subseteq Resolution!Named(accounts')
    BY <2>1, <2>2 DEF Resolution!Named
  <2> QED BY <1>1, <1>2, <2>2, <2>3 DEF AtaOf
<1>3. Offered(p) => Offered(p)'
  BY DEF Offered, Resolution!Resolvers
<1> HIDE DEF AtaOf
<1> QED BY <1>1, <1>2, <1>3 DEF Sound

\* Anchor's own step adds accounts with seeds, or none and then there are none to add.
LEMMA DeriveKeeps == ResolutionInv /\ Resolution!Derive => ResolutionInv'
<1> SUFFICES ASSUME ResolutionInv, Resolution!Derive PROVE ResolutionInv'
  OBVIOUS
<1> DEFINE new == {p \in Resolution!Paths : accounts[p] = Resolution!None
                                              /\ Resolution!Derivable(accounts, p)}
<1>1. /\ accounts' = [p \in Resolution!Paths |->
                        IF p \in new THEN Resolution!Derived(p) ELSE accounts[p]]
      /\ resolved' = IF new = {} THEN 0 ELSE 1
      /\ resolverPc' = "resolve" /\ resolver' = 1 /\ account' = 1
      /\ UNCHANGED <<instruction, given, wallet>>
  BY DEF Resolution!Derive, Resolution!call
<1>2. Resolution!Paths' = Resolution!Paths /\ Resolution!Resolvers' = Resolution!Resolvers
  BY <1>1 DEF Resolution!Paths, Resolution!Resolvers, Resolution!ToSet
<1>3. accounts = [p \in Resolution!Paths |-> accounts[p]]
  BY DEF ResolutionInv
<1>4. new \subseteq DOMAIN instruction.derived
  BY DEF Resolution!Derivable
<1>5. new = {} => accounts' = accounts /\ Underivable
  BY <1>1, <1>3 DEF Underivable
<1>6. \A p \in Resolution!Paths : accounts[p] # Resolution!None => p \notin new
  OBVIOUS
<1> HIDE DEF new
<1>7. accounts' = [p \in Resolution!Paths |-> accounts'[p]]
  BY <1>1
<1>8. \A p \in Resolution!Paths : p \in new \/ accounts'[p] = accounts[p]
  BY <1>1
<1>9. ASSUME NEW p \in Resolution!Paths', given'[p] = Resolution!None,
             accounts'[p] # Resolution!None, p \notin DOMAIN instruction'.derived
      PROVE  Sound(p)'
  <2>1. p \notin new /\ accounts'[p] = accounts[p]
    BY <1>1, <1>2, <1>4, <1>8, <1>9
  <2>2. Sound(p)
    BY <1>1, <1>2, <1>9, <2>1 DEF ResolutionInv
  <2> QED BY <1>1, <1>2, <1>3, <1>6, <1>7, <1>8, <1>9, <2>1, <2>2, SoundStays
<1>10. resolved' = 0 => Underivable'
  BY <1>1, <1>2, <1>5 DEF Underivable, Resolution!Derivable, Resolution!Named
<1>11. \A k \in DOMAIN Resolution!Resolvers', j \in DOMAIN instruction'.accounts : ~Asked(k, j)'
  <2>1. DOMAIN Resolution!Resolvers \subseteq Nat \ {0}
    BY ResolversAre DEF ResolutionInv
  <2>2. DOMAIN instruction.accounts \subseteq Nat \ {0}
    BY AccountsAssumption DEF ResolutionInv
  <2> QED BY <1>1, <1>2, <2>1, <2>2 DEF Asked
<1>12. /\ instruction' \in Instructions /\ wallet' \in BOOLEAN /\ resolverPc' = "resolve"
       /\ resolver' \in Nat \ {0} /\ account' \in Nat \ {0} /\ resolved' \in Nat
  BY <1>1 DEF ResolutionInv
<1>13. accounts' = [p \in Resolution!Paths' |-> accounts'[p]]
  BY <1>2, <1>7
<1> QED BY <1>9, <1>10, <1>11, <1>12, <1>13 DEF ResolutionInv

\* What a resolver adds follows from the accounts there are.
LEMMA AddedIsSound ==
  ASSUME instruction \in Instructions, UNCHANGED <<instruction, given, wallet>>,
         accounts = [q \in Resolution!Paths |-> accounts[q]],
         NEW k \in DOMAIN Resolution!Resolvers, NEW p \in Resolution!Paths,
         NEW r, r = Resolution!Resolvers[k],
         accounts[p] = Resolution!None, Resolution!Resolve(r, p, accounts) # Resolution!None,
         accounts' = [accounts EXCEPT ![p] = Resolution!Resolve(r, p, accounts)]
  PROVE  Sound(p)'
<1>1. r \in {"circuitBreakerProgram", "recipientTokenAccount", "burner", "recipient",
             "heliumCommon"}
  BY ResolverNames
<1>2. accounts'[p] = Resolution!Resolve(r, p, accounts)
  OBVIOUS
<1>3. r \in Resolution!ToSet(Resolution!Resolvers)' /\ Resolution!Name(p)' = Resolution!Name(p)
  BY DEF Resolution!ToSet, Resolution!Resolvers, Resolution!Name
<1>4. \A q \in Resolution!Paths : accounts[q] # Resolution!None => accounts'[q] = accounts[q]
  OBVIOUS
<1>5. DOMAIN accounts' = Resolution!Paths /\ DOMAIN accounts = Resolution!Paths
  OBVIOUS
<1>6. ASSUME NEW m, NEW o, NEW name, NEW path,
             Resolution!Resolve(r, p, accounts)
               = Resolution!AtaResolver(name, path, m, o, p, accounts)
      PROVE  p = path /\ AtaOf(p, m, o)'
  <2>1. /\ p = path /\ Resolution!Get(accounts, m) # Resolution!None
        /\ Resolution!Get(accounts, o) # Resolution!None
        /\ accounts'[p] = <<"ata", Resolution!Get(accounts, m), Resolution!Get(accounts, o)>>
    BY <1>2, <1>6, Zenon DEF Resolution!AtaResolver
  <2>2. /\ m \in Resolution!Paths /\ accounts[m] # Resolution!None
        /\ o \in Resolution!Paths /\ accounts[o] # Resolution!None
        /\ Resolution!Get(accounts, m) = accounts[m] /\ Resolution!Get(accounts, o) = accounts[o]
    BY <1>5, <2>1 DEF Resolution!Get
  <2>3. accounts'[m] = accounts[m] /\ accounts'[o] = accounts[o]
    BY <1>4, <2>2
  <2>4. {m, o} \subseteq Resolution!Named(accounts')
    BY <1>5, <2>2, <2>3 DEF Resolution!Named
  <2> QED BY <2>1, <2>2, <2>3, <2>4 DEF AtaOf
<1>7. CASE r = "circuitBreakerProgram"
  <2>1. /\ Resolution!Name(p) = "circuitBreakerProgram"
        /\ accounts'[p] = <<"program", "circuitBreakerProgram">>
    BY <1>2, <1>7, ResolveIs, Zenon
  <2>2. Offered(p)'
    BY <1>3, <1>7, <2>1 DEF Offered
  <2> QED BY <1>3, <2>1, <2>2, NamesOfPaths DEF Sound
<1>8. CASE r = "recipientTokenAccount"
  <2>1. p = <<"recipientTokenAccount">> /\ AtaOf(p, <<"rcMint">>, <<"recipient">>)'
    BY <1>6, <1>8, ResolveIs
  <2> QED BY <1>3, <2>1, NamesOfPaths DEF Sound
<1>9. CASE r = "burner"
  <2>1. p = <<"burner">> /\ AtaOf(p, <<"rndrMint">>, <<"owner">>)'
    BY <1>6, <1>9, ResolveIs
  <2> QED BY <1>3, <2>1, NamesOfPaths DEF Sound
<1>10. CASE r = "recipient"
  <2>1. Resolution!Name(p) = "recipient" /\ accounts'[p] = <<"wallet">>
    BY <1>2, <1>10, ResolveIs, Zenon
  <2> QED BY <1>3, <2>1, NamesOfPaths DEF Sound
<1>11. CASE r = "heliumCommon"
  <2>1. /\ Resolution!Name(p) \in Resolution!HeliumCommon
        /\ accounts'[p] = <<"program", Resolution!Name(p)>>
    BY <1>2, <1>11, ResolveIs, Zenon
  <2>2. Offered(p)'
    BY <1>3, <1>11, <2>1 DEF Offered, Resolution!HeliumCommon
  <2> QED BY <1>3, <2>1, <2>2, NamesOfPaths DEF Sound, Programs
<1> QED BY <1>1, <1>7, <1>8, <1>9, <1>10, <1>11

LEMMA IndividualKeeps == ResolutionInv /\ Resolution!ResolveIndividual => ResolutionInv'
<1> SUFFICES ASSUME ResolutionInv, Resolution!ResolveIndividual PROVE ResolutionInv'
  OBVIOUS
<1> PICK p, r, value : /\ p = instruction.accounts[account]
                      /\ r = Resolution!Resolvers[resolver]
                      /\ value = Resolution!Value(r, p)
  OBVIOUS
<1>1. /\ resolverPc = "resolve" /\ resolver <= Len(Resolution!Resolvers)
      /\ account <= Len(instruction.accounts)
      /\ accounts' = Resolution!Set(accounts, p, value)
      /\ resolved' = resolved + Resolution!Count(p, value)
      /\ account' = account + 1
      /\ UNCHANGED <<instruction, given, wallet, resolverPc, resolver>>
  BY DEF Resolution!ResolveIndividual, Resolution!call
<1>2. /\ resolver \in Nat \ {0} /\ account \in Nat \ {0} /\ resolved \in Nat
      /\ instruction \in Instructions /\ wallet \in BOOLEAN
      /\ accounts = [q \in Resolution!Paths |-> accounts[q]]
  BY DEF ResolutionInv
<1>3. resolver \in DOMAIN Resolution!Resolvers /\ DOMAIN Resolution!Resolvers \subseteq Nat
  BY <1>1, <1>2, ResolversAre
<1>4. account \in DOMAIN instruction.accounts /\ DOMAIN instruction.accounts \subseteq Nat
  BY <1>1, <1>2
<1>5. p \in Resolution!Paths
  BY <1>4 DEF Resolution!Paths, Resolution!ToSet
<1>6. Resolution!Paths' = Resolution!Paths /\ Resolution!Resolvers' = Resolution!Resolvers
  BY <1>1 DEF Resolution!Paths, Resolution!Resolvers, Resolution!ToSet
<1>7. CASE accounts[p] # Resolution!None \/ Resolution!Resolve(r, p, accounts) = Resolution!None
  <2>1. value = accounts[p]
    BY <1>7, Zenon DEF Resolution!Value
  <2>2. accounts' = accounts
    BY <1>1, <1>2, <1>5, <2>1 DEF Resolution!Set
  <2>3. resolved' = resolved
    BY <1>1, <1>2, <2>1 DEF Resolution!Count
  <2>4. Fruitless(resolver, account)
    BY <1>7 DEF Fruitless
  <2>5. \A k, j : Fruitless(k, j)' <=> Fruitless(k, j)
    BY <1>1, <1>6, <2>2 DEF Fruitless, Resolution!Resolve, Resolution!AtaResolver
  <2>6. Underivable' <=> Underivable
    BY <1>1, <1>6, <2>2 DEF Underivable, Resolution!Derivable
  <2>7. \A k \in Nat, j \in Nat : Asked(k, j)' => Asked(k, j) \/ (k = resolver /\ j = account)
    BY <1>1, <1>2 DEF Asked
  <2>8. \A q : Sound(q)' <=> Sound(q)
    BY <1>1, <1>6, <2>2 DEF Sound, AtaOf, Offered
  <2>9. resolved = 0 =>
          /\ Underivable
          /\ \A k \in DOMAIN Resolution!Resolvers, j \in DOMAIN instruction.accounts :
               Asked(k, j)' => Fruitless(k, j)
    BY <1>1, <1>3, <1>4, <2>4, <2>7 DEF ResolutionInv
  <2> QED BY <1>1, <1>2, <1>6, <2>2, <2>3, <2>5, <2>6, <2>8, <2>9 DEF ResolutionInv
<1>8. CASE accounts[p] = Resolution!None /\ Resolution!Resolve(r, p, accounts) # Resolution!None
  <2>1. value = Resolution!Resolve(r, p, accounts)
    BY <1>8, Zenon DEF Resolution!Value
  <2>2. accounts' = [accounts EXCEPT ![p] = Resolution!Resolve(r, p, accounts)]
    BY <1>1, <1>8, <2>1, Zenon DEF Resolution!Set
  <2>3. resolved' = resolved + 1
    BY <1>1, <1>8, <2>1, Zenon DEF Resolution!Count
  <2>4. accounts' = [q \in Resolution!Paths |-> accounts'[q]]
    BY <1>2, <2>2
  <2>5. Sound(p)'
    BY <1>1, <1>2, <1>3, <1>5, <1>8, <2>2, AddedIsSound
  <2>6. \A q \in Resolution!Paths : accounts[q] # Resolution!None => accounts'[q] = accounts[q]
    BY <1>2, <1>8, <2>2
  <2>7. \A q \in Resolution!Paths : q # p => accounts'[q] = accounts[q]
    BY <1>2, <2>2
  <2>8. ASSUME NEW q \in Resolution!Paths, given[q] = Resolution!None, q # p,
               accounts[q] # Resolution!None, q \notin DOMAIN instruction.derived
        PROVE  Sound(q)'
    <3>1. Sound(q)
      BY <2>8 DEF ResolutionInv
    <3> QED BY <1>1, <1>2, <2>4, <2>6, <2>8, <3>1, SoundStays
  <2>9. \A q \in Resolution!Paths' :
          given'[q] = Resolution!None /\ accounts'[q] # Resolution!None
            /\ q \notin DOMAIN instruction'.derived => Sound(q)'
    <3> SUFFICES ASSUME NEW q \in Resolution!Paths, given[q] = Resolution!None,
                        accounts'[q] # Resolution!None, q \notin DOMAIN instruction.derived
                 PROVE  Sound(q)'
      BY <1>1, <1>6
    <3>1. CASE q = p
      BY <2>5, <3>1
    <3> QED BY <2>7, <2>8, <3>1
  <2>10. resolved' # 0 /\ resolved' \in Nat /\ account' \in Nat \ {0}
    BY <1>1, <1>2, <2>3
  <2> QED BY <1>1, <1>2, <1>6, <2>4, <2>9, <2>10 DEF ResolutionInv
<1> QED BY <1>7, <1>8

LEMMA NextResolverKeeps == ResolutionInv /\ Resolution!NextResolver => ResolutionInv'
<1> SUFFICES ASSUME ResolutionInv, Resolution!NextResolver PROVE ResolutionInv'
  OBVIOUS
<1>1. /\ resolverPc = "resolve" /\ account > Len(instruction.accounts)
      /\ resolver' = resolver + 1 /\ account' = 1
      /\ UNCHANGED <<instruction, given, wallet, accounts, resolverPc, resolved>>
  BY DEF Resolution!NextResolver, Resolution!call
<1>2. Resolution!Paths' = Resolution!Paths /\ Resolution!Resolvers' = Resolution!Resolvers
  BY <1>1 DEF Resolution!Paths, Resolution!Resolvers, Resolution!ToSet
<1>3. DOMAIN Resolution!Resolvers \subseteq Nat
  BY ResolverNames DEF ResolutionInv
<1>4. DOMAIN instruction.accounts = 1..Len(instruction.accounts) /\ Len(instruction.accounts) \in Nat
  BY DEF ResolutionInv
<1>5. \A k \in DOMAIN Resolution!Resolvers, j \in DOMAIN instruction.accounts :
        Asked(k, j)' => Asked(k, j)
  BY <1>1, <1>3, <1>4 DEF Asked, ResolutionInv
<1>6. /\ \A k, j : Fruitless(k, j)' <=> Fruitless(k, j)
      /\ Underivable' <=> Underivable
  BY <1>1, <1>2 DEF Fruitless, Underivable, Resolution!Derivable, Resolution!Resolve,
     Resolution!AtaResolver
<1>7. \A q : Sound(q)' <=> Sound(q)
  BY <1>1, <1>2 DEF Sound, AtaOf, Offered
<1>8. resolver' \in Nat \ {0} /\ account' \in Nat \ {0}
  BY <1>1 DEF ResolutionInv
<1> QED BY <1>1, <1>2, <1>5, <1>6, <1>7, <1>8 DEF ResolutionInv

LEMMA ReturnKeeps == ResolutionInv /\ Resolution!Return => ResolutionInv'
<1> SUFFICES ASSUME ResolutionInv, Resolution!Return PROVE ResolutionInv'
  OBVIOUS
<1>1. /\ resolverPc = "resolve" /\ resolver > Len(Resolution!Resolvers)
      /\ resolverPc' = IF resolved > 0 THEN "derive" ELSE "done"
      /\ UNCHANGED <<instruction, given, wallet, accounts, resolver, account, resolved>>
  BY DEF Resolution!Return, Resolution!call
<1>2. Resolution!Paths' = Resolution!Paths /\ Resolution!Resolvers' = Resolution!Resolvers
  BY <1>1 DEF Resolution!Paths, Resolution!Resolvers, Resolution!ToSet
<1>3. \A k \in DOMAIN Resolution!Resolvers : \A j : Asked(k, j)
  BY <1>1, ResolversAre DEF Asked, ResolutionInv
<1>4. /\ \A k, j : Fruitless(k, j)' <=> Fruitless(k, j)
      /\ Underivable' <=> Underivable
  BY <1>1, <1>2 DEF Fruitless, Underivable, Resolution!Derivable, Resolution!Resolve,
     Resolution!AtaResolver
<1>5. \A q : Sound(q)' <=> Sound(q)
  BY <1>1, <1>2 DEF Sound, AtaOf, Offered
<1>6. resolverPc' = "done" => resolved = 0
  BY <1>1 DEF ResolutionInv
<1>7. resolverPc' \in {"derive", "done"}
  BY <1>1
<1> QED BY <1>1, <1>2, <1>3, <1>4, <1>5, <1>6, <1>7 DEF ResolutionInv

LEMMA ResolutionStep == ResolutionInv /\ [Resolution!Next]_(Resolution!vars) => ResolutionInv'
<1> SUFFICES ASSUME ResolutionInv, UNCHANGED Resolution!vars PROVE ResolutionInv'
  BY DeriveKeeps, IndividualKeeps, NextResolverKeeps, ReturnKeeps DEF Resolution!Next
<1>1. UNCHANGED <<instruction, given, wallet, accounts, resolverPc, resolver, account, resolved>>
  BY DEF Resolution!vars, Resolution!call
<1>2. Resolution!Paths' = Resolution!Paths /\ Resolution!Resolvers' = Resolution!Resolvers
  BY <1>1 DEF Resolution!Paths, Resolution!Resolvers, Resolution!ToSet
<1>3. /\ \A k, j : (Fruitless(k, j)' <=> Fruitless(k, j)) /\ (Asked(k, j)' <=> Asked(k, j))
      /\ Underivable' <=> Underivable
  BY <1>1, <1>2 DEF Fruitless, Asked, Underivable, Resolution!Derivable, Resolution!Resolve,
     Resolution!AtaResolver
<1>4. \A q : Sound(q)' <=> Sound(q)
  BY <1>1, <1>2 DEF Sound, AtaOf, Offered
<1> QED BY <1>1, <1>2, <1>3, <1>4 DEF ResolutionInv

\* At the end no resolver knows anything of an account that is not there.
LEMMA NothingLeft ==
  ASSUME ResolutionInv, resolverPc = "done", NEW p \in Resolution!Paths,
         accounts[p] = Resolution!None
  PROVE  /\ ~Resolution!Derivable(accounts, p)
         /\ \A r \in Resolution!ToSet(Resolution!Resolvers) :
              Resolution!Resolve(r, p, accounts) = Resolution!None
<1>1. PICK j \in DOMAIN instruction.accounts : instruction.accounts[j] = p
  BY DEF Resolution!Paths, Resolution!ToSet
<1>2. \A k \in DOMAIN Resolution!Resolvers :
        Resolution!Resolve(Resolution!Resolvers[k], p, accounts) = Resolution!None
  BY <1>1 DEF ResolutionInv, Fruitless
<1>3. ~Resolution!Derivable(accounts, p)
  BY DEF ResolutionInv, Underivable
<1> QED BY <1>2, <1>3 DEF Resolution!ToSet

LEMMA MeantIsFound ==
  ASSUME ResolutionInv, resolverPc = "done", NEW p \in Resolution!Paths,
         given[p] = Resolution!None,
         instruction.name = "mintRenderCreditsV0" \/ Resolution!Name(p) # "burner"
  PROVE  Resolution!Meant(p)
<1>1. /\ instruction \in Instructions /\ wallet \in BOOLEAN
      /\ DOMAIN accounts = Resolution!Paths
  BY DEF ResolutionInv
<1>2. accounts[p] # Resolution!None /\ p \notin DOMAIN instruction.derived => Sound(p)
  BY DEF ResolutionInv
<1>3. \A q \in Resolution!Named(accounts) : q \in Resolution!Paths /\ accounts[q] # Resolution!None
                                            /\ Resolution!Get(accounts, q) = accounts[q]
  BY <1>1 DEF Resolution!Named, Resolution!Get
<1>4. p \in {<<"recipient">>, <<"recipientTokenAccount">>, <<"burner">>} =>
        /\ Resolution!Resolvers =
             <<"circuitBreakerProgram", "recipientTokenAccount", "burner", "recipient">>
        /\ p \notin DOMAIN instruction.derived
        /\ instruction.name = "mintRenderCreditsV0"
  <2>1. p \in {<<"recipient">>, <<"recipientTokenAccount">>} => instruction.name = "mintRenderCreditsV0"
    BY <1>1, AccountsAssumption DEF Resolution!Paths, Resolution!ToSet
  <2>2. p = <<"burner">> => instruction.name = "mintRenderCreditsV0"
    BY NamesOfPaths
  <2>3. p \in {<<"recipient">>, <<"recipientTokenAccount">>, <<"burner">>} =>
          p \notin DOMAIN instruction.derived
    BY <1>1, AccountsAssumption
  <2> QED BY <1>1, <2>1, <2>2, <2>3, ResolversOfAPurchase
<1>5. Resolution!Derivable(accounts, p) => accounts[p] # Resolution!None
  BY NothingLeft
<1>6. CASE p = <<"recipient">>
  <2>1. wallet => accounts[p] # Resolution!None
    <3> SUFFICES ASSUME wallet, accounts[p] = Resolution!None PROVE FALSE
      OBVIOUS
    <3>1. "recipient" \in Resolution!ToSet(Resolution!Resolvers)
      BY <1>4, <1>6 DEF Resolution!ToSet
    <3>2. Resolution!Resolve("recipient", p, accounts) = Resolution!None
      BY <3>1, NothingLeft
    <3>3. Resolution!Get(accounts, <<"recipient">>) = Resolution!None
      BY <1>1, <1>6 DEF Resolution!Get
    <3>4. Resolution!Resolve("recipient", p, accounts) = <<"wallet">>
      BY <1>6, <3>3, ResolveIs, NamesOfPaths
    <3> QED BY <3>2, <3>4 DEF Resolution!None
  <2>2. accounts[p] # Resolution!None => accounts[p] = <<"wallet">>
    BY <1>2, <1>4, <1>6 DEF Sound
  <2>3. wallet => accounts[p] = <<"wallet">>
    BY <2>1, <2>2
  <2> QED BY <1>6, <1>5, <2>3, NamesOfPaths DEF Resolution!Meant, Programs
<1>7. ASSUME NEW m, NEW o, accounts[p] = Resolution!None,
             NEW r \in Resolution!ToSet(Resolution!Resolvers),
             Resolution!Resolve(r, p, accounts)
               = Resolution!AtaResolver("mintRenderCreditsV0", p, m, o, p, accounts),
             {m, o} \subseteq Resolution!Named(accounts),
             instruction.name = "mintRenderCreditsV0"
      PROVE  FALSE
  <2>1. Resolution!Resolve(r, p, accounts) = Resolution!None
    BY <1>7, NothingLeft
  <2>2. Resolution!Resolve(r, p, accounts) = <<"ata", accounts[m], accounts[o]>>
    BY <1>3, <1>7 DEF Resolution!AtaResolver
  <2> QED BY <2>1, <2>2 DEF Resolution!None
<1>8. CASE p = <<"recipientTokenAccount">>
  <2>1. accounts[p] # Resolution!None => AtaOf(p, <<"rcMint">>, <<"recipient">>)
    BY <1>2, <1>4, <1>8 DEF Sound
  <2>2. {<<"rcMint">>, <<"recipient">>} \subseteq Resolution!Named(accounts)
          => accounts[p] # Resolution!None
    <3>1. "recipientTokenAccount" \in Resolution!ToSet(Resolution!Resolvers)
      BY <1>4, <1>8 DEF Resolution!ToSet
    <3>2. Resolution!Resolve("recipientTokenAccount", p, accounts)
            = Resolution!AtaResolver("mintRenderCreditsV0", p, <<"rcMint">>, <<"recipient">>, p, accounts)
      BY <1>8, ResolveIs
    <3> QED BY <1>4, <1>7, <1>8, <3>1, <3>2
  <2> QED BY <1>8, <1>5, <2>1, <2>2, NamesOfPaths
      DEF Resolution!Meant, Resolution!AtaIsMeant, AtaOf, Programs
<1>9. CASE p = <<"burner">>
  <2>1. accounts[p] # Resolution!None => AtaOf(p, <<"rndrMint">>, <<"owner">>)
    BY <1>2, <1>4, <1>9 DEF Sound
  <2>2. {<<"rndrMint">>, <<"owner">>} \subseteq Resolution!Named(accounts)
          => accounts[p] # Resolution!None
    <3>1. "burner" \in Resolution!ToSet(Resolution!Resolvers)
      BY <1>4, <1>9 DEF Resolution!ToSet
    <3>2. Resolution!Resolve("burner", p, accounts)
            = Resolution!AtaResolver("mintRenderCreditsV0", p, <<"rndrMint">>, <<"owner">>, p, accounts)
      BY <1>9, ResolveIs
    <3> QED BY <1>4, <1>7, <1>9, <3>1, <3>2
  <2> QED BY <1>9, <1>5, <2>1, <2>2, NamesOfPaths
      DEF Resolution!Meant, Resolution!AtaIsMeant, AtaOf, Programs
<1>10. CASE Resolution!Name(p) \in Programs
  <2>1. p \notin DOMAIN instruction.derived
    BY <1>1, <1>10, AccountsAssumption DEF Programs
  <2>2. accounts[p] # Resolution!None => accounts[p] = <<"program", Resolution!Name(p)>> /\ Offered(p)
    BY <1>2, <1>10, <2>1 DEF Sound
  <2>3. ASSUME accounts[p] = Resolution!None, Offered(p) PROVE FALSE
    <3>1. PICK r \in Resolution!ToSet(Resolution!Resolvers) :
            Resolution!Name(p) \in (IF r = "heliumCommon" THEN Resolution!HeliumCommon ELSE {r})
      BY <2>3 DEF Offered
    <3>2. r \in {"circuitBreakerProgram", "recipientTokenAccount", "burner", "recipient",
                 "heliumCommon"}
      BY <1>1, ResolverNames DEF Resolution!ToSet
    <3>3. r \in {"circuitBreakerProgram", "heliumCommon"}
      BY <1>10, <3>1, <3>2, NamesOfPaths
    <3>4. Resolution!Resolve(r, p, accounts) = Resolution!None
      BY <2>3, NothingLeft
    <3>5. r = "circuitBreakerProgram" =>
            Resolution!Resolve(r, p, accounts) = <<"program", "circuitBreakerProgram">>
      BY <3>1, ResolveIs
    <3>6. r = "heliumCommon" =>
            Resolution!Resolve(r, p, accounts) = <<"program", Resolution!Name(p)>>
      BY <3>1, ResolveIs
    <3> QED BY <3>3, <3>4, <3>5, <3>6 DEF Resolution!None
  <2>4. accounts[p] = IF Offered(p) THEN <<"program", Resolution!Name(p)>> ELSE Resolution!None
    BY <2>2, <2>3
  <2>5. p \notin {<<"recipient">>, <<"recipientTokenAccount">>, <<"burner">>}
    BY <1>10, NamesOfPaths
  <2> QED BY <1>10, <1>5, <2>4, <2>5 DEF Resolution!Meant, Offered, Programs
<1>11. CASE /\ p \notin {<<"recipient">>, <<"recipientTokenAccount">>, <<"burner">>}
            /\ Resolution!Name(p) \notin Programs
  BY <1>11, <1>5 DEF Resolution!Meant, Programs
<1> QED BY <1>6, <1>8, <1>9, <1>10, <1>11

\* For any instructions whose accounts the resolvers and Anchor share as the IDLs have it, and
\* whichever accounts the caller names: every account that can be known is filled in, with the
\* key that is meant (accountsResolver, Anchor's passes).
THEOREM AccountsAreResolved == ClientSpec => []ResolvedAsMeant
<1>1. ResolutionInv => ResolvedAsMeant
  BY MeantIsFound DEF ResolvedAsMeant, Resolution!ResolvedAsMeant
<1> QED BY <1>1, ResolutionInit, ResolutionStep, ClientIsResolution, PTL DEF Resolution!Spec
-----------------------------------------------------------------------------
(* token.ts: whatever races, is lost and is called again, the ledger holds for every caller as    *)
(* many effects as a count n of them says, no more than it has sent transactions and, if it has   *)
(* returned, one at least.  A step of the chain adds one effect or nothing, for which its         *)
(* transaction is followed instruction by instruction.                                            *)

\* One instruction, after those before it.
OneMore(r, run, kind) == IF run.ok /\ Token!Can(run.ledger, r, kind)
                        THEN [run EXCEPT !.ledger = Token!Do(@, r, kind)]
                        ELSE [ok |-> FALSE, ledger |-> ledger]
Begun == [ok |-> TRUE, ledger |-> ledger]

RunsThrough(r, kinds, n, q) ==
  /\ q[0] = Begun
  /\ \A k \in 1..n : q[k] = OneMore(r, q[k - 1], kinds[k])
  /\ Token!Run(r, kinds) = q[n]

LEMMA RunIs ==
  ASSUME NEW r, NEW kinds, NEW n \in 0..6, DOMAIN kinds = 1..n
  PROVE  \E q : RunsThrough(r, kinds, n, q)
<1> DEFINE max(s) == Token!Max(s)
           Recursive(it) == it = [s \in SUBSET (1..n) |-> IF s = {} THEN Begun
                                    ELSE OneMore(r, it[s \ {max(s)}], kinds[max(s)])]
           iter == CHOOSE it : Recursive(it)
<1>1. Token!Run(r, kinds) = iter[1..n]
  BY DEF Token!Run, Token!FoldLeft, Token!MapThenFoldSet, OneMore, Begun
<1>2. \A s \in SUBSET (1..n) : s # {} =>
        /\ max(s) \in s /\ \A y \in s : y <= max(s)
  <2> SUFFICES ASSUME NEW s \in SUBSET (1..n), s # {}
               PROVE  \E x \in s : \A y \in s : x >= y
    BY DEF Token!Max
  <2>1. s \subseteq Nat /\ n \in Nat /\ \A y \in s : y <= n
    OBVIOUS
  <2>2. Max(s) \in s /\ \A y \in s : y <= Max(s)
    BY <2>1, MaxIsGreatest
  <2> QED BY <2>1, <2>2
<1> HIDE DEF max
\* As there are few places, what folds them is put together without recursion.
<1> DEFINE At(i, s, run) == IF i \in s THEN OneMore(r, run, kinds[i]) ELSE run
           All(s) == At(6, s, At(5, s, At(4, s, At(3, s, At(2, s, At(1, s, Begun))))))
           folded == [s \in SUBSET (1..n) |-> All(s)]
<1>3. Recursive(folded)
  <2>1. ASSUME NEW s \in SUBSET (1..n)
        PROVE  All(s) = IF s = {} THEN Begun
                        ELSE OneMore(r, folded[s \ {max(s)}], kinds[max(s)])
    <3>1. CASE s = {}
      BY <3>1
    <3>2. ASSUME s # {} PROVE All(s) = OneMore(r, folded[s \ {max(s)}], kinds[max(s)])
      <4>1. PICK m : m = max(s)
        OBVIOUS
      <4>2. m \in s /\ \A y \in s : y <= m
        BY <1>2, <3>2, <4>1
      <4>3. PICK rest \in SUBSET (1..n) : rest = s \ {m}
        OBVIOUS
      <4>4. m \in 1..6 /\ m \notin rest /\ s \subseteq Nat
        BY <4>2, <4>3
      <4>5. \A i \in 1..6 : i > m => i \notin s /\ i \notin rest
        BY <4>2, <4>3, <4>4
      <4>6. \A i \in 1..6 : i < m => (i \in s <=> i \in rest)
        BY <4>3, <4>4
      <4>7. All(s) = OneMore(r, All(rest), kinds[m])
        <5>1. m = 1 \/ m = 2 \/ m = 3 \/ m = 4 \/ m = 5 \/ m = 6
          BY <4>4
        <5> QED BY <4>2, <4>4, <4>5, <4>6, <5>1
      <4> QED BY <4>1, <4>3, <4>7
    <3> QED BY <3>1, <3>2
  <2> HIDE DEF All
  <2> QED BY <2>1
<1>4. Recursive(iter)
  <2> HIDE DEF folded, Recursive
  <2> QED BY <1>3
<1>5. iter[{}] = Begun
  <2> HIDE DEF iter
  <2> QED BY <1>4
<1>6. ASSUME NEW k \in 1..n PROVE iter[1..k] = OneMore(r, iter[1 .. (k - 1)], kinds[k])
  <2>1. 1..k \in SUBSET (1..n) /\ 1..k # {} /\ k \in 1..k
    OBVIOUS
  <2>2. max(1..k) = k
    BY <1>2, <2>1
  <2>3. (1..k) \ {k} = 1 .. (k - 1)
    OBVIOUS
  <2> HIDE DEF iter
  <2> QED BY <1>4, <2>1, <2>2, <2>3
<1> DEFINE q == [k \in 0..n |-> iter[1..k]]
<1>7. q[0] = Begun /\ q[n] = Token!Run(r, kinds)
  <2>1. 1..0 = {}
    OBVIOUS
  <2> HIDE DEF iter
  <2> QED BY <1>1, <1>5, <2>1
<1>8. \A k \in 1..n : q[k] = OneMore(r, q[k - 1], kinds[k])
  <2> HIDE DEF iter
  <2> QED BY <1>6
<1> HIDE DEF q
<1> QED BY <1>7, <1>8 DEF RunsThrough

Row(l, m) == [o \in Owners |-> l.amount[<<m, o>>]]

\* MapThenSumSet of each of the three counts.
LEMMA SupplyIs ==
  ASSUME NEW l, NEW m, IsFiniteSet(Owners), \A o \in Owners : l.amount[<<m, o>>] \in Nat
  PROVE  Token!Supply(l, m) = Total(Row(l, m), Owners)
<1> DEFINE f == Row(l, m)
           Solves(it) == it = [s \in SUBSET Owners |-> IF s = {} THEN 0
                                 ELSE l.amount[<<m, Pick(s)>>] + it[s \ {Pick(s)}]]
           iter == CHOOSE it : Solves(it)
<1>1. \A o \in Owners : f[o] \in Nat
  BY DEF Row
<1>2. ASSUME NEW it PROVE Solves(it) <=> SumsUp(f, Owners, it)
  <2>1. \A s \in SUBSET Owners : s # {} => f[Pick(s)] = l.amount[<<m, Pick(s)>>]
    BY DEF Row, Pick
  <2> HIDE DEF f
  <2> QED BY <2>1 DEF SumsUp
<1>3. Token!Supply(l, m) = iter[Owners]
  BY DEF Token!Supply, Token!MapThenSumSet, Token!MapThenFoldSet, Pick
<1>4. Solves(iter)
  <2>1. Solves([s \in SUBSET Owners |-> Total(f, s)])
    <3> HIDE DEF f, Solves
    <3> QED BY <1>1, <1>2, TotalSumsUp
  <2> HIDE DEF Solves
  <2> QED BY <2>1
<1> HIDE DEF Solves, iter, f
<1>5. iter[Owners] = Total(f, Owners)
  BY <1>1, <1>2, <1>4, SumsUpToTotal
<1> QED BY <1>3, <1>5 DEF f

LEMMA AskedIs ==
  ASSUME NEW C, IsFiniteSet(C), \A c \in C : request[c].amount * helperTries[c] \in Nat
  PROVE  Token!Asked(C) = Total([c \in C |-> request[c].amount * helperTries[c]], C)
<1> DEFINE f == [c \in C |-> request[c].amount * helperTries[c]]
           Solves(it) == it = [s \in SUBSET C |-> IF s = {} THEN 0
                                 ELSE request[Pick(s)].amount * helperTries[Pick(s)] + it[s \ {Pick(s)}]]
           iter == CHOOSE it : Solves(it)
<1>1. \A c \in C : f[c] \in Nat
  OBVIOUS
<1>2. ASSUME NEW it PROVE Solves(it) <=> SumsUp(f, C, it)
  <2>1. \A s \in SUBSET C : s # {} => f[Pick(s)] = request[Pick(s)].amount * helperTries[Pick(s)]
    BY DEF Pick
  <2> HIDE DEF f
  <2> QED BY <2>1 DEF SumsUp
<1>3. Token!Asked(C) = iter[C]
  BY DEF Token!Asked, Token!MapThenSumSet, Token!MapThenFoldSet, Pick
<1>4. Solves(iter)
  <2>1. Solves([s \in SUBSET C |-> Total(f, s)])
    <3> HIDE DEF f, Solves
    <3> QED BY <1>1, <1>2, TotalSumsUp
  <2> HIDE DEF Solves
  <2> QED BY <2>1
<1> HIDE DEF Solves, iter, f
<1>5. iter[C] = Total(f, C)
  BY <1>1, <1>2, <1>4, SumsUpToTotal
<1> QED BY <1>3, <1>5 DEF f

LEMMA GrantedIs ==
  ASSUME NEW C, NEW G, G = {c \in C : helperPc[c] = "returned"}, IsFiniteSet(G),
         \A c \in G : request[c].amount \in Nat
  PROVE  Token!Granted(C) = Total([c \in G |-> request[c].amount], G)
<1> DEFINE f == [c \in G |-> request[c].amount]
           Solves(it) == it = [s \in SUBSET G |-> IF s = {} THEN 0
                                 ELSE request[Pick(s)].amount + it[s \ {Pick(s)}]]
           iter == CHOOSE it : Solves(it)
<1>1. \A c \in G : f[c] \in Nat
  OBVIOUS
<1>2. ASSUME NEW it PROVE Solves(it) <=> SumsUp(f, G, it)
  <2>1. \A s \in SUBSET G : s # {} => f[Pick(s)] = request[Pick(s)].amount
    BY DEF Pick
  <2> HIDE DEF f
  <2> QED BY <2>1 DEF SumsUp
<1>3. Token!Granted(C) = iter[G]
  BY DEF Token!Granted, Token!MapThenSumSet, Token!MapThenFoldSet, Pick
<1>4. Solves(iter)
  <2>1. Solves([s \in SUBSET G |-> Total(f, s)])
    <3> HIDE DEF f, Solves
    <3> QED BY <1>1, <1>2, TotalSumsUp
  <2> HIDE DEF Solves
  <2> QED BY <2>1
<1> HIDE DEF Solves, iter, f
<1>5. iter[G] = Total(f, G)
  BY <1>1, <1>2, <1>4, SumsUpToTotal
<1> QED BY <1>3, <1>5 DEF f

-----------------------------------------------------------------------------
(* What a helper's transaction consists of *)

Paying == {"mintTo", "transfer"}
Kinds == {"createMint", "createAta", "mintTo", "transfer", "metadata", "verify", "edition"}
Has(s, K) == \E i \in DOMAIN s : s[i] \in K
PaysOnce(s) == \A i, j \in DOMAIN s : s[i] \in Paying /\ s[j] \in Paying => i = j

LEMMA Joined ==
  ASSUME NEW s \in Seq(Kinds), NEW t \in Seq(Kinds)
  PROVE  /\ s \o t \in Seq(Kinds) /\ Len(s \o t) = Len(s) + Len(t)
         /\ \A K : Has(s \o t, K) <=> Has(s, K) \/ Has(t, K)
         /\ PaysOnce(s) /\ PaysOnce(t) /\ ~(Has(s, Paying) /\ Has(t, Paying)) => PaysOnce(s \o t)
<1> DEFINE u == s \o t
<1>1. /\ u \in Seq(Kinds) /\ Len(u) = Len(s) + Len(t)
      /\ \A i \in 1..Len(s) : u[i] = s[i]
      /\ \A i \in (Len(s) + 1) .. (Len(s) + Len(t)) : u[i] = t[i - Len(s)]
  BY ConcatProperties
<1>2. /\ DOMAIN s = 1..Len(s) /\ DOMAIN t = 1..Len(t) /\ DOMAIN u = 1 .. (Len(s) + Len(t))
      /\ Len(s) \in Nat /\ Len(t) \in Nat
  BY <1>1, LenProperties
<1> HIDE DEF u
<1>3. \A i \in DOMAIN u : \/ (i \in DOMAIN s /\ u[i] = s[i])
                         \/ (i - Len(s) \in DOMAIN t /\ u[i] = t[i - Len(s)])
  BY <1>1, <1>2
<1>4. \A i \in DOMAIN s : i \in DOMAIN u /\ u[i] = s[i]
  BY <1>1, <1>2
<1>5. \A i \in DOMAIN t : i + Len(s) \in DOMAIN u /\ u[i + Len(s)] = t[i]
  <2> TAKE i \in DOMAIN t
  <2>1. i + Len(s) \in (Len(s) + 1) .. (Len(s) + Len(t)) /\ i + Len(s) - Len(s) = i
    BY <1>2
  <2> QED BY <1>1, <1>2, <2>1
<1>6. \A K : Has(u, K) <=> Has(s, K) \/ Has(t, K)
  BY <1>3, <1>4, <1>5 DEF Has
<1>7. ASSUME PaysOnce(s), PaysOnce(t), ~(Has(s, Paying) /\ Has(t, Paying)),
             NEW i \in DOMAIN u, NEW j \in DOMAIN u, u[i] \in Paying, u[j] \in Paying
      PROVE  i = j
  <2>1. (i \in DOMAIN s /\ j \in DOMAIN s) \/ (i - Len(s) \in DOMAIN t /\ j - Len(s) \in DOMAIN t)
    BY <1>3, <1>7 DEF Has
  <2>2. CASE i \in DOMAIN s /\ j \in DOMAIN s
    BY <1>4, <1>7, <2>2 DEF PaysOnce
  <2>3. CASE i - Len(s) \in DOMAIN t /\ j - Len(s) \in DOMAIN t
    <3>1. /\ t[i - Len(s)] = u[i - Len(s) + Len(s)] /\ t[j - Len(s)] = u[j - Len(s) + Len(s)]
      BY <1>5, <2>3
    <3>2. i - Len(s) + Len(s) = i /\ j - Len(s) + Len(s) = j
      BY <1>2
    <3>3. i - Len(s) = j - Len(s)
      BY <1>7, <2>3, <3>1, <3>2 DEF PaysOnce
    <3> QED BY <1>2, <3>3
  <2> QED BY <2>1, <2>2, <2>3
<1> QED BY <1>1, <1>6, <1>7 DEF u, PaysOnce

LEMMA OneKind ==
  ASSUME NEW kind \in Kinds
  PROVE  /\ <<kind>> \in Seq(Kinds) /\ Len(<<kind>>) = 1
         /\ \A K : Has(<<kind>>, K) <=> kind \in K
         /\ PaysOnce(<<kind>>)
  BY DEF Has, PaysOnce

LEMMA OptionalKind ==
  ASSUME NEW kind \in Kinds, NEW b \in BOOLEAN
  PROVE  LET s == Token!Optional(b, kind) IN
         /\ s \in Seq(Kinds) /\ Len(s) \in 0..1
         /\ \A K : Has(s, K) <=> b /\ kind \in K
         /\ PaysOnce(s)
<1>1. /\ <<>> \in Seq(Kinds) /\ Len(<<>>) = 0 /\ DOMAIN <<>> = {}
  BY EmptySeq, LenProperties
<1> QED BY <1>1, OneKind DEF Token!Optional, Has, PaysOnce

Request ==
  [op : {"mintTo", "createAta", "createAtaAndMint", "createAtaAndTransfer", "createMint",
         "createNft"},
   mint : Mints, from : Owners, to : Owners, amount : Nat, collection : Mints \cup {"none"}]

MintsFor(r) == r.op = "mintTo" \/ (r.op \in {"createAtaAndMint", "createNft"} /\ r.amount # 0)
TransfersFor(r) == r.op = "createAtaAndTransfer" /\ r.amount # 0

\* An optional account, and an optional payment.
LEMMA PairIs ==
  ASSUME NEW seen \in BOOLEAN, NEW b \in BOOLEAN, NEW kind \in Paying
  PROVE  LET s == Token!Optional(~seen, "createAta") \o Token!Optional(b, kind) IN
         /\ s \in Seq(Kinds) /\ Len(s) \in 0..2 /\ PaysOnce(s)
         /\ \A K : Has(s, K) <=> (~seen /\ "createAta" \in K) \/ (b /\ kind \in K)
<1> DEFINE a == Token!Optional(~seen, "createAta")
           p == Token!Optional(b, kind)
<1>1. "createAta" \in Kinds /\ "createAta" \notin Paying /\ kind \in Kinds /\ (~seen) \in BOOLEAN
  BY DEF Kinds, Paying
<1>2. /\ a \in Seq(Kinds) /\ Len(a) \in 0..1 /\ PaysOnce(a)
      /\ \A K : Has(a, K) <=> ~seen /\ "createAta" \in K
  BY <1>1, OptionalKind
<1>3. /\ p \in Seq(Kinds) /\ Len(p) \in 0..1 /\ PaysOnce(p)
      /\ \A K : Has(p, K) <=> b /\ kind \in K
  BY <1>1, OptionalKind
<1> HIDE DEF a, p
<1>4. /\ a \o p \in Seq(Kinds) /\ Len(a \o p) = Len(a) + Len(p) /\ PaysOnce(a \o p)
      /\ \A K : Has(a \o p, K) <=> Has(a, K) \/ Has(p, K)
  BY <1>1, <1>2, <1>3, Joined
<1>5. Len(a \o p) \in 0..2
  <2>1. \A x, y \in 0..1 : x + y \in 0..2
    OBVIOUS
  <2> QED BY <1>2, <1>3, <1>4, <2>1, Zenon
<1> QED BY <1>2, <1>3, <1>4, <1>5 DEF a, p

LEMMA NftIs ==
  ASSUME NEW r \in Request, NEW seen \in BOOLEAN
  PROVE  LET s == Token!CreateNftInstructions(r, seen) IN
         /\ s \in Seq(Kinds) /\ Len(s) \in 0..6 /\ PaysOnce(s)
         /\ Has(s, {"edition"}) /\ ~Has(s, {"transfer"})
         /\ Has(s, {"mintTo"}) <=> r.amount # 0
         /\ r.collection # "none" => Has(s, {"verify"})
<1> DEFINE m == <<"createMint">>
           d == <<"metadata">>
           p == Token!CreateAtaAndMintInstructions(r, seen)
           v == Token!Optional(r.collection # "none", "verify")
           e == <<"edition">>
<1>1. /\ {"createMint", "metadata", "verify", "edition"} \subseteq Kinds
      /\ {"createMint", "metadata", "verify", "edition"} \cap Paying = {}
      /\ "mintTo" \in Paying /\ (r.amount # 0) \in BOOLEAN /\ (r.collection # "none") \in BOOLEAN
  BY DEF Kinds, Paying
<1>2. /\ m \in Seq(Kinds) /\ Len(m) = 1 /\ PaysOnce(m) /\ ~Has(m, Paying)
      /\ \A K : Has(m, K) <=> "createMint" \in K
  BY <1>1, OneKind
<1>3. /\ d \in Seq(Kinds) /\ Len(d) = 1 /\ PaysOnce(d) /\ ~Has(d, Paying)
      /\ \A K : Has(d, K) <=> "metadata" \in K
  BY <1>1, OneKind
<1>4. /\ e \in Seq(Kinds) /\ Len(e) = 1 /\ PaysOnce(e) /\ ~Has(e, Paying)
      /\ \A K : Has(e, K) <=> "edition" \in K
  BY <1>1, OneKind
<1>5. /\ p \in Seq(Kinds) /\ Len(p) \in 0..2 /\ PaysOnce(p)
      /\ \A K : Has(p, K) <=> (~seen /\ "createAta" \in K) \/ (r.amount # 0 /\ "mintTo" \in K)
  BY <1>1, PairIs DEF Token!CreateAtaAndMintInstructions
<1>6. /\ v \in Seq(Kinds) /\ Len(v) \in 0..1 /\ PaysOnce(v) /\ ~Has(v, Paying)
      /\ \A K : Has(v, K) <=> r.collection # "none" /\ "verify" \in K
  BY <1>1, OptionalKind
<1>0. Token!CreateNftInstructions(r, seen) = (((m \o d) \o p) \o v) \o e
  BY DEF Token!CreateNftInstructions, Token!CreateMintInstructions, Token!None
<1> HIDE DEF m, d, p, v, e
<1>7. /\ m \o d \in Seq(Kinds) /\ Len(m \o d) = Len(m) + Len(d) /\ PaysOnce(m \o d)
      /\ \A K : Has(m \o d, K) <=> Has(m, K) \/ Has(d, K)
  BY <1>2, <1>3, Joined
<1> DEFINE md == m \o d
<1> HIDE DEF md
<1>8. /\ md \o p \in Seq(Kinds) /\ Len(md \o p) = Len(md) + Len(p) /\ PaysOnce(md \o p)
      /\ \A K : Has(md \o p, K) <=> Has(md, K) \/ Has(p, K)
  BY <1>2, <1>3, <1>5, <1>7, Joined DEF md
<1> DEFINE mdp == md \o p
<1> HIDE DEF mdp
<1>9. /\ mdp \o v \in Seq(Kinds) /\ Len(mdp \o v) = Len(mdp) + Len(v) /\ PaysOnce(mdp \o v)
      /\ \A K : Has(mdp \o v, K) <=> Has(mdp, K) \/ Has(v, K)
  BY <1>6, <1>8, Joined DEF mdp
<1> DEFINE mdpv == mdp \o v
<1> HIDE DEF mdpv
<1>10. /\ mdpv \o e \in Seq(Kinds) /\ Len(mdpv \o e) = Len(mdpv) + Len(e) /\ PaysOnce(mdpv \o e)
       /\ \A K : Has(mdpv \o e, K) <=> Has(mdpv, K) \/ Has(e, K)
  BY <1>4, <1>9, Joined DEF mdpv
<1>11. Token!CreateNftInstructions(r, seen) = mdpv \o e
  BY <1>0 DEF mdpv, mdp, md
<1>12. Len(mdpv \o e) \in 0..6
  <2>1. \A x \in 0..2, y \in 0..1 : 1 + 1 + x + y + 1 \in 0..6
    OBVIOUS
  <2>2. Len(mdpv \o e) = 1 + 1 + Len(p) + Len(v) + 1
    BY <1>2, <1>3, <1>4, <1>7, <1>8, <1>9, <1>10, Zenon DEF md, mdp, mdpv
  <2> QED BY <1>5, <1>6, <2>1, <2>2, Zenon
<1>13. \A K : Has(mdpv \o e, K) <=>
         \/ Has(m, K) \/ Has(d, K) \/ Has(p, K) \/ Has(v, K) \/ Has(e, K)
  BY <1>7, <1>8, <1>9, <1>10 DEF md, mdp, mdpv
<1>14. /\ Has(mdpv \o e, {"edition"}) /\ ~Has(mdpv \o e, {"transfer"})
       /\ Has(mdpv \o e, {"mintTo"}) <=> r.amount # 0
       /\ r.collection # "none" => Has(mdpv \o e, {"verify"})
  BY <1>2, <1>3, <1>4, <1>5, <1>6, <1>13
<1> QED BY <1>10, <1>11, <1>12, <1>14

\* The transaction of any helper: it pays once at most, and what its request says.
LEMMA ScriptIs ==
  ASSUME NEW r \in Request, NEW seen \in BOOLEAN
  PROVE  LET s == Token!InstructionsFor(r, seen) IN
         /\ s \in Seq(Kinds) /\ Len(s) \in 0..6 /\ PaysOnce(s)
         /\ Has(s, {"mintTo"}) <=> MintsFor(r)
         /\ Has(s, {"transfer"}) <=> TransfersFor(r)
         /\ r.op = "createMint" => Has(s, {"createMint"})
         /\ r.op = "createNft" => Has(s, {"edition"})
         /\ r.op = "createNft" /\ r.collection # "none" => Has(s, {"verify"})
<1> DEFINE s == Token!InstructionsFor(r, seen)
           Goal == /\ s \in Seq(Kinds) /\ Len(s) \in 0..6 /\ PaysOnce(s)
                   /\ Has(s, {"mintTo"}) <=> MintsFor(r)
                   /\ Has(s, {"transfer"}) <=> TransfersFor(r)
                   /\ r.op = "createMint" => Has(s, {"createMint"})
                   /\ r.op = "createNft" => Has(s, {"edition"})
                   /\ r.op = "createNft" /\ r.collection # "none" => Has(s, {"verify"})
<1>1. /\ {"createAta", "mintTo", "createMint"} \subseteq Kinds /\ {"mintTo", "transfer"} = Paying
      /\ (~seen) \in BOOLEAN /\ (r.amount # 0) \in BOOLEAN
  BY DEF Kinds, Paying
<1>2. ASSUME r.op = "mintTo" PROVE Goal
  <2>1. s = <<"mintTo">>
    BY <1>2 DEF Token!InstructionsFor
  <2>2. /\ s \in Seq(Kinds) /\ Len(s) = 1 /\ PaysOnce(s)
        /\ \A K : Has(s, K) <=> "mintTo" \in K
    BY <1>1, <2>1, OneKind
  <2> HIDE DEF s
  <2>3. Len(s) \in 0..6
    BY <2>2
  <2> QED BY <1>2, <2>2, <2>3 DEF MintsFor, TransfersFor
<1>3. ASSUME r.op = "createAta" PROVE Goal
  <2>1. s = Token!Optional(~seen, "createAta")
    BY <1>3 DEF Token!InstructionsFor
  <2>2. /\ s \in Seq(Kinds) /\ Len(s) \in 0..1 /\ PaysOnce(s)
        /\ \A K : Has(s, K) <=> ~seen /\ "createAta" \in K
    <3> HIDE DEF s
    <3> QED BY <1>1, <2>1, OptionalKind
  <2> HIDE DEF s
  <2>3. Len(s) \in 0..6
    BY <2>2
  <2> QED BY <1>3, <2>2, <2>3 DEF MintsFor, TransfersFor
<1>4. ASSUME r.op = "createAtaAndMint" PROVE Goal
  <2>1. s = Token!CreateAtaAndMintInstructions(r, seen)
    BY <1>4 DEF Token!InstructionsFor
  <2>2. /\ s \in Seq(Kinds) /\ Len(s) \in 0..2 /\ PaysOnce(s)
        /\ \A K : Has(s, K) <=> (~seen /\ "createAta" \in K) \/ (r.amount # 0 /\ "mintTo" \in K)
    <3> HIDE DEF s
    <3> QED BY <1>1, <2>1, PairIs DEF Token!CreateAtaAndMintInstructions
  <2> HIDE DEF s
  <2>3. Len(s) \in 0..6
    BY <2>2
  <2> QED BY <1>4, <2>2, <2>3 DEF MintsFor, TransfersFor
<1>5. ASSUME r.op = "createAtaAndTransfer" PROVE Goal
  <2>1. s = Token!CreateAtaAndTransferInstructions(r, seen)
    BY <1>5 DEF Token!InstructionsFor
  <2>2. /\ s \in Seq(Kinds) /\ Len(s) \in 0..2 /\ PaysOnce(s)
        /\ \A K : Has(s, K) <=> (~seen /\ "createAta" \in K) \/ (r.amount # 0 /\ "transfer" \in K)
    <3> HIDE DEF s
    <3> QED BY <1>1, <2>1, PairIs DEF Token!CreateAtaAndTransferInstructions
  <2> HIDE DEF s
  <2>3. Len(s) \in 0..6
    BY <2>2
  <2> QED BY <1>5, <2>2, <2>3 DEF MintsFor, TransfersFor
<1>6. ASSUME r.op = "createMint" PROVE Goal
  <2>1. s = <<"createMint">>
    BY <1>6 DEF Token!InstructionsFor, Token!CreateMintInstructions
  <2>2. /\ s \in Seq(Kinds) /\ Len(s) = 1 /\ PaysOnce(s)
        /\ \A K : Has(s, K) <=> "createMint" \in K
    BY <1>1, <2>1, OneKind
  <2> HIDE DEF s
  <2>3. Len(s) \in 0..6
    BY <2>2
  <2> QED BY <1>6, <2>2, <2>3 DEF MintsFor, TransfersFor
<1>7. ASSUME r.op = "createNft" PROVE Goal
  <2>1. s = Token!CreateNftInstructions(r, seen)
    BY <1>7 DEF Token!InstructionsFor
  <2> HIDE DEF s
  <2> QED BY <1>7, <2>1, NftIs DEF MintsFor, TransfersFor
<1> HIDE DEF Goal, s
<1>8. Goal
  BY <1>2, <1>3, <1>4, <1>5, <1>6, <1>7 DEF Request
<1> QED BY <1>8 DEF Goal, s

-----------------------------------------------------------------------------
(* One instruction *)

Ledgers ==
  [mint : [Mints -> {"none", "held", "edition"}], metadata : SUBSET Mints, verified : SUBSET Mints,
   accounts : SUBSET (Mints \X Owners), amount : [Mints \X Owners -> Nat]]

\* Of a sealed mint there is one token.
Sealed(l) == \A m \in Mints : l.mint[m] = "edition" => Token!Supply(l, m) = 1

Friends == Mints \X (Owners \ {Wallet})

\* What an instruction adds to a mint's supply, and to an account that is not the wallet's.
Minted(r, b, m) == IF b /\ r.mint = m THEN r.amount ELSE 0
Given(r, b, a) == IF b /\ Token!Account(r) = a THEN r.amount ELSE 0

LEMMA SupplyIsSum ==
  ASSUME NEW l \in Ledgers, NEW m \in Mints
  PROVE  /\ Token!Supply(l, m) = Total(Row(l, m), Owners) /\ Token!Supply(l, m) \in Nat
         /\ \A o \in Owners : Row(l, m)[o] = l.amount[<<m, o>>] /\ Row(l, m)[o] \in Nat
<1>1. l.amount \in [Mints \X Owners -> Nat]
  BY DEF Ledgers
<1>2. \A o \in Owners : l.amount[<<m, o>>] \in Nat /\ Row(l, m)[o] = l.amount[<<m, o>>]
  BY <1>1 DEF Row
<1>3. Token!Supply(l, m) = Total(Row(l, m), Owners)
  BY <1>2, SupplyIs, RequestsAssumption
<1>4. Total(Row(l, m), Owners) \in Nat
  BY <1>2, UnitsFinite, FS_CardinalityType, RequestsAssumption DEF Total
<1> QED BY <1>2, <1>3, <1>4

LEMMA SupplyStays ==
  ASSUME NEW l \in Ledgers, NEW d \in Ledgers, NEW m \in Mints,
         \A o \in Owners : d.amount[<<m, o>>] = l.amount[<<m, o>>]
  PROVE  Token!Supply(d, m) = Token!Supply(l, m)
<1>1. \A o \in Owners : Row(d, m)[o] = Row(l, m)[o]
  BY SupplyIsSum
<1> QED BY <1>1, SupplyIsSum, TotalSame

LEMMA SupplyGrows ==
  ASSUME NEW l \in Ledgers, NEW d \in Ledgers, NEW m \in Mints, NEW o \in Owners, NEW n \in Nat,
         d.amount = [l.amount EXCEPT ![<<m, o>>] = @ + n]
  PROVE  Token!Supply(d, m) = Token!Supply(l, m) + n
<1>1. l.amount \in [Mints \X Owners -> Nat] /\ <<m, o>> \in Mints \X Owners
  BY DEF Ledgers
<1>2. d.amount[<<m, o>>] = l.amount[<<m, o>>] + n
  BY <1>1
<1>3. \A p \in Owners \ {o} : d.amount[<<m, p>>] = l.amount[<<m, p>>]
  BY <1>1
<1>4. /\ Row(d, m)[o] = Row(l, m)[o] + n
      /\ \A p \in Owners \ {o} : Row(l, m)[p] = Row(d, m)[p]
      /\ \A p \in Owners : Row(l, m)[p] \in Nat /\ Row(d, m)[p] \in Nat
  <2>1. /\ \A p \in Owners : Row(l, m)[p] = l.amount[<<m, p>>] /\ Row(l, m)[p] \in Nat
        /\ \A p \in Owners : Row(d, m)[p] = d.amount[<<m, p>>] /\ Row(d, m)[p] \in Nat
    BY SupplyIsSum
  <2> QED BY <1>2, <1>3, <2>1, Zenon
<1>5. /\ Total(Row(l, m), Owners) \in Nat /\ Total(Row(d, m), Owners) \in Nat
      /\ Total(Row(d, m), Owners) + Row(l, m)[o] = Total(Row(l, m), Owners) + Row(d, m)[o]
  BY <1>4, TotalChange, RequestsAssumption
<1>6. Total(Row(d, m), Owners) = Total(Row(l, m), Owners) + n
  BY <1>4, <1>5
<1> QED BY <1>6, SupplyIsSum

\* A transfer takes from one account what it puts into another, or into the same.
Taken(held, k, n) == [held EXCEPT ![k] = @ - n]

LEMMA SupplyMoves ==
  ASSUME NEW l \in Ledgers, NEW d \in Ledgers, NEW m \in Mints,
         NEW from \in Owners, NEW to \in Owners, NEW n \in Nat, l.amount[<<m, from>>] >= n,
         d.amount = [Taken(l.amount, <<m, from>>, n) EXCEPT ![<<m, to>>] = @ + n]
  PROVE  Token!Supply(d, m) = Token!Supply(l, m)
<1> DEFINE e == [l EXCEPT !.amount = Taken(l.amount, <<m, from>>, n)]
<1>1. /\ l.amount \in [Mints \X Owners -> Nat] /\ <<m, from>> \in Mints \X Owners
      /\ l.amount[<<m, from>>] \in Nat /\ l.amount[<<m, from>>] - n \in Nat
  BY DEF Ledgers
<1>2. e.amount = Taken(l.amount, <<m, from>>, n)
  BY DEF Ledgers
<1>3. e \in Ledgers
  <2>1. Taken(l.amount, <<m, from>>, n) \in [Mints \X Owners -> Nat]
    BY <1>1 DEF Taken
  <2> QED BY <2>1 DEF Ledgers
<1> HIDE DEF e
<1>4. l.amount = [e.amount EXCEPT ![<<m, from>>] = @ + n]
  <2>1. PICK k, f, S : k = <<m, from>> /\ f = l.amount /\ S = Mints \X Owners
    OBVIOUS
  <2>2. f \in [S -> Nat] /\ k \in S /\ f[k] \in Nat
    BY <1>1, <2>1
  <2>3. f = [Taken(f, k, n) EXCEPT ![k] = @ + n]
    <3>1. PICK g : g = Taken(f, k, n)
      OBVIOUS
    <3>2. /\ g = [x \in S |-> IF x = k THEN f[k] - n ELSE f[x]]
      BY <2>2, <3>1 DEF Taken
    <3>3. g[k] + n = f[k]
      BY <2>2, <3>2
    <3>4. [g EXCEPT ![k] = @ + n] = [x \in S |-> IF x = k THEN f[k] ELSE f[x]]
      BY <2>2, <3>2, <3>3
    <3>5. f = [x \in S |-> IF x = k THEN f[k] ELSE f[x]]
      BY ONLY <2>2
    <3> QED BY <3>1, <3>4, <3>5
  <2> QED BY <1>2, <2>1, <2>3
<1>5. d.amount = [e.amount EXCEPT ![<<m, to>>] = @ + n]
  BY <1>2
<1> QED BY <1>3, <1>4, <1>5, SupplyGrows

\* What the programs do to a ledger, whichever instruction it is.
LEMMA DoIs ==
  ASSUME NEW l \in Ledgers, NEW r \in Request, NEW kind \in Kinds, Token!Can(l, r, kind)
  PROVE  LET d == Token!Do(l, r, kind) IN
         /\ d \in Ledgers
         /\ \A m \in Mints : Token!Supply(d, m) = Token!Supply(l, m) + Minted(r, kind = "mintTo", m)
         /\ (kind = "transfer" => r.from = Wallet) =>
              \A a \in Friends : d.amount[a] = l.amount[a] + Given(r, kind \in Paying, a)
         /\ \A m \in Mints : l.mint[m] = "edition" => /\ d.mint[m] = "edition"
                                                      /\ kind = "mintTo" => m # r.mint
         /\ \A m \in Mints : d.mint[m] = "edition" =>
              l.mint[m] = "edition" \/ (kind = "edition" /\ Token!Supply(l, m) = 1)
         /\ l.verified \subseteq d.verified
         /\ kind = "edition" => d.mint[r.mint] = "edition"
         /\ kind = "verify" => r.mint \in d.verified
<1> DEFINE d == Token!Do(l, r, kind)
           Rest == /\ \A m \in Mints : l.mint[m] = "edition" => /\ d.mint[m] = "edition"
                                                                /\ kind = "mintTo" => m # r.mint
                   /\ \A m \in Mints : d.mint[m] = "edition" =>
                        l.mint[m] = "edition" \/ (kind = "edition" /\ Token!Supply(l, m) = 1)
                   /\ l.verified \subseteq d.verified
                   /\ kind = "edition" => d.mint[r.mint] = "edition"
                   /\ kind = "verify" => r.mint \in d.verified
<1>1. /\ r.mint \in Mints /\ r.from \in Owners /\ r.to \in Owners /\ r.amount \in Nat
      /\ Token!Account(r) = <<r.mint, r.to>> /\ Token!Account(r) \in Mints \X Owners
  BY DEF Request, Token!Account
<1>2. ASSUME kind \notin Paying
      PROVE  d \in Ledgers /\ d.amount = l.amount /\ Rest
  <2>1. CASE kind = "createMint"
    BY <1>1, <2>1 DEF Token!Do, Token!Can, Token!None, Ledgers
  <2>2. CASE kind = "createAta"
    BY <1>1, <2>2 DEF Token!Do, Token!Can, Ledgers
  <2>3. CASE kind = "metadata"
    BY <1>1, <2>3 DEF Token!Do, Token!Can, Ledgers
  <2>4. CASE kind = "verify"
    BY <1>1, <2>4 DEF Token!Do, Token!Can, Ledgers
  <2>5. CASE kind = "edition"
    BY <1>1, <2>5 DEF Token!Do, Token!Can, Ledgers
  <2> QED BY <1>2, <2>1, <2>2, <2>3, <2>4, <2>5 DEF Kinds, Paying
<1> DEFINE Untouched == /\ d.mint = l.mint /\ d.metadata = l.metadata /\ d.verified = l.verified
                        /\ d.accounts = l.accounts
                        /\ d = [mint |-> d.mint, metadata |-> d.metadata, verified |-> d.verified,
                                accounts |-> d.accounts, amount |-> d.amount]
<1>3. ASSUME kind = "mintTo"
      PROVE  /\ d \in Ledgers /\ d.amount = [l.amount EXCEPT ![<<r.mint, r.to>>] = @ + r.amount]
             /\ Rest
  <2>1. /\ Untouched /\ d.amount = [l.amount EXCEPT ![<<r.mint, r.to>>] = @ + r.amount]
        /\ l.mint[r.mint] = "held"
    BY <1>1, <1>3 DEF Token!Do, Token!Can, Ledgers
  <2>2. Rest
    <3> HIDE DEF d
    <3> QED BY <1>3, <2>1
  <2>3. d \in Ledgers
    <3>1. l.amount \in [Mints \X Owners -> Nat]
      BY DEF Ledgers
    <3>2. d.amount \in [Mints \X Owners -> Nat]
      <4> HIDE DEF d
      <4> QED BY <1>1, <2>1, <3>1
    <3> HIDE DEF d
    <3> QED BY <2>1, <3>2 DEF Ledgers
  <2> QED BY <2>1, <2>2, <2>3
<1>4. ASSUME kind = "transfer"
      PROVE  /\ d \in Ledgers /\ l.amount[<<r.mint, r.from>>] >= r.amount
             /\ d.amount = [Taken(l.amount, <<r.mint, r.from>>, r.amount)
                           EXCEPT ![<<r.mint, r.to>>] = @ + r.amount]
             /\ Rest
  <2>1. /\ Untouched /\ l.amount[<<r.mint, r.from>>] >= r.amount
        /\ d.amount = [Taken(l.amount, <<r.mint, r.from>>, r.amount)
                      EXCEPT ![<<r.mint, r.to>>] = @ + r.amount]
    BY <1>1, <1>4 DEF Token!Do, Token!Can, Ledgers, Taken
  <2>2. Rest
    <3> HIDE DEF d
    <3> QED BY <1>4, <2>1
  <2>3. d \in Ledgers
    <3>1. /\ l.amount \in [Mints \X Owners -> Nat] /\ <<r.mint, r.from>> \in Mints \X Owners
          /\ <<r.mint, r.to>> \in Mints \X Owners
      BY <1>1 DEF Ledgers
    <3>2. l.amount[<<r.mint, r.from>>] \in Nat /\ l.amount[<<r.mint, r.from>>] - r.amount \in Nat
      BY <1>1, <2>1, <3>1
    <3>3. d.amount \in [Mints \X Owners -> Nat]
      <4> HIDE DEF d
      <4>1. Taken(l.amount, <<r.mint, r.from>>, r.amount) \in [Mints \X Owners -> Nat]
        BY <3>1, <3>2 DEF Taken
      <4> QED BY <1>1, <2>1, <3>1, <4>1
    <3> HIDE DEF d
    <3> QED BY <2>1, <3>3 DEF Ledgers
  <2> QED BY <2>1, <2>2, <2>3
<1> DEFINE Paid == /\ \A m \in Mints :
                        Token!Supply(d, m) = Token!Supply(l, m) + Minted(r, kind = "mintTo", m)
                   /\ (kind = "transfer" => r.from = Wallet) =>
                        \A a \in Friends : d.amount[a] = l.amount[a] + Given(r, kind \in Paying, a)
<1>8. /\ \A m \in Mints, o \in Owners : l.amount[<<m, o>>] \in Nat
      /\ \A a \in Friends : l.amount[a] \in Nat /\ a # <<r.mint, Wallet>>
                            /\ a = <<a[1], a[2]>> /\ a[1] \in Mints /\ a[2] \in Owners
  BY DEF Ledgers, Friends
<1>9. \A m \in Mints : Token!Supply(l, m) \in Nat
  BY SupplyIsSum
<1>10. l.amount \in [Mints \X Owners -> Nat] /\ Friends \subseteq Mints \X Owners
  BY DEF Ledgers, Friends
<1> HIDE DEF d, Rest
<1>5. ASSUME kind \notin Paying PROVE Paid
  <2>1. d \in Ledgers /\ d.amount = l.amount
    BY <1>2, <1>5
  <2>2. \A m \in Mints : Token!Supply(d, m) = Token!Supply(l, m)
    BY <2>1, SupplyStays
  <2> QED BY <1>5, <1>8, <1>9, <2>1, <2>2 DEF Minted, Given, Paying
<1>6. ASSUME kind = "mintTo" PROVE Paid
  <2>1. d \in Ledgers /\ d.amount = [l.amount EXCEPT ![<<r.mint, r.to>>] = @ + r.amount]
    BY <1>3, <1>6
  <2>2. Token!Supply(d, r.mint) = Token!Supply(l, r.mint) + r.amount
    BY <1>1, <2>1, SupplyGrows
  <2>3. ASSUME NEW m \in Mints, m # r.mint PROVE Token!Supply(d, m) = Token!Supply(l, m)
    <3>1. \A o \in Owners : d.amount[<<m, o>>] = l.amount[<<m, o>>]
      BY <1>1, <1>10, <2>1, <2>3
    <3> QED BY <2>1, <3>1, SupplyStays
  <2>4. \A a \in Friends : d.amount[a] = l.amount[a] + Given(r, TRUE, a)
    BY <1>1, <1>8, <1>10, <2>1 DEF Given
  <2>5. \A m \in Mints : Token!Supply(d, m) = Token!Supply(l, m) + Minted(r, TRUE, m)
    BY <1>9, <2>2, <2>3 DEF Minted
  <2> QED BY <1>6, <2>4, <2>5 DEF Paying, Minted, Given
<1>7. ASSUME kind = "transfer" PROVE Paid
  <2>1. /\ d \in Ledgers /\ l.amount[<<r.mint, r.from>>] >= r.amount
        /\ d.amount = [Taken(l.amount, <<r.mint, r.from>>, r.amount)
                      EXCEPT ![<<r.mint, r.to>>] = @ + r.amount]
    BY <1>4, <1>7
  <2>2. Token!Supply(d, r.mint) = Token!Supply(l, r.mint)
    BY <1>1, <2>1, SupplyMoves
  <2>3. ASSUME NEW m \in Mints, m # r.mint PROVE Token!Supply(d, m) = Token!Supply(l, m)
    <3>1. \A o \in Owners : d.amount[<<m, o>>] = l.amount[<<m, o>>]
      BY <1>1, <1>10, <2>1, <2>3 DEF Taken
    <3> QED BY <2>1, <3>1, SupplyStays
  <2>4. ASSUME r.from = Wallet, NEW a \in Friends
        PROVE  d.amount[a] = l.amount[a] + Given(r, TRUE, a)
    BY <1>1, <1>8, <1>10, <2>1, <2>4 DEF Given, Taken
  <2>5. \A m \in Mints : Token!Supply(d, m) = Token!Supply(l, m) + Minted(r, FALSE, m)
    BY <1>9, <2>2, <2>3 DEF Minted
  <2> QED BY <1>7, <2>4, <2>5 DEF Paying, Minted, Given
<1>11. Paid /\ d \in Ledgers /\ Rest
  BY <1>2, <1>3, <1>4, <1>5, <1>6, <1>7 DEF Paying
<1> HIDE DEF Paid
<1> QED BY <1>11 DEF Paid, Rest, d

-----------------------------------------------------------------------------
(* A transaction *)

\* What is so of a ledger l after some of a transaction's instructions, when they have, as the
\* Booleans say, minted, paid, sealed and verified.
Reached(l, r, mints, pays, seals, verifies) ==
  /\ l \in Ledgers /\ Sealed(l)
  /\ \A m \in Mints : Token!Supply(l, m) = Token!Supply(ledger, m) + Minted(r, mints, m)
  /\ \A a \in Friends : l.amount[a] = ledger.amount[a] + Given(r, pays, a)
  /\ \A m \in Mints : ledger.mint[m] = "edition" => l.mint[m] = "edition"
  /\ ledger.verified \subseteq l.verified
  /\ seals => l.mint[r.mint] = "edition"
  /\ verifies => r.mint \in l.verified

LEMMA ReachedStep ==
  ASSUME ledger \in Ledgers, NEW l, NEW r \in Request, NEW kind \in Kinds,
         NEW mints \in BOOLEAN, NEW pays \in BOOLEAN, NEW seals \in BOOLEAN, NEW verifies \in BOOLEAN,
         mints => pays, pays => kind \notin Paying, kind = "transfer" => r.from = Wallet,
         Reached(l, r, mints, pays, seals, verifies), Token!Can(l, r, kind)
  PROVE  Reached(Token!Do(l, r, kind), r, mints \/ kind = "mintTo", pays \/ kind \in Paying,
                 seals \/ kind = "edition", verifies \/ kind = "verify")
<1>1. PICK d : d = Token!Do(l, r, kind)
  OBVIOUS
<1>2. l \in Ledgers
  BY DEF Reached
<1>3. /\ d \in Ledgers
      /\ \A m \in Mints : Token!Supply(d, m) = Token!Supply(l, m) + Minted(r, kind = "mintTo", m)
      /\ \A a \in Friends : d.amount[a] = l.amount[a] + Given(r, kind \in Paying, a)
      /\ \A m \in Mints : l.mint[m] = "edition" => d.mint[m] = "edition"
      /\ \A m \in Mints : l.mint[m] = "edition" /\ kind = "mintTo" => m # r.mint
      /\ \A m \in Mints : d.mint[m] = "edition" =>
           l.mint[m] = "edition" \/ (kind = "edition" /\ Token!Supply(l, m) = 1)
      /\ l.verified \subseteq d.verified
      /\ kind = "edition" => d.mint[r.mint] = "edition"
      /\ kind = "verify" => r.mint \in d.verified
  BY <1>1, <1>2, DoIs
<1>4. r.amount \in Nat /\ r.mint \in Mints /\ "mintTo" \in Paying /\ "edition" # "mintTo"
  BY DEF Request, Paying
<1>5. \A m \in Mints : Token!Supply(l, m) \in Nat /\ Token!Supply(ledger, m) \in Nat
  BY <1>2, SupplyIsSum
<1>6. \A a \in Friends : l.amount[a] \in Nat /\ ledger.amount[a] \in Nat
  BY <1>2 DEF Ledgers, Friends
<1>7. Sealed(d)
  <2> SUFFICES ASSUME NEW m \in Mints, d.mint[m] = "edition" PROVE Token!Supply(d, m) = 1
    BY DEF Sealed
  <2>1. Token!Supply(l, m) = 1
    BY <1>3 DEF Reached, Sealed
  <2>2. ~(kind = "mintTo" /\ r.mint = m)
    BY <1>3, <1>4
  <2> QED BY <1>3, <2>1, <2>2 DEF Minted
<1>8. ASSUME NEW m \in Mints
      PROVE  Token!Supply(d, m) = Token!Supply(ledger, m) + Minted(r, mints \/ kind = "mintTo", m)
  <2>1. /\ Token!Supply(d, m) = Token!Supply(l, m) + Minted(r, kind = "mintTo", m)
        /\ Token!Supply(l, m) = Token!Supply(ledger, m) + Minted(r, mints, m)
    BY <1>3 DEF Reached
  <2> QED BY <1>4, <1>5, <2>1 DEF Minted
<1>9. ASSUME NEW a \in Friends
      PROVE  d.amount[a] = ledger.amount[a] + Given(r, pays \/ kind \in Paying, a)
  <2>1. /\ d.amount[a] = l.amount[a] + Given(r, kind \in Paying, a)
        /\ l.amount[a] = ledger.amount[a] + Given(r, pays, a)
    BY <1>3 DEF Reached
  <2> QED BY <1>4, <1>6, <2>1 DEF Given
<1>10. /\ \A m \in Mints : ledger.mint[m] = "edition" => d.mint[m] = "edition"
       /\ ledger.verified \subseteq d.verified
       /\ (seals \/ kind = "edition") => d.mint[r.mint] = "edition"
       /\ (verifies \/ kind = "verify") => r.mint \in d.verified
  BY <1>3, <1>4 DEF Reached
<1> QED BY <1>1, <1>3, <1>7, <1>8, <1>9, <1>10 DEF Reached

\* A transaction does what its helper was asked for, or nothing.
LEMMA RunDoes ==
  ASSUME ledger \in Ledgers, Sealed(ledger), NEW r \in Request, NEW seen \in BOOLEAN,
         Token!Signable(r)
  PROVE  LET run == Token!Run(r, Token!InstructionsFor(r, seen)) IN
         /\ run.ok \in BOOLEAN
         /\ ~run.ok => run.ledger = ledger
         /\ run.ok => Reached(run.ledger, r, MintsFor(r), MintsFor(r) \/ TransfersFor(r),
                              r.op = "createNft", r.op = "createNft" /\ r.collection # "none")
<1>1. PICK s : s = Token!InstructionsFor(r, seen)
  OBVIOUS
<1>2. /\ s \in Seq(Kinds) /\ Len(s) \in 0..6 /\ PaysOnce(s)
      /\ Has(s, {"mintTo"}) <=> MintsFor(r)
      /\ Has(s, {"transfer"}) <=> TransfersFor(r)
      /\ r.op = "createNft" => Has(s, {"edition"})
      /\ r.op = "createNft" /\ r.collection # "none" => Has(s, {"verify"})
  BY <1>1, ScriptIs
<1>3. PICK n \in 0..6 : n = Len(s) /\ DOMAIN s = 1..n /\ \A k \in 1..n : s[k] \in Kinds
  BY <1>2, LenProperties, ElementOfSeq
<1>4. PICK q : /\ q[0] = Begun
               /\ \A k \in 1..n : q[k] = OneMore(r, q[k - 1], s[k])
               /\ Token!Run(r, s) = q[n]
  <2>1. n \in 0..6 /\ DOMAIN s = 1..n
    BY <1>3
  <2>2. PICK q : RunsThrough(r, s, n, q)
    BY <2>1, RunIs
  <2> QED BY <2>2 DEF RunsThrough
<1> DEFINE Did(k, K) == \E i \in 1..k : s[i] \in K
           Good(k) == /\ q[k].ok \in BOOLEAN
                      /\ ~q[k].ok => q[k].ledger = ledger
                      /\ q[k].ok => Reached(q[k].ledger, r, Did(k, {"mintTo"}), Did(k, Paying),
                                            Did(k, {"edition"}), Did(k, {"verify"}))
<1>5. Good(0)
  <2>1. ~Did(0, {"mintTo"}) /\ ~Did(0, Paying) /\ ~Did(0, {"edition"}) /\ ~Did(0, {"verify"})
    OBVIOUS
  <2>2. \A m \in Mints : Token!Supply(ledger, m) \in Nat
    BY SupplyIsSum
  <2>3. \A a \in Friends : ledger.amount[a] \in Nat
    BY DEF Ledgers, Friends
  <2>4. Reached(ledger, r, FALSE, FALSE, FALSE, FALSE)
    BY <2>2, <2>3 DEF Reached, Minted, Given
  <2>5. Reached(ledger, r, Did(0, {"mintTo"}), Did(0, Paying), Did(0, {"edition"}), Did(0, {"verify"}))
    <3> HIDE DEF Did
    <3> QED BY <2>1, <2>4 DEF Reached, Minted, Given
  <2>6. q[0].ok = TRUE /\ q[0].ledger = ledger
    BY <1>4 DEF Begun
  <2> HIDE DEF Did
  <2> QED BY <2>5, <2>6
<1>6. ASSUME NEW k \in 1..n, Good(k - 1) PROVE Good(k)
  <2>1. q[k] = OneMore(r, q[k - 1], s[k])
    BY <1>4
  <2>2. CASE ~(q[k - 1].ok /\ Token!Can(q[k - 1].ledger, r, s[k]))
    <3>1. q[k] = [ok |-> FALSE, ledger |-> ledger]
      BY <2>1, <2>2 DEF OneMore
    <3>2. q[k].ok = FALSE /\ q[k].ledger = ledger
      BY <3>1
    <3> QED BY <3>2
  <2>3. CASE q[k - 1].ok /\ Token!Can(q[k - 1].ledger, r, s[k])
    <3>1. q[k].ok = TRUE /\ q[k].ledger = Token!Do(q[k - 1].ledger, r, s[k])
      <4>1. PICK run, d : run = q[k - 1] /\ d = Token!Do(run.ledger, r, s[k])
        OBVIOUS
      <4> QED BY <2>1, <2>3 DEF OneMore
    <3>2. \A K : Did(k, K) <=> (Did(k - 1, K) \/ s[k] \in K)
      <4>1. \A i : i \in 1..k <=> i \in 1 .. (k - 1) \/ i = k
        BY <1>3
      <4> QED BY <4>1
    <3>3. /\ s[k] \in Kinds
          /\ s[k] = "transfer" => r.from = Wallet
      BY <1>2, <1>3 DEF Has, TransfersFor, Token!Signable
    <3>4. Did(k - 1, Paying) => s[k] \notin Paying
      <4> SUFFICES ASSUME NEW i \in 1 .. (k - 1), s[i] \in Paying, s[k] \in Paying PROVE FALSE
        OBVIOUS
      <4>1. i \in DOMAIN s /\ k \in DOMAIN s /\ i # k
        BY <1>3
      <4> QED BY <1>2, <4>1 DEF PaysOnce
    <3>5. Did(k - 1, {"mintTo"}) => Did(k - 1, Paying)
      BY DEF Paying
    <3>6. Reached(q[k - 1].ledger, r, Did(k - 1, {"mintTo"}), Did(k - 1, Paying),
                  Did(k - 1, {"edition"}), Did(k - 1, {"verify"}))
      BY <1>6, <2>3
    <3> HIDE DEF Did
    <3>7. PICK a \in BOOLEAN, b \in BOOLEAN, c \in BOOLEAN, e \in BOOLEAN :
            /\ a <=> Did(k - 1, {"mintTo"})
            /\ b <=> Did(k - 1, Paying)
            /\ c <=> Did(k - 1, {"edition"})
            /\ e <=> Did(k - 1, {"verify"})
      OBVIOUS
    <3>8. PICK l : l = q[k - 1].ledger
      OBVIOUS
    <3>9. Reached(l, r, a, b, c, e)
      BY <3>6, <3>7, <3>8 DEF Reached, Minted, Given
    <3>10. (a => b) /\ (b => s[k] \notin Paying)
      BY <3>4, <3>5, <3>7
    <3>11. Reached(Token!Do(l, r, s[k]), r, a \/ s[k] = "mintTo", b \/ s[k] \in Paying,
                   c \/ s[k] = "edition", e \/ s[k] = "verify")
      BY <2>3, <3>3, <3>8, <3>9, <3>10, ReachedStep
    <3>12. PICK d : d = Token!Do(l, r, s[k])
      OBVIOUS
    <3>13. Reached(d, r, Did(k, {"mintTo"}), Did(k, Paying), Did(k, {"edition"}), Did(k, {"verify"}))
      <4>1. /\ Did(k, {"mintTo"}) <=> (a \/ s[k] = "mintTo")
            /\ Did(k, Paying) <=> (b \/ s[k] \in Paying)
            /\ Did(k, {"edition"}) <=> (c \/ s[k] = "edition")
            /\ Did(k, {"verify"}) <=> (e \/ s[k] = "verify")
        BY <3>2, <3>7
      <4> QED BY <3>11, <3>12, <4>1 DEF Reached, Minted, Given
    <3> QED BY <3>1, <3>8, <3>12, <3>13
  <2> QED BY <2>2, <2>3
<1>7. \A k \in 0..n : Good(k)
  <2> DEFINE Bad == {k \in 0..n : ~Good(k)}
  <2> SUFFICES ASSUME Bad # {} PROVE FALSE
    OBVIOUS
  <2> HIDE DEF Good
  <2>1. Min(Bad) \in Bad /\ \A k \in Bad : Min(Bad) <= k
    <3>1. Bad \subseteq Nat
      BY <1>3
    <3> QED BY <3>1, MinIsLeast
  <2>2. PICK k \in Bad : \A i \in Bad : k <= i
    BY <2>1
  <2>3. k \in 1..n /\ k - 1 \in 0..n /\ ~(k <= k - 1)
    BY <1>3, <1>5, <2>2
  <2> QED BY <1>6, <2>2, <2>3
<1>8. Good(n)
  <2> HIDE DEF Good
  <2>1. n \in 0..n
    BY <1>3
  <2> QED BY <1>7, <2>1
<1>9. /\ Did(n, {"mintTo"}) <=> MintsFor(r)
      /\ Did(n, Paying) <=> MintsFor(r) \/ TransfersFor(r)
      /\ r.op = "createNft" => Did(n, {"edition"})
      /\ r.op = "createNft" /\ r.collection # "none" => Did(n, {"verify"})
  BY <1>2, <1>3 DEF Has, Paying
<1> HIDE DEF Did
<1> QED BY <1>1, <1>4, <1>8, <1>9 DEF Reached, Minted, Given

-----------------------------------------------------------------------------
(* The callers *)

InFlight(c) == {t \in flight : t.by = c}

\* The calls of c that have come as far as their transaction.
Made(c) == IF helperPc[c] \in {"look", "send"} THEN helperTries[c] - 1 ELSE helperTries[c]

Worth(n) == [c \in Callers |-> request[c].amount * n[c]]

\* n[c] is how often c has had the effect it asked for: what the supplies and the accounts hold, ...
AddUp(n) ==
  /\ \A m \in Mints : Token!Supply(ledger, m) = Total(Worth(n), Token!Minting(m))
  /\ \A a \in Friends : ledger.amount[a] = Total(Worth(n), Token!Giving(a))

\* ... once at most for each of its calls, be its transaction executed or still to come, and at
\* least once if it has returned, unless there was nothing to be paid.
Paced(n) ==
  \A c \in Callers : /\ IsFiniteSet(InFlight(c))
                     /\ n[c] + Cardinality(InFlight(c)) <= Made(c)
                     /\ helperPc[c] = "returned" => n[c] >= 1 \/ request[c].amount = 0

TokenTypes ==
  /\ ledger \in Ledgers /\ request \in [Callers -> Request]
  /\ helperPc \in [Callers -> {"look", "send", "await", "returned", "threw"}]
  /\ found \in [Callers -> BOOLEAN] /\ helperTries \in [Callers -> Nat \ {0}]
  /\ \A t \in flight : /\ t.by \in Callers /\ Token!Signable(request[t.by])
                       /\ \E seen \in BOOLEAN : t.kinds = Token!InstructionsFor(request[t.by], seen)

\* What createNft has made stays as it made it.
NftsStay ==
  \A c \in Callers : helperPc[c] = "returned" /\ request[c].op = "createNft" =>
    /\ ledger.mint[request[c].mint] = "edition"
    /\ request[c].collection # "none" => request[c].mint \in ledger.verified

TokenInv ==
  TokenTypes /\ Sealed(ledger) /\ NftsStay /\ \E n \in [Callers -> Nat] : AddUp(n) /\ Paced(n)

LEMMA TotalZero ==
  ASSUME NEW S, NEW f, \A x \in S : f[x] = 0
  PROVE  Total(f, S) = 0
<1>1. \A x \in S : 1 .. f[x] = {}
  OBVIOUS
<1>2. Units(f, S) = {}
  BY <1>1 DEF Units
<1> QED BY <1>2, FS_EmptySet DEF Total

LEMMA TokenInit == ASSUME Token!Init PROVE TokenInv
<1>1. PICK made \in SUBSET Existing :
        ledger = [mint |-> [m \in Mints |-> IF m \in made THEN "held" ELSE Token!None],
                  metadata |-> {}, verified |-> {}, accounts |-> {},
                  amount |-> [a \in Mints \X Owners |-> 0]]
  BY DEF Token!Init
<1>2. /\ ledger \in Ledgers /\ \A m \in Mints : ledger.mint[m] # "edition"
      /\ \A a \in Mints \X Owners : ledger.amount[a] = 0
  BY <1>1 DEF Ledgers, Token!None
<1>3. TokenTypes
  BY <1>2, RequestsAssumption DEF Token!Init, TokenTypes, Request
<1>4. NftsStay /\ Sealed(ledger)
  BY <1>2 DEF Token!Init, NftsStay, Sealed
<1> DEFINE n == [c \in Callers |-> 0]
<1>5. \A C \in SUBSET Callers : Total(Worth(n), C) = 0
  <2> SUFFICES ASSUME NEW C \in SUBSET Callers PROVE \A c \in C : Worth(n)[c] = 0
    BY TotalZero
  <2> QED BY <1>3 DEF Worth, TokenTypes, Request
<1>6. AddUp(n)
  <2>1. ASSUME NEW m \in Mints PROVE Token!Supply(ledger, m) = 0
    <3>1. \A o \in Owners : Row(ledger, m)[o] = 0
      BY <1>2 DEF Row
    <3> QED BY <1>2, <3>1, SupplyIsSum, TotalZero
  <2>2. /\ \A m \in Mints : Token!Minting(m) \in SUBSET Callers
        /\ \A a \in Friends : Token!Giving(a) \in SUBSET Callers /\ a \in Mints \X Owners
    BY DEF Token!Minting, Token!Giving, Friends
  <2> QED BY <1>2, <1>5, <2>1, <2>2 DEF AddUp
<1>7. Paced(n)
  <2> SUFFICES ASSUME NEW c \in Callers
               PROVE  /\ IsFiniteSet(InFlight(c)) /\ n[c] + Cardinality(InFlight(c)) <= Made(c)
                      /\ helperPc[c] # "returned"
    BY DEF Paced
  <2>1. InFlight(c) = {} /\ helperPc[c] = "look" /\ helperTries[c] = 1
    BY DEF Token!Init, InFlight
  <2>2. Cardinality({}) = 0 /\ IsFiniteSet({})
    BY FS_EmptySet
  <2> QED BY <2>1, <2>2 DEF Made
<1> HIDE DEF n
<1>8. n \in [Callers -> Nat]
  BY DEF n
<1> QED BY <1>3, <1>4, <1>6, <1>7, <1>8 DEF TokenInv

\* Where no transaction is executed, the counts stay.
LEMMA AddUpStays ==
  ASSUME NEW n, AddUp(n), ledger' = ledger, request' = request
  PROVE  AddUp(n)'
<1>1. Worth(n)' = Worth(n)
  BY DEF Worth
<1>2. \A m : (Token!Minting(m))' = Token!Minting(m)
  BY DEF Token!Minting
<1>3. \A a : (Token!Giving(a))' = Token!Giving(a)
  BY DEF Token!Giving, Token!Account
<1>4. \A m : (Token!Supply(ledger, m))' = Token!Supply(ledger, m)
  OBVIOUS
<1> QED BY <1>1, <1>2, <1>3, <1>4 DEF AddUp

LEMMA LookOfHelper == ASSUME TokenInv, NEW c \in Callers, Token!Look(c) PROVE TokenInv'
<1>1. /\ UNCHANGED <<ledger, flight, request, helperTries>>
      /\ helperPc[c] = "look" /\ helperPc' = [helperPc EXCEPT ![c] = "send"]
      /\ found' = [found EXCEPT ![c] = Token!Seen(request[c])]
  BY DEF Token!Look, Token!Move
<1>2. Token!Seen(request[c]) \in BOOLEAN
  BY DEF Token!Seen
<1>3. TokenTypes'
  BY <1>1, <1>2 DEF TokenInv, TokenTypes
<1>4. Sealed(ledger)' /\ NftsStay'
  BY <1>1 DEF TokenInv, TokenTypes, NftsStay, Sealed
<1>5. PICK n \in [Callers -> Nat] : AddUp(n) /\ Paced(n)
  BY DEF TokenInv
<1>6. AddUp(n)'
  BY <1>1, <1>5, AddUpStays
<1>7. Paced(n)'
  BY <1>1, <1>5 DEF Paced, InFlight, Made, TokenInv, TokenTypes
<1> QED BY <1>3, <1>4, <1>6, <1>7 DEF TokenInv

LEMMA SendOfHelper == ASSUME TokenInv, NEW c \in Callers, Token!Send(c) PROVE TokenInv'
<1> USE DEF Token!Move
<1> PICK r, seen, s :
      /\ r \in Request /\ seen \in BOOLEAN
      /\ r = request[c] /\ seen = found[c] /\ s = Token!InstructionsFor(r, seen)
  BY DEF TokenInv, TokenTypes
<1> PICK n \in [Callers -> Nat] : AddUp(n) /\ Paced(n)
  BY DEF TokenInv
<1>1. /\ UNCHANGED <<ledger, request, found, helperTries>> /\ helperPc[c] = "send"
      /\ \/ helperPc' = [helperPc EXCEPT ![c] = "threw"] /\ UNCHANGED flight
         \/ /\ r.op # "createAta" /\ s = <<>>
            /\ helperPc' = [helperPc EXCEPT ![c] = "returned"] /\ UNCHANGED flight
         \/ /\ Token!Signable(r) /\ helperPc' = [helperPc EXCEPT ![c] = "await"]
            /\ \E t : /\ t.by = c /\ t.kinds = s
                      /\ flight' = flight \cup {t}
  BY DEF Token!Send, Token!Sends
<1>2. AddUp(n)'
  BY <1>1, AddUpStays
<1>3. TokenTypes'
  BY <1>1 DEF TokenInv, TokenTypes
<1>4. Sealed(ledger)'
  BY <1>1 DEF TokenInv, Sealed
<1>5. s = <<>> /\ r.op # "createAta" => r.amount = 0 /\ r.op # "createNft"
  <2>1. DOMAIN <<>> = {}
    BY LenProperties, EmptySeq
  <2>2. s = <<>> => \A K : ~Has(s, K)
    BY <2>1 DEF Has
  <2>3. /\ Has(s, {"mintTo"}) <=> MintsFor(r)
        /\ Has(s, {"transfer"}) <=> TransfersFor(r)
        /\ r.op = "createMint" => Has(s, {"createMint"})
        /\ r.op = "createNft" => Has(s, {"edition"})
    BY ScriptIs
  <2> QED BY <2>2, <2>3 DEF MintsFor, TransfersFor, Request
<1>6. NftsStay'
  BY <1>1, <1>5 DEF TokenInv, TokenTypes, NftsStay
<1>7. Paced(n)'
  <2> SUFFICES ASSUME NEW b \in Callers
               PROVE  /\ IsFiniteSet(InFlight(b)')
                      /\ n[b] + Cardinality(InFlight(b)') <= Made(b)'
                      /\ helperPc'[b] = "returned" => n[b] >= 1 \/ request'[b].amount = 0
    BY DEF Paced
  <2>1. /\ IsFiniteSet(InFlight(b)) /\ Cardinality(InFlight(b)) \in Nat
        /\ n[b] + Cardinality(InFlight(b)) <= Made(b)
        /\ helperPc[b] = "returned" => n[b] >= 1 \/ request[b].amount = 0
    BY FS_CardinalityType DEF Paced
  <2>2. helperPc'[b] = "returned" => n[b] >= 1 \/ request'[b].amount = 0
    BY <1>1, <1>5, <2>1 DEF TokenInv, TokenTypes
  <2>3. /\ b # c => Made(b)' = Made(b)
        /\ Made(c)' = Made(c) + 1 /\ Made(c) \in Nat /\ Made(b) \in Nat
    BY <1>1 DEF Made, TokenInv, TokenTypes
  <2>4. \/ InFlight(b)' = InFlight(b)
        \/ b = c /\ \E t : InFlight(b)' = InFlight(b) \cup {t}
    BY <1>1 DEF InFlight
  <2>5. CASE InFlight(b)' = InFlight(b)
    BY <2>1, <2>2, <2>3, <2>5
  <2>6. ASSUME b = c, NEW t, InFlight(b)' = InFlight(b) \cup {t}
        PROVE  IsFiniteSet(InFlight(b)') /\ n[b] + Cardinality(InFlight(b)') <= Made(b)'
    <3>1. PICK F, G : F = InFlight(b) /\ G = InFlight(b)'
      OBVIOUS
    <3>2. /\ IsFiniteSet(F \cup {t})
          /\ Cardinality(F \cup {t}) = Cardinality(F) \/ Cardinality(F \cup {t}) = Cardinality(F) + 1
      BY <2>1, <3>1, FS_AddElement
    <3> QED BY <2>1, <2>3, <2>6, <3>1, <3>2
  <2> QED BY <2>2, <2>4, <2>5, <2>6
<1> QED BY <1>2, <1>3, <1>4, <1>6, <1>7 DEF TokenInv

LEMMA RejectOfHelper == ASSUME TokenInv, NEW c \in Callers, Token!Reject(c) PROVE TokenInv'
<1>1. /\ UNCHANGED <<ledger, flight, request, found, helperTries>>
      /\ helperPc[c] \in {"look", "await"} /\ helperPc' = [helperPc EXCEPT ![c] = "threw"]
  BY DEF Token!Reject, Token!Move
<1>2. PICK n \in [Callers -> Nat] : AddUp(n) /\ Paced(n)
  BY DEF TokenInv
<1>3. AddUp(n)'
  BY <1>1, <1>2, AddUpStays
<1>4. TokenTypes' /\ Sealed(ledger)' /\ NftsStay'
  BY <1>1 DEF TokenInv, TokenTypes, NftsStay, Sealed
<1>5. \A b \in Callers : Made(b) \in Nat /\ Made(b)' \in Nat /\ Made(b) <= Made(b)'
  BY <1>1 DEF Made, TokenInv, TokenTypes
<1>6. \A b \in Callers : InFlight(b)' = InFlight(b) /\ Cardinality(InFlight(b)) \in Nat
  BY <1>1, <1>2, FS_CardinalityType DEF InFlight, Paced
<1>7. \A b \in Callers : helperPc'[b] = "returned" => helperPc[b] = "returned"
  BY <1>1 DEF TokenInv, TokenTypes
<1>8. Paced(n)'
  BY <1>1, <1>2, <1>5, <1>6, <1>7 DEF Paced
<1> QED BY <1>2, <1>3, <1>4, <1>8 DEF TokenInv

LEMMA AgainOfHelper == ASSUME TokenInv, NEW c \in Callers, Token!Again(c) PROVE TokenInv'
<1>1. /\ UNCHANGED <<ledger, flight, request, found>>
      /\ helperPc[c] = "threw" /\ helperPc' = [helperPc EXCEPT ![c] = "look"]
      /\ helperTries' = [helperTries EXCEPT ![c] = @ + 1]
  BY DEF Token!Again, Token!Move
<1>2. PICK n \in [Callers -> Nat] : AddUp(n) /\ Paced(n)
  BY DEF TokenInv
<1>3. AddUp(n)'
  BY <1>1, <1>2, AddUpStays
<1>4. TokenTypes' /\ Sealed(ledger)' /\ NftsStay'
  BY <1>1 DEF TokenInv, TokenTypes, NftsStay, Sealed
<1>5. \A b \in Callers : Made(b)' = Made(b)
  BY <1>1 DEF Made, TokenInv, TokenTypes
<1>6. \A b \in Callers : InFlight(b)' = InFlight(b)
  BY <1>1 DEF InFlight
<1>7. \A b \in Callers : helperPc'[b] = "returned" => helperPc[b] = "returned"
  BY <1>1 DEF TokenInv, TokenTypes
<1>8. Paced(n)'
  BY <1>1, <1>2, <1>5, <1>6, <1>7 DEF Paced
<1> QED BY <1>2, <1>3, <1>4, <1>8 DEF TokenInv

\* A transaction that is no longer under way leaves room for the effect it may have had.
LEMMA FewerInFlight ==
  ASSUME NEW n \in [Callers -> Nat], Paced(n), NEW t \in flight, flight' = flight \ {t}
  PROVE  /\ \A c \in Callers : /\ IsFiniteSet(InFlight(c)) /\ IsFiniteSet(InFlight(c)')
                               /\ Cardinality(InFlight(c)) \in Nat /\ Cardinality(InFlight(c)') \in Nat
                               /\ Cardinality(InFlight(c)') <= Cardinality(InFlight(c))
         /\ t.by \in Callers => Cardinality(InFlight(t.by)') = Cardinality(InFlight(t.by)) - 1
<1>1. ASSUME NEW c \in Callers
      PROVE  /\ IsFiniteSet(InFlight(c)) /\ IsFiniteSet(InFlight(c)')
             /\ Cardinality(InFlight(c)) \in Nat /\ Cardinality(InFlight(c)') \in Nat
             /\ Cardinality(InFlight(c)') <= Cardinality(InFlight(c))
             /\ c = t.by => Cardinality(InFlight(c)') = Cardinality(InFlight(c)) - 1
  <2>1. PICK F, G : F = InFlight(c) /\ G = InFlight(c)'
    OBVIOUS
  <2>2. IsFiniteSet(F) /\ G \subseteq F /\ (c = t.by => t \in F /\ G = F \ {t})
    BY <2>1 DEF Paced, InFlight
  <2>3. IsFiniteSet(G) /\ Cardinality(F) \in Nat /\ Cardinality(G) \in Nat
        /\ Cardinality(G) <= Cardinality(F)
    BY <2>2, FS_Subset, FS_CardinalityType
  <2>4. c = t.by => Cardinality(G) = Cardinality(F) - 1
    BY <2>2, FS_RemoveElement
  <2> QED BY <2>1, <2>2, <2>3, <2>4
<1> QED BY <1>1

LEMMA ToldIs ==
  ASSUME TokenTypes, NEW t \in flight, NEW ok \in BOOLEAN, Token!Told(t, ok),
         UNCHANGED helperTries
  PROVE  /\ helperPc' \in [Callers -> {"look", "send", "await", "returned", "threw"}]
         /\ \A c \in Callers : Made(c)' = Made(c) /\ Made(c) \in Nat
         /\ \A c \in Callers : helperPc'[c] = "returned" =>
              helperPc[c] = "returned" \/ (c = t.by /\ ok)
<1>1. \/ UNCHANGED helperPc
      \/ /\ helperPc[t.by] = "await"
         /\ helperPc' = [helperPc EXCEPT ![t.by] = IF ok THEN "returned" ELSE "threw"]
  BY DEF Token!Told, Token!Move, Token!Answer
<1> QED BY <1>1 DEF TokenTypes, Made

LEMMA DropOfHelper == ASSUME TokenInv, NEW t \in flight, Token!Drop(t) PROVE TokenInv'
<1>1. /\ UNCHANGED <<ledger, request, found, helperTries>> /\ flight' = flight \ {t}
      /\ Token!Told(t, FALSE)
  BY DEF Token!Drop
<1>2. PICK n \in [Callers -> Nat] : AddUp(n) /\ Paced(n)
  BY DEF TokenInv
<1>3. AddUp(n)'
  BY <1>1, <1>2, AddUpStays
<1>4. /\ helperPc' \in [Callers -> {"look", "send", "await", "returned", "threw"}]
      /\ \A c \in Callers : Made(c)' = Made(c) /\ Made(c) \in Nat
      /\ \A c \in Callers : helperPc'[c] = "returned" => helperPc[c] = "returned"
  BY <1>1, ToldIs DEF TokenInv
<1>5. TokenTypes' /\ Sealed(ledger)' /\ NftsStay'
  BY <1>1, <1>4 DEF TokenInv, TokenTypes, NftsStay, Sealed
<1>6. \A c \in Callers : /\ IsFiniteSet(InFlight(c)')
                         /\ Cardinality(InFlight(c)) \in Nat /\ Cardinality(InFlight(c)') \in Nat
                         /\ Cardinality(InFlight(c)') <= Cardinality(InFlight(c))
  BY <1>1, <1>2, FewerInFlight
<1>7. Paced(n)'
  BY <1>1, <1>2, <1>4, <1>6 DEF Paced
<1> QED BY <1>2, <1>3, <1>5, <1>7 DEF TokenInv

\* One more effect of b is one more term in what b adds to, and in no other.
LEMMA OneMoreEffect ==
  ASSUME request \in [Callers -> Request], NEW n \in [Callers -> Nat], NEW b \in Callers,
         NEW C \in SUBSET Callers, NEW e \in [Callers -> Nat],
         \A c \in Callers : e[c] = IF c = b THEN n[c] + 1 ELSE n[c]
  PROVE  /\ Total(Worth(n), C) \in Nat
         /\ Total(Worth(e), C) = Total(Worth(n), C) + IF b \in C THEN request[b].amount ELSE 0
<1>1. \A c \in Callers : request[c].amount \in Nat /\ n[c] \in Nat /\ e[c] \in Nat
  BY DEF Request
<1>2. \A c \in Callers : Worth(n)[c] \in Nat /\ Worth(e)[c] \in Nat
  <2>1. \A x, y \in Nat : x * y \in Nat
    OBVIOUS
  <2> QED BY <1>1, <2>1 DEF Worth
<1>3. /\ \A c \in Callers \ {b} : Worth(n)[c] = Worth(e)[c]
      /\ Worth(e)[b] = Worth(n)[b] + request[b].amount
  <2>1. \A x, y \in Nat : x * (y + 1) = x * y + x
    OBVIOUS
  <2>2. e[b] = n[b] + 1 /\ \A c \in Callers \ {b} : e[c] = n[c]
    OBVIOUS
  <2>3. request[b].amount * (n[b] + 1) = request[b].amount * n[b] + request[b].amount
    BY <1>1, <2>1
  <2> QED BY <2>2, <2>3 DEF Worth
<1>4. IsFiniteSet(C)
  BY RequestsAssumption, FS_Subset
<1>5. Total(Worth(n), C) \in Nat
  BY <1>2, <1>4, UnitsFinite, FS_CardinalityType DEF Total
<1>6. CASE b \in C
  <2>1. /\ \A y \in C : Worth(n)[y] \in Nat /\ Worth(e)[y] \in Nat
        /\ \A y \in C \ {b} : Worth(n)[y] = Worth(e)[y]
    BY <1>2, <1>3
  <2>2. PICK f, g : f = Worth(n) /\ g = Worth(e)
    OBVIOUS
  <2>3. /\ \A y \in C : f[y] \in Nat /\ g[y] \in Nat
        /\ \A y \in C \ {b} : f[y] = g[y]
    BY <2>1, <2>2
  <2>4. Total(g, C) \in Nat /\ Total(g, C) + f[b] = Total(f, C) + g[b]
    BY ONLY <1>4, <1>6, <2>3, TotalChange
  <2> QED BY <1>1, <1>2, <1>3, <1>5, <1>6, <2>2, <2>4
<1>7. CASE b \notin C
  <2>1. Total(Worth(e), C) = Total(Worth(n), C)
    BY <1>3, <1>7, TotalSame
  <2> QED BY <1>5, <1>7, <2>1
<1> QED BY <1>6, <1>7

LEMMA LandOfHelper == ASSUME TokenInv, NEW t \in flight, Token!Land(t) PROVE TokenInv'
<1> PICK b \in Callers, r \in Request, seen \in BOOLEAN :
      /\ b = t.by /\ r = request[b] /\ Token!Signable(r)
      /\ t.kinds = Token!InstructionsFor(r, seen)
  BY DEF TokenInv, TokenTypes
<1> PICK ok, l :
      /\ ok = Token!Run(r, Token!InstructionsFor(r, seen)).ok
      /\ l = Token!Run(r, Token!InstructionsFor(r, seen)).ledger
  OBVIOUS
<1> PICK n \in [Callers -> Nat] : AddUp(n) /\ Paced(n)
  BY DEF TokenInv
<1>1. /\ UNCHANGED <<request, found, helperTries>> /\ flight' = flight \ {t}
      /\ ledger' = l /\ Token!Told(t, ok)
  BY DEF Token!Land
<1>2. /\ ok \in BOOLEAN
      /\ ~ok => l = ledger
      /\ ok => Reached(l, r, MintsFor(r), MintsFor(r) \/ TransfersFor(r),
                       r.op = "createNft", r.op = "createNft" /\ r.collection # "none")
  BY RunDoes DEF TokenInv, TokenTypes
<1>3. /\ helperPc' \in [Callers -> {"look", "send", "await", "returned", "threw"}]
      /\ \A c \in Callers : Made(c)' = Made(c) /\ Made(c) \in Nat
      /\ \A c \in Callers : helperPc'[c] = "returned" => helperPc[c] = "returned" \/ (c = b /\ ok)
  BY <1>1, <1>2, ToldIs DEF TokenInv
<1>4. l \in Ledgers /\ Sealed(l)
  BY <1>2 DEF Reached, TokenInv, TokenTypes
<1>5. TokenTypes'
  BY <1>1, <1>3, <1>4 DEF TokenInv, TokenTypes
<1>6. Sealed(ledger)'
  BY <1>1, <1>4
<1>7. NftsStay'
  <2>1. /\ \A m \in Mints : ledger.mint[m] = "edition" => l.mint[m] = "edition"
        /\ ledger.verified \subseteq l.verified
        /\ ok /\ r.op = "createNft" => l.mint[r.mint] = "edition"
        /\ ok /\ r.op = "createNft" /\ r.collection # "none" => r.mint \in l.verified
    BY <1>2 DEF Reached
  <2>2. \A c \in Callers : request[c].mint \in Mints
    BY DEF TokenInv, TokenTypes, Request
  <2> SUFFICES ASSUME NEW c \in Callers, helperPc'[c] = "returned", request[c].op = "createNft"
               PROVE  /\ l.mint[request[c].mint] = "edition"
                      /\ request[c].collection # "none" => request[c].mint \in l.verified
    BY <1>1 DEF NftsStay
  <2> QED BY <1>3, <2>1, <2>2 DEF TokenInv, NftsStay
<1>8. /\ \A c \in Callers : /\ IsFiniteSet(InFlight(c)')
                            /\ Cardinality(InFlight(c)) \in Nat /\ Cardinality(InFlight(c)') \in Nat
                            /\ Cardinality(InFlight(c)') <= Cardinality(InFlight(c))
      /\ Cardinality(InFlight(b)') = Cardinality(InFlight(b)) - 1
  BY <1>1, FewerInFlight
<1>9. CASE ~ok
  <2>1. AddUp(n)'
    BY <1>1, <1>2, <1>9, AddUpStays
  <2>2. Paced(n)'
    BY <1>1, <1>3, <1>8, <1>9 DEF Paced
  <2> QED BY <1>5, <1>6, <1>7, <2>1, <2>2 DEF TokenInv
<1>10. CASE ok
  <2>0. PICK e : e = [n EXCEPT ![b] = @ + 1]
    OBVIOUS
  <2>1. e \in [Callers -> Nat] /\ \A c \in Callers : e[c] = IF c = b THEN n[c] + 1 ELSE n[c]
    BY <2>0
  <2>2. \A C \in SUBSET Callers :
          Total(Worth(e), C) = Total(Worth(n), C) + IF b \in C THEN request[b].amount ELSE 0
    <3>1. request \in [Callers -> Request]
      BY DEF TokenInv, TokenTypes
    <3> SUFFICES ASSUME NEW C \in SUBSET Callers
                 PROVE  Total(Worth(e), C)
                          = Total(Worth(n), C) + IF b \in C THEN request[b].amount ELSE 0
      OBVIOUS
    <3> QED BY <2>1, <3>1, OneMoreEffect
  <2>3. /\ \A m \in Mints : Token!Supply(l, m) = Token!Supply(ledger, m) + Minted(r, MintsFor(r), m)
        /\ \A a \in Friends : l.amount[a] = ledger.amount[a] + Given(r, MintsFor(r) \/ TransfersFor(r), a)
    BY <1>2, <1>10 DEF Reached
  <2>4. \A m \in Mints : /\ Token!Minting(m) \in SUBSET Callers
                         /\ Minted(r, MintsFor(r), m) = IF b \in Token!Minting(m) THEN request[b].amount ELSE 0
    BY DEF Token!Minting, Minted, MintsFor, Request
  <2>5. \A a \in Friends :
          /\ Token!Giving(a) \in SUBSET Callers
          /\ Given(r, MintsFor(r) \/ TransfersFor(r), a)
               = IF b \in Token!Giving(a) THEN request[b].amount ELSE 0
    BY DEF Token!Giving, Given, MintsFor, TransfersFor, Request
  <2>6. /\ \A m \in Mints : Token!Supply(l, m) = Total(Worth(e), Token!Minting(m))
        /\ \A a \in Friends : l.amount[a] = Total(Worth(e), Token!Giving(a))
    BY <2>2, <2>3, <2>4, <2>5 DEF AddUp
  <2>7. AddUp(e)'
    <3>1. Worth(e)' = Worth(e)
      BY <1>1 DEF Worth
    <3>2. \A m : (Token!Minting(m))' = Token!Minting(m)
      BY <1>1 DEF Token!Minting
    <3>3. \A a : (Token!Giving(a))' = Token!Giving(a)
      BY <1>1 DEF Token!Giving, Token!Account
    <3> QED BY <1>1, <2>6, <3>1, <3>2, <3>3 DEF AddUp
  <2>8. Paced(e)'
    <3> SUFFICES ASSUME NEW c \in Callers
                 PROVE  /\ e[c] + Cardinality(InFlight(c)') <= Made(c)'
                        /\ helperPc'[c] = "returned" => e[c] >= 1 \/ request[c].amount = 0
      BY <1>1, <1>8 DEF Paced
    <3>1. /\ n[c] + Cardinality(InFlight(c)) <= Made(c)
          /\ helperPc[c] = "returned" => n[c] >= 1 \/ request[c].amount = 0
      BY DEF Paced
    <3>2. e[c] = (IF c = b THEN n[c] + 1 ELSE n[c]) /\ n[c] \in Nat
      BY <2>1
    <3> QED BY <1>3, <1>8, <3>1, <3>2
  <2> QED BY <1>5, <1>6, <1>7, <2>1, <2>7, <2>8 DEF TokenInv
<1> QED BY <1>2, <1>9, <1>10

LEMMA TokenStep == TokenInv /\ [Token!Next]_(Token!vars) => TokenInv'
<1> SUFFICES ASSUME TokenInv, [Token!Next]_(Token!vars) PROVE TokenInv'
  OBVIOUS
<1>1. CASE UNCHANGED Token!vars
  <2>1. UNCHANGED <<ledger, flight, request, helperPc, found, helperTries>>
    BY <1>1 DEF Token!vars
  <2>2. PICK n \in [Callers -> Nat] : AddUp(n) /\ Paced(n)
    BY DEF TokenInv
  <2>3. AddUp(n)'
    BY <2>1, <2>2, AddUpStays
  <2>4. TokenTypes' /\ Sealed(ledger)' /\ NftsStay' /\ Paced(n)'
    BY <2>1, <2>2 DEF TokenInv, TokenTypes, Sealed, NftsStay, Paced, InFlight, Made
  <2> QED BY <2>2, <2>3, <2>4 DEF TokenInv
<1>2. ASSUME NEW c \in Callers,
             Token!Look(c) \/ Token!Send(c) \/ Token!Reject(c) \/ Token!Again(c)
      PROVE  TokenInv'
  BY <1>2, LookOfHelper, SendOfHelper, RejectOfHelper, AgainOfHelper
<1>3. ASSUME NEW t \in flight, Token!Land(t) \/ Token!Drop(t) PROVE TokenInv'
  BY <1>3, LandOfHelper, DropOfHelper
<1> QED BY <1>1, <1>2, <1>3 DEF Token!Next

LEMMA TokenFollows == TokenInv => EffectsAreCounted
<1> SUFFICES ASSUME TokenInv PROVE EffectsAreCounted
  OBVIOUS
<1> PICK n \in [Callers -> Nat] : AddUp(n) /\ Paced(n)
  BY DEF TokenInv
<1>1. \A c \in Callers : /\ request[c].amount \in Nat /\ n[c] \in Nat
                         /\ helperTries[c] \in Nat /\ n[c] <= helperTries[c]
                         /\ helperPc[c] = "returned" => n[c] >= 1 \/ request[c].amount = 0
  <2> SUFFICES ASSUME NEW c \in Callers
               PROVE  /\ request[c].amount \in Nat /\ n[c] \in Nat
                      /\ helperTries[c] \in Nat /\ n[c] <= helperTries[c]
                      /\ helperPc[c] = "returned" => n[c] >= 1 \/ request[c].amount = 0
    OBVIOUS
  <2>1. request[c].amount \in Nat /\ n[c] \in Nat /\ helperTries[c] \in Nat
    BY DEF TokenInv, TokenTypes, Request
  <2>2. Made(c) \in Int /\ Made(c) <= helperTries[c]
    BY <2>1 DEF Made
  <2>3. /\ Cardinality(InFlight(c)) \in Nat /\ n[c] + Cardinality(InFlight(c)) <= Made(c)
        /\ helperPc[c] = "returned" => n[c] >= 1 \/ request[c].amount = 0
    BY FS_CardinalityType DEF Paced
  <2> QED BY <2>1, <2>2, <2>3
<1>2. \A x, y, z \in Nat : x * y \in Nat /\ (y <= z => x * y <= x * z) /\ (y >= 1 => x <= x * y)
  OBVIOUS
<1>3. ASSUME NEW C \in SUBSET Callers
      PROVE  Token!Granted(C) <= Total(Worth(n), C) /\ Total(Worth(n), C) <= Token!Asked(C)
  <2>1. IsFiniteSet(C)
    BY RequestsAssumption, FS_Subset
  <2> DEFINE G == {c \in C : helperPc[c] = "returned"}
             grant == [c \in G |-> request[c].amount]
             ask == [c \in C |-> request[c].amount * helperTries[c]]
  <2>2. /\ \A c \in C : Worth(n)[c] \in Nat /\ ask[c] \in Nat /\ Worth(n)[c] <= ask[c]
        /\ \A c \in G : grant[c] \in Nat /\ grant[c] <= Worth(n)[c]
    BY <1>1, <1>2 DEF Worth
  <2>3. IsFiniteSet(G) /\ G \subseteq C
    BY <2>1, FS_Subset
  <2>4. Token!Granted(C) = Total(grant, G)
    BY <1>1, <2>3, GrantedIs
  <2>5. Token!Asked(C) = Total(ask, C)
    BY <1>1, <1>2, <2>1, AskedIs
  <2> HIDE DEF grant, ask, G
  <2> QED BY <2>1, <2>2, <2>3, <2>4, <2>5, TotalGrows
<1>4. /\ \A m \in Mints : Token!Minting(m) \in SUBSET Callers
      /\ \A a \in Friends : Token!Giving(a) \in SUBSET Callers
  BY DEF Token!Minting, Token!Giving
<1>5. Token!EffectsAreCounted
  BY <1>3, <1>4 DEF Token!EffectsAreCounted, AddUp, Friends
<1>6. Token!NftIsUnique
  BY DEF Token!NftIsUnique, TokenInv, TokenTypes, NftsStay, Sealed, Token!None, Request
<1> QED BY <1>5, <1>6 DEF EffectsAreCounted

\* token.ts: what the helpers mint and give is what their callers asked for, once for each call
\* that returned and at most once for each call made, and createNft's token is unique for good.
THEOREM EffectsAreHadOnce == ClientSpec => []EffectsAreCounted
<1>1. Token!Init => TokenInv
  BY TokenInit
<1> QED BY <1>1, TokenStep, TokenFollows, ClientIsToken, PTL DEF Token!Spec

-----------------------------------------------------------------------------
(* Amounts: a float is a whole number of the units of its exponent, the least its mantissa has    *)
(* room for, and at most half such a unit off what it stands for.  Below the bound the roundings  *)
(* of a conversion and of the way back add up to less than half a unit of the token.              *)

\* The bound on the amounts is a quarter of what a mantissa counts, and an exponent more doubles
\* what a float has room for.
LEMMA PowersAre ==
  /\ Amount!One \in Nat /\ Amount!One > 0 /\ Amount!Safe \in Nat /\ Amount!Safe > 0
  /\ 2 ^ (Mantissa - 1) \in Nat /\ Amount!Safe = 2 * 2 ^ (Mantissa - 1)
  /\ 2 ^ (Mantissa - 2) \in Nat /\ Amount!Safe = 4 * 2 ^ (Mantissa - 2)
  /\ \A e \in Nat : /\ 2 ^ e \in Nat /\ 2 ^ e > 0
                    /\ 2 ^ (Mantissa + e) = Amount!Safe * 2 ^ e
                    /\ e > 0 => 2 ^ (Mantissa + e - 1) = 2 ^ (Mantissa - 1) * 2 ^ e
<1>1. Mantissa - 1 \in Nat /\ Mantissa - 2 \in Nat /\ Mantissa \in Nat /\ Scale \in Nat
  BY FloatAssumption
<1>2. 2 ^ 1 = 2 /\ 2 ^ 2 = 4
  OBVIOUS
<1>3. 2 ^ Mantissa = 2 ^ 1 * 2 ^ (Mantissa - 1)
  <2>1. Mantissa = 1 + (Mantissa - 1)
    BY <1>1
  <2>2. 2 ^ (1 + (Mantissa - 1)) = 2 ^ 1 * 2 ^ (Mantissa - 1)
    BY <1>1, PowerOfSum
  <2> QED BY <2>1, <2>2
<1>4. 2 ^ Mantissa = 2 ^ 2 * 2 ^ (Mantissa - 2)
  <2>1. Mantissa = 2 + (Mantissa - 2)
    BY <1>1
  <2>2. 2 ^ (2 + (Mantissa - 2)) = 2 ^ 2 * 2 ^ (Mantissa - 2)
    BY <1>1, PowerOfSum
  <2> QED BY <2>1, <2>2
<1>5. ASSUME NEW e \in Nat
      PROVE  /\ 2 ^ (Mantissa + e) = 2 ^ Mantissa * 2 ^ e
             /\ e > 0 => 2 ^ (Mantissa + e - 1) = 2 ^ (Mantissa - 1) * 2 ^ e
  <2>1. 2 ^ (Mantissa + e) = 2 ^ Mantissa * 2 ^ e
    BY <1>1, PowerOfSum
  <2>2. 2 ^ ((Mantissa - 1) + e) = 2 ^ (Mantissa - 1) * 2 ^ e
    BY <1>1, PowerOfSum
  <2>3. (Mantissa - 1) + e = Mantissa + e - 1
    BY <1>1
  <2> QED BY <2>1, <2>2, <2>3
<1>6. \A e \in Nat : 2 ^ e \in Nat /\ 2 ^ e > 0
  BY PowerOfTwo
<1> QED BY <1>1, <1>2, <1>3, <1>4, <1>5, <1>6 DEF Amount!One, Amount!Safe

\* What is rounded is at most half of d off.
LEMMA NearestIs ==
  ASSUME NEW n \in Nat, NEW d \in Nat, d > 0
  PROVE  LET k == Amount!Nearest(n, d) IN
         k \in Nat /\ 2 * (k * d - n) <= d /\ 2 * (n - k * d) <= d
<1> PICK q, r : q = n \div d /\ r = n % d
  OBVIOUS
<1>1. q \in Nat /\ r \in Nat /\ r < d /\ n = d * q + r
  OBVIOUS
<1>2. q * d = d * q /\ (q + 1) * d = d * q + d /\ d * q \in Nat
  BY <1>1
<1>3. Amount!Nearest(n, d) = IF 2 * r > d \/ (2 * r = d /\ q % 2 = 1) THEN q + 1 ELSE q
  BY DEF Amount!Nearest
<1>4. (2 * r >= d /\ Amount!Nearest(n, d) = q + 1) \/ (2 * r <= d /\ Amount!Nearest(n, d) = q)
  BY <1>1, <1>3
<1>5. ASSUME 2 * r >= d PROVE 2 * ((q + 1) * d - n) <= d /\ 2 * (n - (q + 1) * d) <= d
  BY <1>1, <1>2, <1>5
<1>6. ASSUME 2 * r <= d PROVE 2 * (q * d - n) <= d /\ 2 * (n - q * d) <= d
  BY <1>1, <1>2, <1>6
<1> QED BY <1>1, <1>4, <1>5, <1>6

\* A multiple is not rounded.
LEMMA NearestOfMultiple ==
  ASSUME NEW c \in Nat, NEW d \in Nat, d > 0
  PROVE  Amount!Nearest(c * d, d) = c
<1>1. c * d \in Nat
  OBVIOUS
<1>2. (c * d) \div d = c
  BY <1>1, QuotientIs
<1>3. (c * d) % d = 0
  <2>1. c * d = d * ((c * d) \div d) + ((c * d) % d) /\ (c * d) % d \in Nat
    BY <1>1
  <2>2. d * c = c * d
    OBVIOUS
  <2> QED BY <1>1, <1>2, <2>1, <2>2
<1> QED BY <1>2, <1>3 DEF Amount!Nearest

\* The exponent a float is given is the least that its mantissa has room for.
LEMMA FloatIs ==
  ASSUME NEW n \in Nat, NEW d \in Nat, d > 0, n < Amount!Safe * Amount!One
  PROVE  \E e \in Nat : /\ Amount!Float(n, d) = Amount!Nearest(n, d * 2 ^ e) * 2 ^ e
                        /\ n < d * (Amount!Safe * 2 ^ e)
                        /\ e > 0 => n >= d * (2 ^ (Mantissa - 1) * 2 ^ e)
<1> DEFINE Room(e) == n < d * 2 ^ (Mantissa + e)
           Least(e) == e > 0 => n >= d * 2 ^ (Mantissa + e - 1)
           S == {e \in Nat : Room(e)}
           m == Min(S)
<1>1. 2 * Scale \in S
  <2>1. Scale \in Nat /\ 2 * Scale \in Nat /\ 2 * Scale = Scale + Scale
    BY FloatAssumption
  <2> DEFINE w == Amount!Safe * Amount!One
  <2>2. 2 ^ (Mantissa + 2 * Scale) = w * Amount!One
    <3>1. 2 ^ (2 * Scale) = 2 ^ Scale * 2 ^ Scale
      BY <2>1, PowerOfSum
    <3>2. 2 ^ (Mantissa + 2 * Scale) = Amount!Safe * (Amount!One * Amount!One)
      BY <2>1, <3>1, PowersAre DEF Amount!One
    <3> QED BY <3>2, PowersAre
  <2>3. w \in Nat /\ w * Amount!One >= w
    <3>1. w \in Nat
      <4>1. Amount!Safe \in Nat /\ Amount!One \in Nat
        BY PowersAre
      <4> QED BY <4>1
    <3>2. w * (Amount!One - 1) >= 0 /\ w * (Amount!One - 1) = w * Amount!One - w
      <4>1. Amount!One - 1 \in Nat /\ Amount!One \in Nat
        BY PowersAre
      <4> HIDE DEF w
      <4> QED BY <3>1, <4>1
    <3>3. w * Amount!One \in Int
      BY <3>1, PowersAre
    <3> QED BY <3>1, <3>2, <3>3
  <2> DEFINE W == w * Amount!One
  <2>4. W \in Nat /\ n < W
    <3>1. Amount!One \in Nat /\ w \in Nat /\ n < w /\ w <= W
      BY <2>3, PowersAre
    <3>2. W \in Nat
      <4> HIDE DEF w
      <4> QED BY <3>1
    <3> QED BY <3>1, <3>2
  <2>5. d * W >= W
    <3> HIDE DEF W
    <3>1. d - 1 \in Nat
      OBVIOUS
    <3>2. (d - 1) * W >= 0 /\ (d - 1) * W = d * W - W /\ d * W \in Int
      BY <2>4, <3>1
    <3> QED BY <2>4, <3>2
  <2>6. d * W \in Int
    BY <2>4
  <2> QED BY <2>1, <2>2, <2>4, <2>5, <2>6
<1>2. m \in S /\ \A e \in S : m <= e
  <2>1. S \subseteq Nat /\ S # {}
    BY <1>1
  <2> HIDE DEF S
  <2> QED BY <2>1, MinIsLeast
<1>3. m \in 0 .. (2 * Scale) /\ Room(m)
  BY <1>1, <1>2, FloatAssumption
<1>4. Least(m)
  <2> SUFFICES ASSUME m > 0 PROVE n >= d * 2 ^ (Mantissa + m - 1)
    OBVIOUS
  <2>1. m - 1 \in Nat /\ m - 1 \notin S
    <3>1. m \in Nat /\ (m - 1 \in S => m <= m - 1)
      BY <1>2
    <3> QED BY <3>1
  <2>2. ~Room(m - 1)
    BY <2>1
  <2>3. Mantissa + (m - 1) = Mantissa + m - 1
    BY <2>1, FloatAssumption
  <2>4. d * 2 ^ (Mantissa + (m - 1)) \in Int
    <3>1. Mantissa + (m - 1) \in Nat
      BY <2>1, FloatAssumption
    <3>2. 2 ^ (Mantissa + (m - 1)) \in Nat
      BY <3>1, PowerOfTwo
    <3> QED BY <3>2
  <2> QED BY <2>2, <2>3, <2>4
<1> DEFINE e == CHOOSE e \in 0 .. (2 * Scale) : Room(e) /\ Least(e)
<1>5. e \in 0 .. (2 * Scale) /\ Room(e) /\ Least(e)
  <2> HIDE DEF m, Room, Least
  <2> QED BY <1>3, <1>4
<1>6. Amount!Float(n, d) = Amount!Nearest(n, d * 2 ^ e) * 2 ^ e
  BY DEF Amount!Float
<1> HIDE DEF e
<1>7. e \in Nat
  BY <1>5, FloatAssumption
<1>8. Room(e) <=> n < d * (Amount!Safe * 2 ^ e)
  BY <1>7, PowersAre
<1>9. e > 0 => (Least(e) <=> n >= d * (2 ^ (Mantissa - 1) * 2 ^ e))
  BY <1>7, PowersAre
<1> QED BY <1>5, <1>6, <1>7, <1>8, <1>9

\* A float is off by less than its mantissa can tell: for fractions, if there are enough bits of them.
LEMMA FloatNear ==
  ASSUME NEW n \in Nat, NEW d \in Nat, d > 0, n < Amount!Safe * Amount!One,
         \/ d = 1
         \/ d * 2 ^ (Mantissa - 1) <= Amount!One /\ \E b \in Nat : n = b * Amount!One
  PROVE  Amount!Float(n, d) \in Nat /\ Near(Amount!Safe, Amount!Float(n, d) * d, n)
<1> DEFINE h == 2 ^ (Mantissa - 1)
<1>1. h \in Nat /\ Amount!Safe = 2 * h
  BY PowersAre
<1>2. PICK e \in Nat : /\ Amount!Float(n, d) = Amount!Nearest(n, d * 2 ^ e) * 2 ^ e
                       /\ e > 0 => n >= d * (h * 2 ^ e)
  BY FloatIs
<1>3. PICK D : D = 2 ^ e
  OBVIOUS
<1>4. D \in Nat /\ D > 0 /\ (e = 0 => D = 1)
  <2>1. 2 ^ 0 = 1
    OBVIOUS
  <2> QED BY <1>3, <2>1, PowersAre
<1> DEFINE m == d * D
           k == Amount!Nearest(n, m)
<1>5. m \in Nat /\ m > 0
  BY <1>4
<1>6. k \in Nat /\ 2 * (k * m - n) <= m /\ 2 * (n - k * m) <= m
  <2> HIDE DEF m
  <2> QED BY <1>5, NearestIs
<1>7. Amount!Float(n, d) = k * D /\ Amount!Float(n, d) * d = k * m /\ Amount!Float(n, d) \in Nat
  <2>1. Amount!Float(n, d) = k * D
    BY <1>2, <1>3
  <2> HIDE DEF k
  <2>2. (k * D) * d = k * (d * D) /\ k * D \in Nat
    BY <1>4, <1>6
  <2> QED BY <2>1, <2>2
<1>8. h * m <= n \/ k * m = n
  <2>1. CASE e > 0
    <3>1. d * (h * D) = h * (d * D)
      BY <1>1, <1>4
    <3> QED BY <1>2, <1>3, <2>1, <3>1
  <2>2. CASE e = 0 /\ d = 1
    <3>1. m = 1 /\ n * 1 = n
      BY <1>4, <2>2
    <3>2. Amount!Nearest(n * 1, 1) = n
      BY NearestOfMultiple
    <3>3. k = n
      BY <3>1, <3>2
    <3> QED BY <3>1, <3>3
  <2>3. CASE e = 0 /\ d # 1
    <3>1. m = d /\ h * d <= Amount!One
      <4>1. d * h = h * d
        BY <1>1
      <4> QED BY <1>4, <2>3, <4>1
    <3>2. PICK b \in Nat : n = b * Amount!One
      BY <2>3
    <3>3. CASE b = 0
      <4>1. n = 0 * m
        BY <1>5, <3>2, <3>3, PowersAre
      <4>2. k = 0
        <5> HIDE DEF m
        <5> QED BY <1>5, <4>1, NearestOfMultiple
      <4> QED BY <1>5, <4>1, <4>2
    <3>4. CASE b > 0
      <4>1. b - 1 \in Nat /\ Amount!One \in Nat
        BY <3>4, PowersAre
      <4>2. (b - 1) * Amount!One >= 0 /\ (b - 1) * Amount!One = b * Amount!One - Amount!One
        BY <4>1
      <4>3. b * Amount!One >= Amount!One
        BY <4>1, <4>2
      <4>4. h * d \in Int
        BY <1>1
      <4> QED BY <3>1, <3>2, <4>1, <4>3, <4>4
    <3> QED BY <3>3, <3>4
  <2> QED BY <2>1, <2>2, <2>3
<1> DEFINE y == k * m
<1>9. Near(Amount!Safe, y, n)
  <2>1. y \in Int /\ 2 * (y - n) <= m /\ 2 * (n - y) <= m
    BY <1>5, <1>6
  <2>2. h * m <= n \/ y = n
    BY <1>8
  <2> HIDE DEF y, m, h
  <2>3. CASE h * m <= n
    <3>1. ASSUME NEW i \in Int, 2 * i <= m
          PROVE  (2 * h) * i <= n
      <4>1. m - 2 * i \in Nat
        BY <1>5, <3>1
      <4>2. h * (m - 2 * i) >= 0 /\ h * (m - 2 * i) = h * m - (2 * h) * i
        BY <1>1, <1>5, <4>1
      <4>3. h * m \in Int /\ (2 * h) * i \in Int
        BY <1>1, <1>5
      <4> QED BY <2>3, <4>2, <4>3
    <3>2. (2 * h) * (y - n) <= n /\ (2 * h) * (n - y) <= n
      <4>1. PICK i, j : i = y - n /\ j = n - y
        OBVIOUS
      <4>2. i \in Int /\ j \in Int /\ 2 * i <= m /\ 2 * j <= m
        BY <2>1, <4>1
      <4>3. (2 * h) * i <= n /\ (2 * h) * j <= n
        BY <3>1, <4>2
      <4> QED BY <4>1, <4>3
    <3> QED BY <1>1, <3>2 DEF Near
  <2>4. CASE y = n
    <3>1. y - n = 0 /\ n - y = 0 /\ Amount!Safe * 0 = 0
      BY <2>4, PowersAre
    <3> QED BY <3>1 DEF Near
  <2> QED BY <2>2, <2>3, <2>4
<1> QED BY <1>7, <1>9

\* What is a float already is not rounded.
LEMMA FloatOfFloat ==
  ASSUME NEW n \in Nat, NEW d \in Nat, d > 0, n < Amount!Safe * Amount!One,
         Amount!Float(n, d) \in Nat, Amount!Float(n, d) < Amount!Safe * Amount!One
  PROVE  Amount!Float(Amount!Float(n, d), 1) = Amount!Float(n, d)
<1> DEFINE h == 2 ^ (Mantissa - 1)
           p == Amount!Safe
<1>1. h \in Nat /\ h > 0 /\ p = 2 * h
  BY PowersAre
<1>2. PICK e \in Nat : /\ Amount!Float(n, d) = Amount!Nearest(n, d * 2 ^ e) * 2 ^ e
                       /\ n < d * (p * 2 ^ e)
  BY FloatIs
<1>3. PICK x : x = Amount!Float(n, d)
  OBVIOUS
<1>4. x \in Nat /\ x < p * Amount!One
  BY <1>3
<1>5. PICK f \in Nat : /\ Amount!Float(x, 1) = Amount!Nearest(x, 1 * 2 ^ f) * 2 ^ f
                       /\ f > 0 => x >= 1 * (h * 2 ^ f)
  BY <1>4, FloatIs
<1>6. /\ 2 ^ e \in Nat /\ 2 ^ e > 0 /\ 2 ^ f \in Nat /\ 2 ^ f > 0 /\ 1 * 2 ^ f = 2 ^ f
      /\ 1 * (h * 2 ^ f) = h * 2 ^ f
  <2>1. 2 ^ e \in Nat /\ 2 ^ e > 0 /\ 2 ^ f \in Nat /\ 2 ^ f > 0
    BY PowerOfTwo
  <2> HIDE DEF h
  <2>2. h * 2 ^ f \in Int
    BY <1>1, <2>1
  <2> QED BY <2>1, <2>2
<1> DEFINE m == d * 2 ^ e
           k == Amount!Nearest(n, m)
<1>7. k \in Nat /\ x = k * 2 ^ e /\ k <= p
  <2>1. m \in Nat /\ m > 0
    BY <1>6
  <2>2. d * (p * 2 ^ e) = p * m /\ p * m \in Int
    BY <1>1, <1>6
  <2>3. k \in Nat /\ 2 * (k * m - n) <= m
    <3> HIDE DEF m
    <3> QED BY <2>1, NearestIs
  <2>4. k <= p
    <3> HIDE DEF m, k, p
    <3>1. m * k = k * m /\ m * (p + 1) = p * m + m /\ k * m \in Int
      BY <1>1, <2>1, <2>3
    <3>2. m * k < m * (p + 1)
      BY <1>2, <2>1, <2>2, <2>3, <3>1
    <3>3. k < p + 1
      BY <1>1, <2>1, <2>3, <3>2, TimesCancels
    <3> QED BY <1>1, <2>3, <3>3
  <2> QED BY <1>2, <1>3, <2>3, <2>4
<1> HIDE DEF k, h, p
<1>8. \E c \in Nat : x = c * 2 ^ f
  <2>1. CASE f <= e
    <3>1. e - f \in Nat /\ e = (e - f) + f
      BY <2>1
    <3>2. 2 ^ e = 2 ^ (e - f) * 2 ^ f /\ 2 ^ (e - f) \in Nat
      BY <3>1, PowerOfSum, PowerOfTwo
    <3>3. PICK i \in Nat : 2 ^ e = i * 2 ^ f
      BY <3>2
    <3>4. k * (i * 2 ^ f) = (k * i) * 2 ^ f /\ k * i \in Nat
      BY <1>6, <1>7
    <3> QED BY <1>7, <3>3, <3>4
  <2>2. CASE f > e
    <3>1. f - 1 - e \in Nat /\ f = 1 + ((f - 1 - e) + e)
      BY <2>2
    <3>2. 2 ^ f = 2 ^ 1 * 2 ^ ((f - 1 - e) + e) /\ 2 ^ ((f - 1 - e) + e) = 2 ^ (f - 1 - e) * 2 ^ e
      <4>1. PICK i \in Nat : i = f - 1 - e
        BY <3>1
      <4>2. 2 ^ (i + e) = 2 ^ i * 2 ^ e
        BY PowerOfSum
      <4>3. i + e \in Nat /\ 1 \in Nat
        OBVIOUS
      <4>4. 2 ^ (1 + (i + e)) = 2 ^ 1 * 2 ^ (i + e)
        BY <4>3, PowerOfSum
      <4> QED BY <3>1, <4>1, <4>2, <4>4
    <3>3. PICK i \in Nat : i = 2 ^ (f - 1 - e) /\ i > 0
      BY <3>1, PowerOfTwo
    <3>4. 2 ^ 1 = 2
      OBVIOUS
    <3>5. PICK D \in Nat : D = 2 ^ e
      BY <1>6
    <3>6. PICK E \in Nat : E = 2 ^ f
      BY <1>6
    <3>7. E = 2 * (i * D)
      BY <3>2, <3>3, <3>4, <3>5, <3>6
    <3>8. E >= 2 * D
      <4>1. i - 1 \in Nat
        BY <3>3
      <4>2. (i - 1) * D >= 0 /\ (i - 1) * D = i * D - D /\ i * D \in Int
        BY <3>5, <4>1
      <4> QED BY <3>5, <3>7, <4>2
    <3>9. x <= h * E
      <4>1. p - k \in Nat /\ E - 2 * D \in Nat
        BY <1>1, <1>7, <3>8
      <4>2. (p - k) * D >= 0 /\ (p - k) * D = p * D - k * D /\ p * D = h * (2 * D)
            /\ k * D \in Int /\ p * D \in Int
        BY <1>1, <1>7, <4>1
      <4>3. h * (E - 2 * D) >= 0 /\ h * (E - 2 * D) = h * E - h * (2 * D)
            /\ h * E \in Int /\ h * (2 * D) \in Int
        BY <1>1, <4>1
      <4>4. x = k * D
        BY <1>7, <3>5
      <4> QED BY <4>2, <4>3, <4>4
    <3>10. x >= h * E
      BY <1>5, <1>6, <2>2, <3>6
    <3>11. x = h * E
      <4>1. h * E \in Int
        BY <1>1
      <4> QED BY <1>4, <3>9, <3>10, <4>1
    <3> QED BY <1>1, <3>6, <3>11
  <2> QED BY <2>1, <2>2
<1>9. PICK c \in Nat : x = c * 2 ^ f
  BY <1>8
<1>10. Amount!Nearest(x, 2 ^ f) = c
  BY <1>6, <1>9, NearestOfMultiple
<1>11. Amount!Float(x, 1) = x
  BY <1>5, <1>6, <1>9, <1>10
<1> QED BY <1>3, <1>11

\* The smallest fractions are small enough that a digit is told by a mantissa.
LEMMA FactorsAre ==
  ASSUME NEW d \in Decimals \cup {ShownDigits}
  PROVE  LET F == Amount!Factor(d) IN
         F \in Nat /\ F > 0 /\ F * 2 ^ (Mantissa - 1) <= Amount!One
<1>1. d \in Nat /\ 10 ^ d * 2 ^ (Mantissa - 1) <= 2 ^ Scale
  BY FloatAssumption
<1>2. 10 ^ d > 0
  BY PowersAssumption
<1>3. 10 ^ d \in Int
  BY <1>1
<1>4. 10 ^ d \in Nat
  BY <1>2, <1>3
<1> QED BY <1>1, <1>2, <1>4 DEF Amount!Factor, Amount!One

\* The number that is made of an amount, either way.
NumberOf(w, a, d) ==
  IF w = "typed" THEN Amount!Float(a * Amount!One, Amount!Factor(d)) ELSE Amount!AmountAsNum(a, d)

\* A number of so many units of a token, a part of which may be rounded once more.
IsWorth(x, F, a) ==
  \A whole, rest \in Nat, g \in Int :
    x * F = whole * (F * Amount!One) + rest /\ rest < F * Amount!One /\ Near(Amount!Safe, g, rest) =>
      /\ 2 * (x * F - rest + g - a * Amount!One) < Amount!One
      /\ 2 * (a * Amount!One - (x * F - rest + g)) < Amount!One

\* A number that was rounded once.
LEMMA RoundedOnceIsWorth ==
  ASSUME NEW x \in Nat, NEW F \in Nat, F > 0, NEW a \in Nat, a < 2 ^ (Mantissa - 2),
         Near(Amount!Safe, x * F, a * Amount!One)
  PROVE  IsWorth(x, F, a)
<1> PICK u, p, X : u = Amount!One /\ p = Amount!Safe /\ X = x * F
  OBVIOUS
<1>1. u \in Nat /\ u > 0 /\ p \in Nat /\ 4 * a + 4 <= p /\ X \in Nat
  <2>1. X \in Nat
    OBVIOUS
  <2> QED BY <2>1, PowersAre
<1>2. SUFFICES ASSUME NEW whole \in Nat, NEW rest \in Nat, NEW g \in Int,
                      X = whole * (F * u) + rest, Near(p, g, rest)
               PROVE  2 * (X - rest + g - a * u) < u /\ 2 * (a * u - (X - rest + g)) < u
  BY DEF IsWorth
<1>3. rest <= X
  <2>1. whole * (F * u) \in Nat
    BY <1>1
  <2> QED BY <1>2, <2>1
<1>4. Near(p, X, a * u)
  OBVIOUS
<1> QED BY <1>1, <1>2, <1>3, <1>4, RoundedTwice

\* The number that an amount below the bound is typed as.
LEMMA TypedIsWorth ==
  ASSUME NEW a \in Nat, a < 2 ^ (Mantissa - 2), NEW d \in Decimals
  PROVE  LET F == Amount!Factor(d)
             x == Amount!Float(a * Amount!One, F)
         IN /\ x \in Nat /\ x * F < a * Amount!One + Amount!One
            /\ Near(Amount!Safe, x * F, a * Amount!One) /\ IsWorth(x, F, a)
            /\ a * Amount!One < Amount!Safe * Amount!One
<1> DEFINE F == Amount!Factor(d)
           x == Amount!Float(a * Amount!One, F)
<1>1. F \in Nat /\ F > 0 /\ F * 2 ^ (Mantissa - 1) <= Amount!One
  BY FactorsAre
<1>2. /\ Amount!One \in Nat /\ Amount!One > 0 /\ Amount!Safe \in Nat /\ 4 * a + 4 <= Amount!Safe
  BY PowersAre
<1>3. a * Amount!One \in Nat /\ a * Amount!One < Amount!Safe * Amount!One
  <2>1. Amount!Safe - a \in Nat /\ Amount!Safe - a > 0
    BY <1>2
  <2>2. (Amount!Safe - a) * Amount!One > 0
    BY <1>2, <2>1
  <2>3. (Amount!Safe - a) * Amount!One = Amount!Safe * Amount!One - a * Amount!One
    BY <1>2
  <2>4. a * Amount!One \in Nat /\ Amount!Safe * Amount!One \in Nat
    BY <1>2
  <2> QED BY <2>2, <2>3, <2>4
<1>4. x \in Nat /\ Near(Amount!Safe, x * F, a * Amount!One)
  <2> HIDE DEF F
  <2> QED BY <1>1, <1>3, FloatNear
<1>5. IsWorth(x, F, a)
  <2> HIDE DEF x, F
  <2> QED BY <1>1, <1>4, RoundedOnceIsWorth
<1>6. x * F < a * Amount!One + Amount!One
  <2> HIDE DEF x, F
  <2>1. x * F \in Int /\ a < Amount!Safe
    BY <1>1, <1>2, <1>4
  <2> QED BY <1>2, <1>4, <2>1, NearUnit
<1> QED BY <1>3, <1>4, <1>5, <1>6

\* What is at most so many units of a token is at most as many of the smallest fractions.
LEMMA TimesFactor ==
  ASSUME NEW x \in Nat, NEW F \in Nat, F > 0
  PROVE  x * F \in Nat /\ x <= x * F
<1>1. F - 1 \in Nat
  OBVIOUS
<1>2. x * (F - 1) >= 0 /\ x * (F - 1) = x * F - x /\ x * F \in Nat
  BY <1>1
<1> QED BY <1>2

\* The number that amountAsNum makes: the units beyond the whole ones are divided, which is rounded,
\* and added to the whole ones, which is rounded too.
LEMMA ConvertedIsWorth ==
  ASSUME NEW a \in Nat, a < 2 ^ (Mantissa - 2), NEW d \in Decimals, Amount!Factor(d) < Amount!Safe
  PROVE  LET F == Amount!Factor(d)
             x == Amount!AmountAsNum(a, d)
         IN x \in Nat /\ IsWorth(x, F, a)
<1> PICK F, u, p : F = Amount!Factor(d) /\ u = Amount!One /\ p = Amount!Safe
  OBVIOUS
<1>1. F \in Nat /\ F > 0 /\ F * 2 ^ (Mantissa - 1) <= u
  BY FactorsAre
<1>2. u \in Nat /\ u > 0 /\ p \in Nat /\ 4 * a + 4 <= p
  BY PowersAre
<1> PICK w, r : w = a \div F /\ r = a % F
  OBVIOUS
<1>3. w \in Nat /\ r \in Nat /\ r < F /\ a = w * F + r /\ w <= a /\ r <= a
  <2>1. w \in Nat /\ r \in Nat /\ r < F /\ a = w * F + r
    BY <1>1, QuotientAndRest
  <2>2. w * F \in Nat /\ w <= w * F
    BY <1>1, <2>1, TimesFactor
  <2> QED BY <2>1, <2>2
<1> DEFINE t == Amount!Float(r * u, F)
           y == w * u + t
<1>4. Amount!AmountAsNum(a, d) = Amount!Float(y, 1)
  <2>1. ~(F >= p)
    BY <1>1, <1>2
  <2>2. ~(a \div F >= p)
    BY <1>2, <1>3
  <2> QED BY <2>1, <2>2 DEF Amount!AmountAsNum
<1>5. /\ t \in Nat /\ t * F < r * u + u /\ Near(p, t * F, r * u)
      /\ r * u < p * u
  <2>1. r \in Nat /\ r < 2 ^ (Mantissa - 2)
    BY <1>3, PowersAre
  <2> QED BY <2>1, TypedIsWorth
<1> HIDE DEF t
<1>6. y \in Nat /\ y < p * u
  <2>1. t < u
    <3>1. F * t = t * F /\ F * u \in Int /\ t * F \in Int
      BY <1>1, <1>2, <1>5
    <3>2. PICK i \in Nat : F = r + 1 + i
      <4>1. F - (r + 1) \in Nat /\ F = r + 1 + (F - (r + 1))
        BY ONLY <1>1, <1>3
      <4> QED BY <4>1
    <3>3. (r + 1 + i) * u = r * u + u + i * u /\ i * u >= 0 /\ r * u \in Int /\ i * u \in Int
      BY <1>2, <1>3
    <3>4. F * t < F * u
      BY <1>2, <1>5, <3>1, <3>2, <3>3
    <3> QED BY <1>1, <1>2, <1>5, <3>4, TimesCancels
  <2>2. p - w - 1 \in Nat
    BY <1>2, <1>3
  <2>3. (p - w - 1) * u >= 0 /\ (p - w - 1) * u = p * u - (w * u + u) /\ w * u \in Nat /\ p * u \in Nat
    BY <1>2, <1>3, <2>2
  <2> QED BY <1>2, <1>5, <2>1, <2>3
<1> DEFINE x == Amount!Float(y, 1)
<1>7. CASE w = 0
  <2>1. y = t /\ r = a
    BY <1>1, <1>2, <1>3, <1>5, <1>7
  <2>2. r * u \in Nat /\ t < p * u
    BY <1>2, <1>3, <1>6, <2>1
  <2>3. Amount!Float(t, 1) = t
    BY <1>1, <1>2, <1>5, <2>2, FloatOfFloat DEF t
  <2>4. x = t
    BY <2>1, <2>3
  <2>5. IsWorth(t, F, a)
    BY <1>1, <1>5, <2>1, RoundedOnceIsWorth
  <2> QED BY <1>4, <1>5, <2>4, <2>5
<1>8. CASE w > 0
  <2>1. x \in Nat /\ Near(p, x * 1, y)
    <3> HIDE DEF y
    <3> QED BY <1>2, <1>6, FloatNear
  <2> HIDE DEF x
  <2>2. Near(p, x * F, w * (F * u) + t * F)
    <3>1. x * 1 = x /\ x \in Int /\ y \in Int
      BY <1>6, <2>1
    <3>2. Near(p, x * F, y * F)
      <4> HIDE DEF y
      <4> QED BY <1>1, <1>2, <2>1, <3>1, NearTimes
    <3>3. y * F = w * (F * u) + t * F
      BY <1>1, <1>2, <1>3, <1>5
    <3> QED BY <3>2, <3>3
  <2>3. x * F \in Nat /\ t * F \in Nat
    BY <1>1, <1>5, <2>1
  <2>4. IsWorth(x, F, a)
    <3>1. SUFFICES ASSUME NEW whole \in Nat, NEW rest \in Nat, NEW g \in Int,
                          x * F = whole * (F * u) + rest, rest < F * u, Near(p, g, rest)
                   PROVE  /\ 2 * (x * F - rest + g - a * u) < u
                          /\ 2 * (a * u - (x * F - rest + g)) < u
      BY DEF IsWorth
    <3>2. PICK X, T : X = x * F /\ T = t * F
      OBVIOUS
    <3>3. X \in Nat /\ T \in Nat /\ Near(p, T, r * u) /\ Near(p, X, w * (F * u) + T)
          /\ X = whole * (F * u) + rest
      BY <1>5, <2>2, <2>3, <3>1, <3>2
    <3>4. 2 * (X - rest + g - a * u) < u /\ 2 * (a * u - (X - rest + g)) < u
      BY <1>1, <1>2, <1>3, <1>8, <3>1, <3>3, RoundedThrice
    <3> QED BY <3>2, <3>4
  <2> QED BY <1>4, <2>1, <2>4 DEF x
<1> QED BY <1>3, <1>7, <1>8

\* Either way.
LEMMA NumberIsWorth ==
  ASSUME NEW a \in Nat, a < 2 ^ (Mantissa - 2), NEW d \in Decimals, NEW w,
         Amount!Factor(d) < Amount!Safe
  PROVE  NumberOf(w, a, d) \in Nat /\ IsWorth(NumberOf(w, a, d), Amount!Factor(d), a)
<1>1. CASE w = "typed"
  BY <1>1, TypedIsWorth DEF NumberOf
<1>2. CASE w # "typed"
  BY <1>2, ConvertedIsWorth DEF NumberOf
<1> QED BY <1>1, <1>2

\* The whole and the rest of a number, in the smallest fractions of a unit.
LEMMA WholeAndRest ==
  ASSUME NEW x \in Nat, NEW F \in Nat, F > 0
  PROVE  LET w == x \div Amount!One
             r == (x % Amount!One) * F
         IN /\ w \in Nat /\ r \in Nat /\ r < F * Amount!One /\ x * F = w * (F * Amount!One) + r
            /\ w * Amount!One <= x
<1> PICK u, w, m : u = Amount!One /\ w = x \div u /\ m = x % u
  OBVIOUS
<1>1. u \in Nat /\ u > 0
  BY PowersAre
<1>2. w \in Nat /\ m \in Nat /\ m < u /\ x = w * u + m
  BY <1>1, QuotientAndRest
<1>3. (w * u + m) * F = w * (F * u) + m * F /\ m * F \in Nat /\ w * u \in Nat
  BY <1>1, <1>2
<1>4. m * F < F * u
  <2>1. PICK i \in Nat : u = m + i /\ i > 0
    <3>1. u - m \in Nat /\ u - m > 0 /\ u = m + (u - m)
      BY ONLY <1>1, <1>2
    <3> QED BY <3>1
  <2>2. F * (m + i) = m * F + i * F /\ i * F > 0 /\ m * F \in Int /\ i * F \in Int
    BY <1>2, <2>1
  <2> QED BY <2>1, <2>2
<1> QED BY <1>2, <1>3, <1>4

\* A number that is worth so many units is less than half a unit off.
LEMMA WorthIsClose ==
  ASSUME NEW x \in Nat, NEW F \in Nat, F > 0, NEW a \in Nat, a < 2 ^ (Mantissa - 2), IsWorth(x, F, a)
  PROVE  /\ x * F \in Nat
         /\ 2 * (x * F - a * Amount!One) < Amount!One /\ 2 * (a * Amount!One - x * F) < Amount!One
         /\ x < a * Amount!One + Amount!One /\ x * F < a * Amount!One + Amount!One
         /\ x * F < Amount!Safe * Amount!One /\ x \div Amount!One < Amount!Safe
<1> PICK u, p, X : u = Amount!One /\ p = Amount!Safe /\ X = x * F
  OBVIOUS
<1>1. u \in Nat /\ u > 0 /\ p \in Nat /\ 4 * a + 4 <= p
  BY PowersAre
<1>2. X \in Nat /\ x <= X
  BY TimesFactor
<1>3. 2 * (X - a * u) < u /\ 2 * (a * u - X) < u
  <2>1. PICK w \in Nat, r \in Nat : r < F * u /\ X = w * (F * u) + r
    BY WholeAndRest
  <2>2. p * (r - r) <= r
    BY <1>1
  <2>3. Near(p, r, r) /\ r \in Int
    BY <2>2 DEF Near
  <2>4. 2 * (X - r + r - a * u) < u /\ 2 * (a * u - (X - r + r)) < u
    BY <2>1, <2>3 DEF IsWorth
  <2>5. PICK i : i = a * u
    OBVIOUS
  <2>6. i \in Int
    BY <1>1, <2>5
  <2>7. 2 * (X - r + r - i) < u /\ 2 * (i - (X - r + r)) < u
    BY <2>4, <2>5
  <2>8. 2 * (X - i) < u /\ 2 * (i - X) < u
    BY <1>2, <2>6, <2>7
  <2> QED BY <2>5, <2>8
<1>4. a * u \in Nat /\ a * u + u <= p * u
  <2>1. p - a - 1 \in Nat
    BY ONLY <1>1, a \in Nat
  <2>2. (p - a - 1) * u >= 0 /\ (p - a - 1) * u = p * u - (a * u + u) /\ a * u \in Nat /\ p * u \in Nat
    BY <1>1, <2>1
  <2> QED BY <1>1, <2>2
<1>5. X < a * u + u
  BY <1>1, <1>2, <1>3, <1>4
<1>6. x \div u < p
  <2>1. PICK w : w = x \div u
    OBVIOUS
  <2>2. w \in Nat /\ w * u <= x
    <3>1. x \div u \in Nat /\ (x \div u) * u <= x
      BY WholeAndRest
    <3> QED BY <2>1, <3>1
  <2>3. u * w < u * p
    <3>1. u * w = w * u /\ u * p = p * u
      BY <1>1, <2>2
    <3>2. PICK i, j, k : i = a * u /\ j = w * u /\ k = p * u
      OBVIOUS
    <3>3. i \in Nat /\ j \in Int /\ k \in Int
      BY <1>1, <2>2, <3>2
    <3>4. i + u <= k /\ X < i + u /\ j <= x
      BY <1>4, <1>5, <2>2, <3>2
    <3>5. j < k
      BY ONLY x \in Nat, <1>1, <1>2, <3>3, <3>4
    <3> QED BY <3>1, <3>2, <3>5
  <2>4. w < p
    BY <1>1, <2>2, <2>3, TimesCancels
  <2> QED BY <2>1, <2>4
<1>7. X < p * u
  <2>1. PICK i, k : i = a * u /\ k = p * u
    OBVIOUS
  <2>2. i \in Int /\ k \in Int
    BY <1>1, <2>1
  <2>3. i + u <= k /\ X < i + u
    BY <1>4, <1>5, <2>1
  <2>4. X < k
    BY ONLY <1>1, <1>2, <2>2, <2>3
  <2> QED BY <2>1, <2>4
<1> QED BY <1>1, <1>2, <1>3, <1>4, <1>5, <1>6, <1>7

\* toBN gives the units that a number is worth: its fraction, times the factor, is rounded once more
\* and then to the next unit.
LEMMA BackAgain ==
  ASSUME NEW x \in Nat, NEW d \in Decimals, NEW a \in Nat, a < 2 ^ (Mantissa - 2),
         Amount!Factor(d) < Amount!Safe, IsWorth(x, Amount!Factor(d), a)
  PROVE  Amount!ToBN(x, d) = a
<1> PICK F, u, p, w, r, X : /\ F = Amount!Factor(d) /\ u = Amount!One /\ p = Amount!Safe
                            /\ w = x \div u /\ r = (x % u) * F /\ X = x * F
  OBVIOUS
<1> DEFINE g == Amount!Float(r, 1)
<1>1. F \in Nat /\ F > 0
  BY FactorsAre
<1>2. u \in Nat /\ u > 0 /\ p \in Nat
  BY PowersAre
<1>3. w \in Nat /\ r \in Nat /\ r < F * u /\ X = w * (F * u) + r
  BY <1>1, WholeAndRest
<1>4. X \in Nat /\ X < p * u /\ w < p
  BY <1>1, WorthIsClose
<1>5. g \in Nat /\ Near(p, g, r)
  <2>1. r < p * u
    <3>1. w * (F * u) \in Nat /\ p * u \in Int
      BY <1>1, <1>2, <1>3
    <3> QED BY <1>3, <1>4, <3>1
  <2>2. g \in Nat /\ Near(p, g * 1, r)
    BY <1>3, <2>1, FloatNear
  <2>3. g * 1 = g
    <3> HIDE DEF g
    <3> QED BY <2>2
  <2> QED BY <2>2, <2>3
<1>6. Amount!ToBN(x, d) = w * F + (2 * g + u) \div (2 * u)
  <2>1. ~(F >= p) /\ ~(w >= p)
    BY <1>1, <1>2, <1>3, <1>4
  <2> QED BY <2>1 DEF Amount!ToBN
<1> HIDE DEF g
<1>7. 2 * (X - r + g - a * u) < u /\ 2 * (a * u - (X - r + g)) < u
  <2>1. g \in Int
    BY <1>5
  <2> QED BY <1>3, <1>5, <2>1 DEF IsWorth
<1>8. (2 * g + u) \div (2 * u) = a - w * F
  <2>1. PICK i, j : i = w * (F * u) /\ j = a * u
    OBVIOUS
  <2>2. i \in Int /\ j \in Int /\ X - r = i
    BY <1>1, <1>2, <1>3, <2>1
  <2>3. 2 * (i + g - j) < u /\ 2 * (j - (i + g)) < u
    BY <1>7, <2>1, <2>2
  <2>4. a - w * F \in Int /\ (a - w * F) * (2 * u) = 2 * j - 2 * i
    <3>1. PICK v : v = w * F
      OBVIOUS
    <3>2. v \in Int
      BY <1>1, <1>3, <3>1
    <3>3. w * (F * u) = v * u
      BY <1>1, <1>2, <1>3, <3>1
    <3>4. a - v \in Int /\ (a - v) * (2 * u) = 2 * (a * u) - 2 * (v * u)
      BY <1>2, <3>2
    <3> QED BY <2>1, <3>1, <3>3, <3>4
  <2>5. PICK c : c = a - w * F
    OBVIOUS
  <2>6. c * (2 * u) <= 2 * g + u /\ 2 * g + u < c * (2 * u) + 2 * u
    BY <1>2, <1>5, <2>2, <2>3, <2>4, <2>5
  <2>7. 2 * u \in Nat /\ 2 * u > 0 /\ 2 * g + u \in Int
    BY <1>2, <1>5
  <2>8. (2 * g + u) \div (2 * u) = c
    BY <2>4, <2>5, <2>6, <2>7, QuotientIs
  <2> QED BY <2>5, <2>8
<1>9. w * F \in Nat
  BY <1>1, <1>3
<1> QED BY <1>6, <1>8, <1>9

\* The number next to q of the smallest digits.
LEMMA DigitsAreNear ==
  ASSUME NEW q \in Nat, q < 2 ^ (Mantissa - 2), NEW e \in Decimals \cup {ShownDigits}
  PROVE  LET F == Amount!Factor(e)
             z == Amount!Float(q * Amount!One, F)
         IN z \in Nat /\ Near(Amount!Safe, z * F, q * Amount!One) /\ z * F < q * Amount!One + Amount!One
<1> PICK F, u, p : F = Amount!Factor(e) /\ u = Amount!One /\ p = Amount!Safe
  OBVIOUS
<1>1. F \in Nat /\ F > 0 /\ F * 2 ^ (Mantissa - 1) <= u
  BY FactorsAre
<1>2. u \in Nat /\ u > 0 /\ p \in Nat /\ 4 * q + 4 <= p
  BY PowersAre
<1>3. q * u \in Nat /\ q * u < p * u
  <2>1. p - q \in Nat /\ p - q > 0
    BY <1>2
  <2>2. (p - q) * u > 0 /\ (p - q) * u = p * u - q * u /\ q * u \in Nat /\ p * u \in Nat
    BY <1>2, <2>1
  <2> QED BY <2>2
<1>4. PICK z : z = Amount!Float(q * u, F)
  OBVIOUS
<1>5. z \in Nat /\ Near(p, z * F, q * u)
  BY <1>1, <1>3, <1>4, FloatNear
<1>6. z * F < q * u + u
  <2>1. z * F \in Int /\ q < p
    BY <1>1, <1>2, <1>5
  <2> QED BY <1>2, <1>5, <2>1, NearUnit
<1> QED BY <1>4, <1>5, <1>6

\* roundToDecimals multiplies, which rounds, cuts the rest off and divides.
LEMMA RoundedToDecimals ==
  ASSUME NEW x \in Nat, NEW e \in Decimals \cup {ShownDigits},
         x * Amount!Factor(e) < Amount!Safe * Amount!One
  PROVE  \E g \in Nat :
           /\ Near(Amount!Safe, g, x * Amount!Factor(e))
           /\ Amount!RoundToDecimals(x, e)
                = Amount!Float((g \div Amount!One) * Amount!One, Amount!Factor(e))
<1>1. PICK X : X = x * Amount!Factor(e)
  OBVIOUS
<1>2. X \in Nat
  BY <1>1, FactorsAre
<1>3. PICK g : g = Amount!Float(X, 1)
  OBVIOUS
<1>4. g \in Nat /\ Near(Amount!Safe, g * 1, X)
  BY <1>1, <1>2, <1>3, FloatNear
<1>5. g * 1 = g
  BY <1>4
<1>6. Amount!RoundToDecimals(x, e) = Amount!Float((g \div Amount!One) * Amount!One, Amount!Factor(e))
  BY <1>1, <1>3 DEF Amount!RoundToDecimals
<1> QED BY <1>1, <1>4, <1>5, <1>6

\* What a reader is shown of a number that is worth so many units.
LEMMA ShownIsLess ==
  ASSUME NEW x \in Nat, NEW d \in Decimals, NEW a \in Nat, a < 2 ^ (Mantissa - 2),
         IsWorth(x, Amount!Factor(d), a),
         (a * Amount!Factor(ShownDigits)) \div Amount!Factor(d) < 2 ^ (Mantissa - 2)
  PROVE  LET F == Amount!Factor(d)
             Fs == Amount!Factor(ShownDigits)
             z == Amount!HumanReadable(x, d)
         IN (2 * z * Fs + Amount!One) \div (2 * Amount!One)
              \in (((a - 1) * Fs) \div F - 1) .. ((a * Fs) \div F)
<1> PICK F, Fs, u, p : /\ F = Amount!Factor(d) /\ Fs = Amount!Factor(ShownDigits)
                       /\ u = Amount!One /\ p = Amount!Safe
  OBVIOUS
<1>1. F \in Nat /\ F > 0 /\ Fs \in Nat /\ Fs > 0
  BY FactorsAre
<1>2. u \in Nat /\ u > 0 /\ p \in Nat /\ 4 * a + 4 <= p
  BY PowersAre
<1>3. PICK g \in Nat : /\ Near(p, g, x * F)
                       /\ Amount!RoundToDecimals(x, d) = Amount!Float((g \div u) * u, F)
  BY <1>1, WorthIsClose, RoundedToDecimals
<1>4. PICK r : r = g \div u
  OBVIOUS
<1>5. r \in Nat /\ r \in (a - 1) .. a
  <2>1. PICK X : X = x * F
    OBVIOUS
  <2>2. X \in Nat /\ 2 * (X - a * u) < u /\ 2 * (a * u - X) < u
    BY <1>1, <2>1, WorthIsClose
  <2> QED BY <1>2, <1>3, <1>4, <2>1, <2>2, CutToUnits
<1>6. PICK y : y = Amount!RoundToDecimals(x, d)
  OBVIOUS
<1>7. y \in Nat /\ Near(p, y * F, r * u) /\ y * F < r * u + u
  <2>1. r < 2 ^ (Mantissa - 2)
    BY <1>5, PowersAre
  <2> QED BY <1>3, <1>4, <1>5, <1>6, <2>1, DigitsAreNear
<1>8. PICK k \in Nat : k > 0 /\ (F = Fs * k \/ Fs = F * k)
  <2>1. PICK k \in 1 .. (10 ^ d + 10 ^ ShownDigits) :
          10 ^ d = 10 ^ ShownDigits * k \/ 10 ^ ShownDigits = 10 ^ d * k
    BY PowersAssumption
  <2>2. F = 10 ^ d /\ Fs = 10 ^ ShownDigits
    BY DEF Amount!Factor
  <2>3. k \in Nat /\ k > 0
    BY <1>1, <2>1, <2>2
  <2> QED BY <2>1, <2>2, <2>3
<1>9. PICK b : b = (a * Fs) \div F
  OBVIOUS
<1>10. b \in Nat /\ 4 * b + 4 <= p
  <2>1. b \in Nat
    <3>1. a * Fs \in Nat
      BY <1>1
    <3> QED BY <1>1, <1>9, <3>1, QuotientAndRest
  <2>2. b < 2 ^ (Mantissa - 2)
    BY <1>9
  <2> QED BY <2>1, <2>2, PowersAre
<1>11. y * Fs < p * u
  <2>1. (r + 1) * u = r * u + u /\ r * u \in Nat /\ p * u \in Nat
    BY <1>2, <1>5
  <2>2. CASE F = Fs * k
    <3>1. PICK Y : Y = y * Fs
      OBVIOUS
    <3>2. Y \in Nat
      BY <1>1, <1>7, <3>1
    <3>3. y * F = Y * k
      BY <1>1, <1>7, <1>8, <2>2, <3>1
    <3>4. Y <= Y * k
      BY <1>8, <3>2, TimesFactor
    <3>5. p - (r + 1) \in Nat
      BY <1>2, <1>5
    <3>6. (p - (r + 1)) * u >= 0 /\ (p - (r + 1)) * u = p * u - (r + 1) * u
      BY <1>2, <1>5, <3>5
    <3>7. PICK i, j, l : i = r * u /\ j = p * u /\ l = Y * k
      OBVIOUS
    <3>8. i \in Nat /\ j \in Nat /\ i + u <= j
      BY <1>2, <2>1, <3>6, <3>7
    <3>9. Y <= l /\ l < i + u /\ l \in Int
      BY <1>7, <1>8, <3>2, <3>3, <3>4, <3>7
    <3>10. Y < j
      BY ONLY <1>2, <3>2, <3>8, <3>9
    <3> QED BY <3>1, <3>7, <3>10
  <2>3. CASE Fs = F * k
    <3>1. PICK Y : Y = y * F
      OBVIOUS
    <3>2. Y \in Nat /\ y * Fs = Y * k
      BY <1>1, <1>7, <1>8, <2>3, <3>1
    <3>3. CASE a = 0
      <4>1. r = 0 /\ r * u = 0
        BY <1>2, <1>5, <3>3
      <4>2. Near(p, Y, 0) /\ p > 0
        BY <1>2, <1>7, <3>1, <4>1
      <4>3. Y = 0
        BY <1>2, <3>2, <4>2, NearNothing
      <4>4. y * Fs = 0
        BY <1>8, <3>2, <4>3
      <4>5. p * u > 0
        BY <1>2, <4>2
      <4> QED BY <4>4, <4>5
    <3>4. CASE a > 0
      <4>1. b = a * k
        <5>1. PICK c : c = a * k
          OBVIOUS
        <5>2. c \in Nat /\ a * Fs = c * F
          BY <1>1, <1>8, <2>3, <5>1
        <5>3. PICK v : v = c * F
          OBVIOUS
        <5>4. c \in Int /\ v \in Int /\ c * F <= v /\ v < c * F + F
          BY <1>1, <5>2, <5>3
        <5>5. v \div F = c
          BY ONLY <1>1, <5>4, QuotientIs
        <5> QED BY <1>9, <5>1, <5>2, <5>3, <5>5
      <4>2. k <= b
        <5>1. k <= k * a
          BY <1>8, <3>4, TimesFactor
        <5>2. k * a = a * k
          BY <1>8
        <5> QED BY <4>1, <5>1, <5>2
      <4>3. (r + 1) * k <= p
        <5>1. a - r \in Nat
          BY <1>5
        <5>2. (a - r) * k >= 0 /\ (a - r) * k = a * k - r * k /\ (r + 1) * k = r * k + k
              /\ a * k \in Int /\ r * k \in Int
          BY <1>5, <1>8, <5>1
        <5>3. (r + 1) * k <= b + b
          BY <1>8, <1>10, <4>1, <4>2, <5>2
        <5>4. (r + 1) * k \in Int
          BY <1>5, <1>8
        <5> QED BY <1>2, <1>10, <5>3, <5>4
      <4>4. Y * k < ((r + 1) * u) * k
        <5>1. PICK j : j = (r + 1) * u
          OBVIOUS
        <5>2. j \in Int /\ j - Y > 0
          BY <1>7, <2>1, <3>1, <3>2, <5>1
        <5>3. (j - Y) * k > 0 /\ (j - Y) * k = j * k - Y * k /\ j * k \in Int /\ Y * k \in Int
          BY <1>8, <3>2, <5>2
        <5>4. Y * k < j * k
          BY <5>3
        <5> QED BY <5>1, <5>4
      <4>5. ((r + 1) * u) * k <= p * u
        <5>1. PICK j : j = (r + 1) * k
          OBVIOUS
        <5>2. j \in Int /\ p - j \in Nat
          BY <1>2, <1>5, <1>8, <4>3, <5>1
        <5>3. (p - j) * u >= 0 /\ (p - j) * u = p * u - j * u /\ j * u \in Int
          BY <1>2, <5>2
        <5>4. ((r + 1) * u) * k = j * u
          BY <1>2, <1>5, <1>8, <5>1
        <5> QED BY <2>1, <5>3, <5>4
      <4>6. Y * k \in Int /\ ((r + 1) * u) * k \in Int
        BY <1>2, <1>5, <1>8, <3>2
      <4> QED BY <2>1, <3>2, <4>4, <4>5, <4>6
    <3> QED BY <3>3, <3>4
  <2> QED BY <1>8, <2>2, <2>3
<1>12. PICK h \in Nat : /\ Near(p, h, y * Fs)
                        /\ Amount!RoundToDecimals(y, ShownDigits) = Amount!Float((h \div u) * u, Fs)
  BY <1>7, <1>11, RoundedToDecimals
<1>13. PICK q : q = h \div u
  OBVIOUS
<1>14. q \in Nat /\ b \in Int /\ ((a - 1) * Fs) \div F \in Int /\ q \in (((a - 1) * Fs) \div F - 1) .. b
  <2>1. CASE F = Fs * k
    BY <1>1, <1>2, <1>5, <1>7, <1>8, <1>9, <1>12, <1>13, <2>1, DigitsOfManyUnits
  <2>2. CASE Fs = F * k
    BY <1>1, <1>2, <1>5, <1>7, <1>8, <1>9, <1>10, <1>12, <1>13, <2>2, DigitsOfOneUnit
  <2> QED BY <1>8, <2>1, <2>2
<1>15. PICK z : z = Amount!HumanReadable(x, d)
  OBVIOUS
<1>16. z \in Nat /\ Near(p, z * Fs, q * u)
  <2>1. z = Amount!Float(q * u, Fs)
    BY <1>6, <1>12, <1>13, <1>15 DEF Amount!HumanReadable
  <2>2. q < 2 ^ (Mantissa - 2)
    <3>1. q <= b /\ 2 ^ (Mantissa - 2) \in Nat /\ b < 2 ^ (Mantissa - 2)
      BY <1>9, <1>10, <1>14, PowersAre
    <3> QED BY <1>10, <1>14, <3>1
  <2> QED BY <1>14, <2>1, <2>2, DigitsAreNear
<1>17. (2 * z * Fs + u) \div (2 * u) = q
  <2>1. PICK Z : Z = z * Fs
    OBVIOUS
  <2>2. Z \in Nat /\ 2 * z * Fs = 2 * Z
    BY <1>1, <1>16, <2>1
  <2>3. 4 * q + 4 <= p
    BY <1>2, <1>10, <1>14
  <2>4. (2 * Z + u) \div (2 * u) = q
    BY <1>2, <1>14, <1>16, <2>1, <2>2, <2>3, DigitsAreRead
  <2> QED BY <2>2, <2>4
<1> QED BY <1>9, <1>14, <1>15, <1>17

\* What has been computed is what the conversions give.
AmountsInv ==
  /\ amount \in Nat /\ decimals \in Decimals
  /\ number # Amount!None => number = NumberOf(way, amount, decimals)
  /\ back # Amount!None => number >= 0 /\ number # Amount!None /\ back = Amount!ToBN(number, decimals)
  /\ shown # Amount!None =>
       number >= 0 /\ number # Amount!None /\ shown = Amount!HumanReadable(number, decimals)

LEMMA AmountsInit == Amount!Init => AmountsInv
<1>1. MaxAmount \in Nat
  BY FloatAssumption
<1> QED BY <1>1 DEF Amount!Init, AmountsInv

LEMMA AmountsStep == AmountsInv /\ [Amount!Next]_(Amount!vars) => AmountsInv'
<1> SUFFICES ASSUME AmountsInv, [Amount!Next]_(Amount!vars) PROVE AmountsInv'
  OBVIOUS
<1>1. CASE Amount!ToNumber
  BY <1>1 DEF AmountsInv, Amount!ToNumber, NumberOf
<1>2. CASE Amount!ToAmount
  <2>1. number # Amount!None
    BY <1>2 DEF Amount!ToAmount, Amount!None
  <2> QED BY <1>2, <2>1 DEF AmountsInv, Amount!ToAmount
<1>3. CASE Amount!Show
  <2>1. number # Amount!None
    BY <1>3 DEF Amount!Show, Amount!None
  <2> QED BY <1>3, <2>1 DEF AmountsInv, Amount!Show
<1>4. CASE UNCHANGED Amount!vars
  BY <1>4 DEF AmountsInv, Amount!vars
<1> QED BY <1>1, <1>2, <1>3, <1>4 DEF Amount!Next

\* Whatever the number of bits of a mantissa, a token's decimals and the digits shown: below the
\* bounds the amount that is made of a number (toBN) is the amount the number was made of
\* (amountAsNum, or typed), and of it a reader sees no digit too many (humanReadable).
THEOREM AmountsAreKept == ClientSpec => []UnitsAreKept
<1>1. AmountsInv => UnitsAreKept
  <2> SUFFICES ASSUME AmountsInv, Amount!Exact PROVE UnitsAreKept
    BY DEF UnitsAreKept, Amount!UnitsAreKept, Amount!NeverOverstated
  <2>1. /\ amount \in Nat /\ amount < 2 ^ (Mantissa - 2) /\ decimals \in Decimals
        /\ Amount!Factor(decimals) < Amount!Safe
        /\ NumberOf(way, amount, decimals) \in Nat
        /\ IsWorth(NumberOf(way, amount, decimals), Amount!Factor(decimals), amount)
    BY NumberIsWorth DEF AmountsInv, Amount!Exact
  <2>2. number # Amount!Thrown
    <3>1. CASE number = Amount!None
      BY <3>1 DEF Amount!None, Amount!Thrown
    <3>2. CASE number # Amount!None
      BY <2>1, <3>2 DEF AmountsInv, Amount!Thrown
    <3> QED BY <3>1, <3>2
  <2>3. back # Amount!None => back = amount
    BY <2>1, BackAgain DEF AmountsInv
  <2>4. Amount!NeverOverstated
    <3> SUFFICES ASSUME Amount!DigitsOf(amount) < 2 ^ (Mantissa - 2), shown # Amount!None
                 PROVE  Amount!Digits \in (Amount!DigitsOf(amount - 1) - 1) .. Amount!DigitsOf(amount)
      BY DEF Amount!NeverOverstated
    <3>1. /\ number \in Nat /\ IsWorth(number, Amount!Factor(decimals), amount)
          /\ shown = Amount!HumanReadable(number, decimals)
      BY <2>1 DEF AmountsInv
    <3> QED BY <2>1, <3>1, ShownIsLess DEF Amount!Digits, Amount!DigitsOf
  <2> QED BY <2>2, <2>3, <2>4 DEF UnitsAreKept, Amount!UnitsAreKept
<1> QED BY <1>1, AmountsInit, AmountsStep, ClientIsAmounts, PTL DEF Amount!Spec

-----------------------------------------------------------------------------
(* transaction.ts: for any number of transactions, chunk size, number of   *)
(* tries and life of a blockhash, transactions sent one after the other    *)
(* take effect in order, a call returns what landed, and no transaction    *)
(* has two signatures that can both be executed.                           *)

USE CallsAssumption, SizesAssumption, BlocksAssumption

Known == sent \cup Executed

\* A signature is executed once; no blockhash is of a block to come.
Chain ==
  /\ landed \cap failed = {}
  /\ blockhash <= height
  /\ ~Ended => tries > 0

\* One after the other: everything before the current transaction took effect and counts,
\* nothing after it was sent, and all have the call's blockhash.
Serial ==
  call # "bulk" =>
    /\ pc \in {"start", "send", "confirm", "done", "failed"}
    /\ confirmed = {}
    /\ pc = "start" => next = 1 /\ ret = {} /\ Known = {}
    /\ \A s \in Known \cup ret : s.blockhash = blockhash
    /\ \A s \in Known : s.work <= next /\ (pc = "send" => s.work < next)
    /\ \A v \in 1..(next - 1) : Sig(v) \in landed /\ Sig(v) \in ret
    /\ pc = "done" => next = N /\ Sig(N) \in ret

\* What of the works before the current chunk, and in what is no longer of it, counts.
Counted ==
  \A w \in Works :
    w < next \/ (w < next + BatchSize /\ w \notin chunk) => \E s \in ret : s.work = w

\* In chunks: the current chunk's transactions are not counted yet; those signed with an
\* earlier blockhash are past it (between rounds: past the height).
Bulk ==
  call = "bulk" =>
    /\ pc # "confirm"
    /\ chunk \subseteq ChunkFrom(next)
    /\ \A s \in Known : s.work < next + BatchSize
    /\ ~Ended => (\A s \in ret : s.work \notin chunk) /\ Counted
    /\ pc = "start" =>
         /\ confirmed \subseteq ret
         /\ \A s \in Known : s.work \in chunk => s.blockhash + Validity < height
    /\ pc \in {"check", "send", "query"} =>
         /\ \A s \in confirmed : s.work \in chunk /\ s.blockhash = blockhash
         /\ \A s \in Known : s.work \in chunk =>
              s.blockhash = blockhash \/ s.blockhash + Validity < blockhash

SenderInv == TypeOK /\ ReturnsWhatLanded /\ NoTwoAlive /\ Chain /\ Serial /\ Bulk

-----------------------------------------------------------------------------

Flags == listening \in BOOLEAN /\ resending \in BOOLEAN

LEMMA InitFlags == Init => Flags
BY Zenon DEF Init, Flags

LEMMA NextFlags ==
  ASSUME Flags, Send \/ Resend \/ Notified \/ Round \/ SendChunk \/ Reject
  PROVE  Flags'
<1>1. CASE Send
  BY <1>1, Zenon DEF Send, Flags
<1>2. CASE Resend
  BY <1>2, Zenon DEF Resend, Flags
<1>3. CASE Notified
  BY <1>3, Zenon DEF Notified, Flags
<1>4. CASE Round
  BY <1>4, Zenon DEF Round, Flags
<1>5. CASE SendChunk
  BY <1>5, Zenon DEF SendChunk, Flags
<1>6. CASE Reject
  BY <1>6, Zenon DEF Reject, Throw, Flags
<1> QED BY <1>1, <1>2, <1>3, <1>4, <1>5, <1>6

LEMMA SigsType == \A w \in Works : blockhash \in Nat => Sig(w) \in Signature
BY DEF Sig, Signature

LEMMA SigsFields ==
  ASSUME NEW W, NEW s \in Sigs(W)
  PROVE  s.work \in W /\ s.blockhash = blockhash
BY DEF Sigs, Sig

\* What lies before the end of a chunk and is not of it lies before the chunk.
LEMMA BeforeChunk ==
  ASSUME NEW n \in Works, NEW w \in Works, w < n + BatchSize, w \notin ChunkFrom(n)
  PROVE  w < n
BY DEF ChunkFrom, Works

LEMMA SenderInit == Init => SenderInv
<1> SUFFICES ASSUME Init PROVE SenderInv
  OBVIOUS
<1>1. TypeOK
  <2>1. height \in Nat /\ blockhash \in Nat /\ next \in Works /\ chunk \subseteq Works /\ tries \in 0..Tries
    BY DEF Init, ChunkFrom, Works
  <2>2. /\ sent \subseteq Signature /\ landed \subseteq Signature /\ failed \subseteq Signature
        /\ confirmed \subseteq Signature /\ ret \subseteq Signature
        /\ pc \in {"start", "send", "confirm", "check", "query", "done", "failed"}
        /\ call \in Calls
    BY DEF Init
  <2> QED BY <2>1, <2>2, InitFlags DEF TypeOK, Flags
<1>2. Known = {} /\ ret = {} /\ confirmed = {}
  BY DEF Init, Known, Executed
<1>3. ReturnsWhatLanded /\ NoTwoAlive /\ Chain
  BY <1>2 DEF Init, ReturnsWhatLanded, NoTwoAlive, Chain, Known
<1>4. Serial
  BY <1>2 DEF Init, Serial
<1>5. Bulk
  BY <1>2 DEF Init, Bulk, Counted, ChunkFrom, Works
<1> QED BY <1>1, <1>3, <1>4, <1>5 DEF SenderInv

LEMMA NewBlockKeeps == SenderInv /\ NewBlock => SenderInv'
<1> SUFFICES ASSUME SenderInv, NewBlock PROVE SenderInv'
  OBVIOUS
<1> USE DEF SenderInv, NewBlock, caller
<1>1. TypeOK'
  BY DEF TypeOK
<1>2. (ReturnsWhatLanded /\ NoTwoAlive)'
  BY DEF ReturnsWhatLanded, NoTwoAlive, Executed
<1>3. (Chain /\ Serial)'
  BY DEF Chain, Serial, Ended, Known, Executed, Sig, TypeOK
<1>4. Bulk'
  <2>1. \A s \in Known : s.blockhash \in Nat
    BY DEF Known, Executed, TypeOK, Signature
  <2> QED BY <2>1 DEF Bulk, Counted, Ended, Known, Executed, TypeOK
<1> QED BY <1>1, <1>2, <1>3, <1>4

\* Executing what was sent, or forgetting it, makes no signature known.
LEMMA LandKeeps ==
  ASSUME SenderInv, NEW s \in sent, Land(s) \/ Drop(s)
  PROVE  SenderInv'
<1> USE DEF SenderInv, Land, Drop, caller
<1>1. UNCHANGED <<height, caller>>
  OBVIOUS
<1>2. /\ Known' \subseteq Known
      /\ landed \subseteq landed' /\ landed' \cap failed' = {}
  BY DEF Known, Executed, Chain
<1>3. TypeOK'
  BY DEF TypeOK
<1>4. ReturnsWhatLanded'
  BY <1>1, <1>2 DEF ReturnsWhatLanded
<1>5. NoTwoAlive'
  BY <1>1, <1>2 DEF NoTwoAlive, Known
<1>6. Chain'
  BY <1>1, <1>2 DEF Chain, Ended
<1>7. Serial'
  BY <1>1, <1>2 DEF Serial, Sig
<1>8. Bulk'
  BY <1>1, <1>2 DEF Bulk, Counted, Ended
<1> QED BY <1>3, <1>4, <1>5, <1>6, <1>7, <1>8

-----------------------------------------------------------------------------
(* One transaction after the other *)

LEMMA BeginKeeps == SenderInv /\ Begin => SenderInv'
<1> SUFFICES ASSUME SenderInv, Begin PROVE SenderInv'
  OBVIOUS
<1> USE DEF SenderInv, Begin, SignHere, SignRemote, chain
<1>1. TypeOK' /\ Chain'
  BY DEF TypeOK, Chain, Ended
<1>2. Known = {} /\ Known' = {} /\ ret' = {} /\ confirmed' = {} /\ next' = 1
  BY DEF Serial, Known, Executed
<1>3. (ReturnsWhatLanded /\ NoTwoAlive)'
  BY <1>2 DEF ReturnsWhatLanded, NoTwoAlive, Known
<1>4. Serial' /\ Bulk'
  BY <1>2 DEF Serial, Bulk
<1> QED BY <1>1, <1>3, <1>4

LEMMA SendKeeps == SenderInv /\ (Send \/ Resend) => SenderInv'
<1> SUFFICES ASSUME SenderInv, Send \/ Resend PROVE SenderInv'
  OBVIOUS
<1> USE DEF SenderInv, Send, Resend
<1>1. call # "bulk" /\ call' = call /\ pc' = "confirm"
  BY DEF Bulk
<1>2. UNCHANGED <<height, landed, failed, blockhash, next, chunk, confirmed, ret, tries>>
  OBVIOUS
<1>3. Known' \subseteq Known \cup {Sig(next)}
  BY DEF Known, Executed
<1>4. TypeOK'
  <2>1. Flags'
    BY NextFlags DEF TypeOK, Flags
  <2>2. sent' \subseteq Signature
    BY SigsType DEF TypeOK
  <2> QED BY <1>1, <1>2, <2>1, <2>2 DEF TypeOK, Flags
<1>5. ReturnsWhatLanded' /\ Chain' /\ Bulk'
  BY <1>1, <1>2 DEF ReturnsWhatLanded, Chain, Bulk, Ended
<1>6. Serial'
  BY <1>1, <1>2, <1>3 DEF Serial, Sig, TypeOK, Works
<1>7. NoTwoAlive'
  <2>1. \A s \in Known' : s \in Signature /\ s.blockhash = blockhash
    BY <1>2, <1>4, <1>6, <1>1 DEF Serial, Known, Executed, TypeOK
  <2> QED BY <2>1 DEF NoTwoAlive, Signature, Known
<1> QED BY <1>4, <1>5, <1>6, <1>7

LEMMA NotifiedKeeps == SenderInv /\ Notified => SenderInv'
<1> SUFFICES ASSUME SenderInv, Notified PROVE SenderInv'
  OBVIOUS
<1> USE DEF SenderInv, Notified, NextInOrder, Succeeded, chain
<1>1. call # "bulk"
  BY DEF Bulk
<1>2. TypeOK'
  <2>1. Flags'
    BY NextFlags DEF TypeOK, Flags
  <2>2. ret' \subseteq Signature
    BY SigsType DEF TypeOK
  <2>3. next' \in Works /\ pc' \in {"send", "done", "failed"}
    BY DEF TypeOK, Works
  <2> QED BY <2>1, <2>2, <2>3 DEF TypeOK, Flags
<1>3. Known' = Known
  BY DEF Known, Executed
<1>4. NoTwoAlive' /\ Chain' /\ Bulk'
  BY <1>1 DEF NoTwoAlive, Executed, Chain, Bulk, Ended
<1>5. Serial'
  <2>1. CASE Sig(next) \in landed /\ next < N
    <3>1. \A v \in 1..(next' - 1) : v \in 1..(next - 1) \/ v = next
      BY <2>1 DEF TypeOK, Works
    <3>2. /\ next' = next + 1 /\ pc' = "send" /\ ret' = ret \cup {Sig(next)}
          /\ landed' = landed /\ blockhash' = blockhash /\ confirmed' = confirmed
      BY <2>1
    <3>3. \A v \in 1..(next' - 1) : Sig(v)' \in landed' /\ Sig(v)' \in ret'
      BY <1>1, <2>1, <3>1, <3>2 DEF Serial, Sig
    <3>4. \A s \in Known : s.work \in Int /\ s.work < next'
      BY <1>1, <3>2 DEF Serial, Known, Executed, TypeOK, Signature, Works
    <3>5. \A s \in Known' \cup ret' : s.blockhash = blockhash'
      BY <1>1, <1>3, <3>2 DEF Serial, Sig
    <3>6. \A s \in Known' : s.work <= next' /\ s.work < next'
      BY <1>3, <3>2, <3>4 DEF TypeOK, Works
    <3> QED BY <1>1, <3>2, <3>3, <3>5, <3>6 DEF Serial
  <2>2. CASE Sig(next) \in landed /\ ~(next < N)
    BY <1>1, <1>3, <2>2 DEF Serial, Sig, TypeOK, Works
  <2>3. CASE Sig(next) \notin landed
    BY <1>1, <1>3, <2>3 DEF Serial, Sig
  <2> QED BY <2>1, <2>2, <2>3
<1>6. ReturnsWhatLanded'
  <2>1. ret' \cup confirmed' \subseteq landed'
    BY DEF ReturnsWhatLanded
  <2>2. \A s, t \in ret' \cup confirmed' : s.work = t.work => s = t
    BY <1>1, <1>2, <1>5 DEF Serial, TypeOK, Signature
  <2>3. pc' = "done" => \A w \in Works : \E s \in ret' : s.work = w
    <3> SUFFICES ASSUME pc' = "done", NEW w \in Works PROVE Sig(w) \in ret'
      BY DEF Sig
    <3> QED BY <1>1, <1>5 DEF Serial, Sig, Works
  <2> QED BY <2>1, <2>2, <2>3 DEF ReturnsWhatLanded
<1> QED BY <1>2, <1>4, <1>5, <1>6

-----------------------------------------------------------------------------
(* In chunks *)

LEMMA RoundKeeps == SenderInv /\ Round => SenderInv'
<1> SUFFICES ASSUME SenderInv, Round PROVE SenderInv'
  OBVIOUS
<1> USE DEF SenderInv, Round, chain
<1>1. TypeOK' /\ Chain'
  <2>1. Flags'
    BY NextFlags DEF TypeOK, Flags
  <2> QED BY <2>1 DEF TypeOK, Flags, Chain, Ended
<1>2. ReturnsWhatLanded' /\ NoTwoAlive' /\ Serial'
  BY DEF ReturnsWhatLanded, NoTwoAlive, Executed, Serial
<1>3. Bulk'
  BY DEF Bulk, Counted, Ended, Known, Executed
<1> QED BY <1>1, <1>2, <1>3

\* What bulkSendRawTransactions returns: its confirmed signatures, which are of the chunk.
\* It returns with all of them, or when its blockhash is past.
LEMMA ReturnedKeeps ==
  ASSUME SenderInv, call = "bulk", pc \in {"check", "query"},
         NEW c, confirmed \subseteq c, c \subseteq landed,
         \A s \in c : s.work \in chunk /\ s.blockhash = blockhash,
         AllSeen(c) \/ Past(blockhash), Returned(c), confirmed' = c,
         UNCHANGED <<chain, call, blockhash>>,
         TypeOK'
  PROVE  SenderInv'
<1> USE DEF SenderInv, chain
<1>1. Known' = Known /\ ret' = ret \cup c /\ ~Ended
  BY DEF Known, Executed, Returned, Ended
<1>2. Chain' /\ NoTwoAlive' /\ Serial'
  BY <1>1 DEF Chain, NoTwoAlive, Executed, Serial, Returned, Ended, TypeOK
<1>3. ret' \cup confirmed' \subseteq landed'
  BY <1>1 DEF ReturnsWhatLanded
<1>4. \A s, t \in ret' \cup confirmed' : s.work = t.work => s = t
  BY <1>1 DEF ReturnsWhatLanded, Bulk, TypeOK, Signature
<1>5. \A w \in chunk : Sig(w) \in c => \E s \in ret' : s.work = w
  BY <1>1 DEF Sig
<1>6. CASE AllSeen(c)
  <2>1. \A w \in Works : w < next + BatchSize => \E s \in ret' : s.work = w
    BY <1>1, <1>5, <1>6 DEF Bulk, Counted, AllSeen
  <2>2. CASE next + BatchSize <= N
    <3>1. /\ next' = next + BatchSize /\ chunk' = ChunkFrom(next') /\ pc' = "start"
      BY <1>6, <2>2 DEF Returned
    <3>2. Counted'
      <4> SUFFICES ASSUME NEW w \in Works,
                          w < next' \/ (w < next' + BatchSize /\ w \notin ChunkFrom(next'))
                   PROVE  \E s \in ret' : s.work = w
        BY <3>1 DEF Counted
      <4>1. next' \in Works
        BY DEF TypeOK
      <4>2. w < next'
        BY <4>1, BeforeChunk
      <4> QED BY <2>1, <3>1, <4>2
    <3>3. \A s \in Known : s.work < next'
      BY <3>1 DEF Bulk
    <3>4. \A s \in Known : s.work \notin chunk' /\ s.work < next' + BatchSize
      BY <3>1, <3>3 DEF ChunkFrom, Works, TypeOK, Known, Executed, Signature
    <3>5. ret' \subseteq Known
      BY <1>3 DEF Known, Executed
    <3>6. Bulk'
      BY <1>1, <3>1, <3>2, <3>4, <3>5 DEF Bulk, Ended
    <3> QED BY <1>2, <1>3, <1>4, <3>1, <3>6 DEF ReturnsWhatLanded
  <2>3. CASE ~(next + BatchSize <= N)
    <3>1. pc' = "done" /\ UNCHANGED <<next, chunk>>
      BY <1>6, <2>3 DEF Returned
    <3>2. \A w \in Works : \E s \in ret' : s.work = w
      BY <2>1, <2>3 DEF Works, TypeOK
    <3> QED BY <1>1, <1>2, <1>3, <1>4, <3>1, <3>2 DEF ReturnsWhatLanded, Bulk, Ended
  <2> QED BY <2>2, <2>3
<1>7. CASE ~AllSeen(c)
  <2>1. /\ chunk' = {w \in chunk : Sig(w) \notin ret'}
        /\ pc' \in {"failed", "start"} /\ next' = next
    BY <1>7 DEF Returned
  <2>2. Counted'
    <3> SUFFICES ASSUME NEW w \in Works, w < next \/ (w < next + BatchSize /\ w \notin chunk')
                 PROVE  \E s \in ret' : s.work = w
      BY <2>1 DEF Counted
    <3>1. CASE w < next \/ w \notin chunk
      BY <1>1, <3>1 DEF Bulk, Counted
    <3>2. CASE w \in chunk /\ Sig(w) \in ret'
      BY <3>2 DEF Sig
    <3> QED BY <2>1, <3>1, <3>2
  <2>3. \A s \in ret' : s.work \notin chunk'
    <3>1. \A s \in ret : s.work \notin chunk
      BY <1>1 DEF Bulk
    <3>2. \A s \in c : s = Sig(s.work)
      BY DEF Sig, TypeOK, Signature
    <3> QED BY <1>1, <2>1, <3>1, <3>2
  <2>4. \A s \in Known : s.work \in chunk' => s.blockhash + Validity < height
    <3>1. \A s \in Known : s.blockhash \in Nat
      BY DEF Known, Executed, TypeOK, Signature
    <3> QED BY <1>7, <2>1, <3>1 DEF Bulk, Past, TypeOK
  <2>5. Bulk'
    BY <1>1, <2>1, <2>2, <2>3, <2>4 DEF Bulk, ChunkFrom
  <2> QED BY <1>2, <1>3, <1>4, <2>1, <2>5 DEF ReturnsWhatLanded
<1> QED BY <1>6, <1>7

LEMMA ReturnedType ==
  ASSUME TypeOK, ~Ended, Chain, NEW c \in SUBSET Signature, Returned(c)
  PROVE  /\ ret' \subseteq Signature /\ next' \in Works /\ chunk' \subseteq Works
         /\ tries' \in 0..Tries /\ pc' \in {"start", "done", "failed"}
<1> USE DEF Returned
<1>1. ret' \subseteq Signature
  BY DEF TypeOK
<1>2. CASE AllSeen(c) /\ next + BatchSize <= N
  BY <1>1, <1>2 DEF TypeOK, Works, ChunkFrom
<1>3. CASE AllSeen(c) /\ ~(next + BatchSize <= N)
  BY <1>1, <1>3 DEF TypeOK
<1>4. CASE ~AllSeen(c)
  BY <1>1, <1>4 DEF TypeOK, Chain
<1> QED BY <1>2, <1>3, <1>4

LEMMA CheckKeeps == SenderInv /\ Check => SenderInv'
<1> SUFFICES ASSUME SenderInv, Check PROVE SenderInv'
  OBVIOUS
<1> USE DEF SenderInv
<1>1. call = "bulk" /\ UNCHANGED <<chain, call, blockhash, confirmed, listening, resending>>
  BY DEF Check, Serial
<1>2. CASE Past(blockhash)
  <2>1. Returned(confirmed) /\ pc = "check"
    BY <1>2 DEF Check
  <2>2. TypeOK'
    BY <1>1, <2>1, ReturnedType DEF TypeOK, chain, Ended
  <2> QED BY <1>1, <1>2, <2>1, <2>2, ReturnedKeeps DEF ReturnsWhatLanded, Bulk
<1>3. CASE ~Past(blockhash)
  <2>1. pc = "check" /\ pc' \in {"send", "query"} /\ UNCHANGED <<next, chunk, ret, tries>>
    BY <1>3 DEF Check
  <2>2. TypeOK'
    BY <1>1, <2>1 DEF TypeOK, chain
  <2>3. Chain' /\ NoTwoAlive' /\ Serial' /\ ReturnsWhatLanded'
    BY <1>1, <2>1 DEF Chain, NoTwoAlive, Executed, Serial, ReturnsWhatLanded, Ended, chain
  <2>4. Bulk'
    BY <1>1, <2>1 DEF Bulk, Counted, Ended, Known, Executed, chain
  <2> QED BY <2>2, <2>3, <2>4
<1> QED BY <1>2, <1>3

\* What is signed anew is signed after what was signed before has expired.
LEMMA SignedAnew ==
  ASSUME SenderInv, call = "bulk", pc = "send", NEW W \in SUBSET Pending,
         sent' = sent \cup Sigs(W), UNCHANGED <<landed, failed>>
  PROVE  NoTwoAlive' /\ Known' = Known \cup Sigs(W)
<1> USE DEF SenderInv
<1>1. Known' = Known \cup Sigs(W)
  BY DEF Known, Executed
<1>2. \A s \in Known : s \in Signature
  BY DEF Known, Executed, TypeOK
<1>3. \A s \in Sigs(W) : s.work \in chunk /\ s.blockhash = blockhash /\ s = Sig(s.work)
  BY DEF Sigs, Sig, Pending
<1>4. \A s \in Known, t \in Sigs(W) : s.work = t.work /\ s # t => s.blockhash + Validity < t.blockhash
  BY <1>2, <1>3 DEF Bulk, Signature, Sig
<1>5. \A s, t \in Sigs(W) : s.work = t.work => s = t
  BY <1>3
<1>6. \A s, t \in Known : s.work = t.work /\ s # t =>
        s.blockhash + Validity < t.blockhash \/ t.blockhash + Validity < s.blockhash
  BY DEF NoTwoAlive, Known
<1>7. \A s, t \in Known' : s.work = t.work /\ s # t =>
        s.blockhash + Validity < t.blockhash \/ t.blockhash + Validity < s.blockhash
  BY <1>1, <1>4, <1>5, <1>6
<1> QED BY <1>1, <1>7 DEF NoTwoAlive, Known

LEMMA SendChunkKeeps == SenderInv /\ SendChunk => SenderInv'
<1> SUFFICES ASSUME SenderInv, SendChunk PROVE SenderInv'
  OBVIOUS
<1> USE DEF SenderInv, SendChunk
<1>1. NoTwoAlive' /\ Known' = Known \cup Sigs(Pending)
  BY SignedAnew
<1>2. TypeOK'
  <2>1. Flags'
    BY NextFlags DEF TypeOK, Flags
  <2>2. sent' \subseteq Signature
    BY SigsType DEF TypeOK, Sigs, Pending
  <2> QED BY <2>1, <2>2 DEF TypeOK, Flags
<1>3. Chain' /\ Serial' /\ ReturnsWhatLanded'
  BY DEF Chain, Serial, ReturnsWhatLanded, Ended
<1>4. Bulk'
  <2>1. \A s \in Sigs(Pending) : s.work \in chunk /\ s.blockhash = blockhash
    BY SigsFields DEF Pending
  <2>2. \A s \in Known' : s.work < next' + BatchSize
    BY <1>1, <2>1 DEF Bulk, ChunkFrom
  <2>3. \A s \in Known' : s.work \in chunk =>
          s.blockhash = blockhash \/ s.blockhash + Validity < blockhash
    BY <1>1, <2>1 DEF Bulk
  <2>4. Counted' /\ ~Ended
    BY DEF Bulk, Counted, Ended
  <2> QED BY <2>2, <2>3, <2>4 DEF Bulk, Ended
<1> QED BY <1>1, <1>2, <1>3, <1>4

LEMMA QueryKeeps == SenderInv /\ Query => SenderInv'
<1> SUFFICES ASSUME SenderInv, Query PROVE SenderInv'
  OBVIOUS
<1> USE DEF SenderInv
<1>1. call = "bulk" /\ pc = "query" /\ UNCHANGED <<chain, call, blockhash, listening, resending>>
  BY DEF Query, Serial
<1>2. PICK seen \in SUBSET {w \in Pending : Sig(w) \in Executed} :
        IF Sigs(seen) \cap failed # {}
        THEN pc' = "failed" /\ UNCHANGED <<next, chunk, ret, tries, confirmed>>
        ELSE /\ confirmed' = confirmed \cup Sigs(seen)
             /\ IF AllSeen(confirmed \cup Sigs(seen))
                THEN Returned(confirmed \cup Sigs(seen))
                ELSE pc' = "check" /\ UNCHANGED <<next, chunk, ret, tries>>
  BY DEF Query
<1>3. Known' = Known
  BY <1>1 DEF Known, Executed, chain
<1>4. CASE Sigs(seen) \cap failed # {}
  <2>1. TypeOK' /\ Chain' /\ NoTwoAlive' /\ Serial' /\ ReturnsWhatLanded'
    BY <1>1, <1>2, <1>4 DEF TypeOK, Chain, NoTwoAlive, Executed, Serial, ReturnsWhatLanded,
                            Ended, chain
  <2>2. Bulk'
    BY <1>1, <1>2, <1>3, <1>4 DEF Bulk, Ended
  <2> QED BY <2>1, <2>2
<1>5. CASE Sigs(seen) \cap failed = {}
  <2> DEFINE c == confirmed \cup Sigs(seen)
  <2>1. c \subseteq landed
    BY <1>5 DEF ReturnsWhatLanded, Sigs, Executed
  <2>2. \A s \in c : s.work \in chunk /\ s.blockhash = blockhash
    BY <1>1 DEF Bulk, Sigs, Sig, Pending
  <2>3. c \in SUBSET Signature /\ confirmed' = c
    BY <1>2, <1>5, <2>1 DEF TypeOK
  <2>4. CASE AllSeen(c)
    <3>1. Returned(c)
      BY <1>2, <1>5, <2>4
    <3> HIDE DEF c
    <3>2. TypeOK'
      BY <1>1, <2>3, <3>1, ReturnedType DEF TypeOK, chain, Ended
    <3>3. confirmed \subseteq c
      BY DEF c
    <3> QED BY <1>1, <2>1, <2>2, <2>3, <2>4, <3>1, <3>2, <3>3, ReturnedKeeps
  <2>5. CASE ~AllSeen(c)
    <3>1. pc' = "check" /\ UNCHANGED <<next, chunk, ret, tries>>
      BY <1>2, <1>5, <2>5
    <3> HIDE DEF c
    <3>2. TypeOK'
      BY <1>1, <2>3, <3>1 DEF TypeOK, chain
    <3>3. Chain' /\ NoTwoAlive' /\ Serial'
      BY <1>1, <3>1 DEF Chain, NoTwoAlive, Executed, Serial, Ended, chain
    <3>4. Bulk'
      BY <1>1, <1>3, <2>2, <2>3, <3>1 DEF Bulk, Counted, Ended, chain
    <3>5. ReturnsWhatLanded'
      <4>1. \A s \in ret : s.work \notin chunk
        BY <1>1 DEF Bulk, Ended
      <4> QED BY <1>1, <2>1, <2>2, <2>3, <3>1, <4>1 DEF ReturnsWhatLanded, chain, TypeOK, Signature
    <3> QED BY <3>2, <3>3, <3>4, <3>5
  <2> QED BY <2>4, <2>5
<1> QED BY <1>4, <1>5

-----------------------------------------------------------------------------

LEMMA RejectKeeps == SenderInv /\ Reject => SenderInv'
<1> SUFFICES ASSUME SenderInv, Reject PROVE SenderInv'
  OBVIOUS
<1> USE DEF SenderInv, Reject, Throw
<1>1. PICK S \in SUBSET (IF pc # "send" THEN {} ELSE IF call = "bulk" THEN Pending ELSE {next}) :
        sent' = sent \cup Sigs(S)
  OBVIOUS
<1>2. UNCHANGED <<height, landed, failed, call, blockhash, next, chunk, confirmed, ret, tries>>
      /\ pc' = "failed"
  OBVIOUS
<1>3. S \subseteq Works
  BY DEF Pending, TypeOK
<1>4. Known' = Known \cup Sigs(S)
  BY <1>1 DEF Known, Executed
<1>5. TypeOK'
  <2>1. Flags'
    BY NextFlags DEF TypeOK, Flags
  <2>2. sent' \subseteq Signature
    BY <1>1, <1>3, SigsType DEF TypeOK, Sigs
  <2> QED BY <1>2, <2>1, <2>2 DEF TypeOK, Flags
<1>6. Chain' /\ ReturnsWhatLanded'
  BY <1>2 DEF Chain, ReturnsWhatLanded, Ended
<1>7. Serial'
  <2>1. call # "bulk" => S \subseteq {next} /\ (S # {} => pc = "send")
    BY <1>1
  <2>2. \A s \in Sigs(S) : s.blockhash = blockhash /\ s.work \in S
    BY DEF Sigs, Sig
  <2> QED BY <1>2, <1>4, <2>1, <2>2 DEF Serial, Sig, TypeOK, Works
<1>8. Bulk'
  <2>1. call = "bulk" => S \subseteq chunk
    BY <1>1 DEF Pending
  <2>2. \A s \in Sigs(S) : s.work \in S
    BY DEF Sigs, Sig
  <2> QED BY <1>2, <1>4, <2>1, <2>2 DEF Bulk, Ended, ChunkFrom
<1>9. NoTwoAlive'
  <2>1. CASE S = {}
    BY <1>1, <1>2, <2>1 DEF NoTwoAlive, Sigs, Executed
  <2>2. CASE call = "bulk" /\ pc = "send"
    BY <1>1, <2>2, SignedAnew
  <2>3. CASE call # "bulk"
    <3>1. \A s \in Known' : s \in Signature /\ s.blockhash = blockhash
      BY <1>2, <1>5, <1>7, <2>3 DEF Serial, Known, Executed, TypeOK
    <3> QED BY <3>1 DEF NoTwoAlive, Signature, Known
  <2> QED BY <1>1, <2>1, <2>2, <2>3
<1> QED BY <1>5, <1>6, <1>7, <1>8, <1>9

LEMMA SenderStep == SenderInv /\ [Next]_vars => SenderInv'
<1>1. SenderInv /\ UNCHANGED vars => SenderInv'
  <2> SUFFICES ASSUME SenderInv, UNCHANGED vars PROVE SenderInv'
    OBVIOUS
  <2> USE DEF SenderInv, vars, chain, caller
  <2>1. (TypeOK /\ ReturnsWhatLanded /\ NoTwoAlive /\ Chain)'
    BY DEF TypeOK, ReturnsWhatLanded, NoTwoAlive, Executed, Chain, Ended
  <2>2. (Serial /\ Bulk)'
    BY DEF Serial, Bulk, Counted, Known, Executed, Sig, Ended
  <2> QED BY <2>1, <2>2
<1> QED BY <1>1, NewBlockKeeps, LandKeeps, BeginKeeps, SendKeeps, NotifiedKeeps, RoundKeeps, CheckKeeps,
           SendChunkKeeps, QueryKeeps, RejectKeeps DEF Next, Caller

\* The state of the call and of the chain keeps its types.
THEOREM SenderTypes == Spec => []TypeOK
<1>1. SenderInv => TypeOK
  BY DEF SenderInv
<1> QED BY <1>1, SenderInit, SenderStep, PTL DEF Spec

\* A call returns one landed signature for each of its transactions.
THEOREM ReturnsLanded == Spec => []ReturnsWhatLanded
<1>1. SenderInv => ReturnsWhatLanded
  BY DEF SenderInv
<1> QED BY <1>1, SenderInit, SenderStep, PTL DEF Spec

\* No transaction has two signatures that can be executed at the same height.
THEOREM OneAlive == Spec => []NoTwoAlive
<1>1. SenderInv => NoTwoAlive
  BY DEF SenderInv
<1> QED BY <1>1, SenderInit, SenderStep, PTL DEF Spec

LEMMA InOrder == SenderInv => LandsInOrder
<1> SUFFICES ASSUME SenderInv, call # "bulk" PROVE LandsInOrder
  BY DEF LandsInOrder
<1> USE DEF SenderInv
<1>1. \A s \in Known : s = Sig(s.work) /\ s.work \in Works /\ s.work <= next
  BY DEF Serial, Known, Executed, TypeOK, Signature, Sig
<1>2. \A s \in landed : \A v \in 1..(s.work - 1) : Sig(v) \in landed
  BY <1>1 DEF Serial, Known, Executed, TypeOK, Works
<1>3. \A s \in failed : s.work = next
  <2> SUFFICES ASSUME NEW s \in failed, s.work # next PROVE FALSE
    OBVIOUS
  <2>1. s.work \in 1..(next - 1) /\ s = Sig(s.work)
    BY <1>1 DEF Known, Executed, Works, TypeOK
  <2> QED BY <2>1 DEF Serial, Chain
<1> QED BY <1>1, <1>2, <1>3 DEF LandsInOrder, Known

\* Transactions sent one after the other take effect in order, and none after a failed one.
THEOREM Ordered == Spec => []LandsInOrder
BY InOrder, SenderInit, SenderStep, PTL DEF Spec

\* All of this holds of the sender as it is used in ClientCode.
THEOREM SenderInUse == ClientSpec => [](LandsInOrder /\ ReturnsWhatLanded /\ NoTwoAlive)
<1>1. ClientSpec => []SenderInv
  BY SenderInit, SenderStep, ClientIsSender, PTL
<1>2. SenderInv => LandsInOrder /\ ReturnsWhatLanded /\ NoTwoAlive
  BY InOrder DEF SenderInv
<1> QED BY <1>1, <1>2, PTL
=============================================================================
