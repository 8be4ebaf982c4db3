---------------------------- MODULE AgentProofs -----------------------------
(***************************************************************************)
(* Proofs about the agent process for any set of ids and any number of     *)
(* requests and cancels.                                                   *)
(***************************************************************************)
EXTENDS Agent, FiniteSetTheorems, TLAPS

-----------------------------------------------------------------------------
(* The conversions.                                                        *)

\* Every popup response has a UI response type.
LEMMA UIResponseOfType ==
  ASSUME NEW r \in NResponseType
  PROVE  UIResponseOf(r) \in UIResponseType
BY DEF NResponseType, UIResponseOf, UIResponseType

\* Whatever a UI response is, the agent answers cynara with a policy type of
\* the client or with one of the two error strings.
LEMMA ResponseDataType ==
  ASSUME NEW t \in UIResponseType
  PROVE  ResponseData(t) \in AgentData
<1>1. UIResponseToPolicyType(t) \in ALLOW_ONCE .. DENY_PER_LIFE
  BY DEF UIResponseType, UIResponseToPolicyType, ALLOW_ONCE, ALLOW_PER_SESSION,
         ALLOW_PER_LIFE, DENY_ONCE, DENY_PER_SESSION, DENY_PER_LIFE
<1>2. Number(UIResponseToPolicyType(t)) \in AgentData
  BY <1>1 DEF AgentData
<1>3. Text(ErrorMsg) \in AgentData /\ Text(TimeoutMsg) \in AgentData
  BY DEF AgentData
<1>4. NoError # ErrorMsg /\ NoError # TimeoutMsg
  BY DEF NoError, ErrorMsg, TimeoutMsg
<1>5. QED
  BY <1>2, <1>3, <1>4 DEF ResponseData, answerToData

\* NotificationBackend's conversion followed by the agent's means what the
\* user decided.
LEMMA ConversionIsMeaning ==
  ASSUME NEW r \in NResponseType
  PROVE  ResponseData(UIResponseOf(r)) = Contract!Meaning(r)
BY DEF NResponseType, UIResponseOf, ResponseData, answerToData,
       UIResponseToPolicyType, NoError, ErrorMsg, TimeoutMsg, Number, Text,
       ALLOW_PER_LIFE, DENY_ONCE, DENY_PER_LIFE, Contract!Meaning,
       Contract!Number, Contract!Text, Contract!ErrorMsg, Contract!TimeoutMsg,
       Contract!ALLOW_PER_LIFE, Contract!DENY_ONCE, Contract!DENY_PER_LIFE

-----------------------------------------------------------------------------
(* Type correctness.                                                       *)

\* Pushing a request keeps the types of what Agent::m_mutex guards.
LEMMA PushRequestType ==
  ASSUME TypeOK, NEW request \in Requests, PushRequest(request)
  PROVE  /\ m_incomingRequests' \in Seq(Requests)
         /\ m_incomingResponses' \in Seq(Responses)
         /\ notified' \in BOOLEAN
<1>1. m_incomingRequests \in Seq(Requests) /\ m_incomingResponses \in Seq(Responses)
  BY DEF TypeOK
<1>2. m_incomingRequests' = Append(m_incomingRequests, request)
  BY DEF PushRequest
<1>3. m_incomingRequests' \in Seq(Requests)
  BY <1>1, <1>2
<1>4. notified' \in BOOLEAN
  BY DEF PushRequest, NotifyMain, TypeOK
<1>5. QED
  BY <1>1, <1>3, <1>4 DEF PushRequest

\* The queues and hands the cynara thread writes keep their types.
LEMMA CynaraThreadType ==
  ASSUME TypeOK, CynaraThread
  PROVE  TypeOK'
<1> USE DEF TypeOK, InHandOK, CynaraUnchanged, queueVars, requestVars, uiVars, talkerVars
<1>1. \A id \in Ids : Request("RT_Action", id) \in Requests /\ Request("RT_Cancel", id) \in Requests
  BY DEF Request, Requests
<1>2. Close \in Requests
  BY DEF Requests
<1>3. CASE CynaraInitialize
  BY <1>3 DEF CynaraInitialize, CynaraStates
<1>4. CASE CynaraInitializeFails
  BY <1>2, <1>4, PushRequestType DEF CynaraInitializeFails, CynaraStates
<1>5. ASSUME NEW id \in Ids, GetAction(id) PROVE TypeOK'
  <2>1. Request("RT_Action", id) \in Requests
    BY <1>1
  <2>2. PushRequest(Request("RT_Action", id))
    BY <1>5 DEF GetAction
  <2>3. asked' \in [Ids -> Nat]
    <3>1. asked \in [Ids -> Nat]
      OBVIOUS
    <3> HIDE DEF TypeOK
    <3>2. QED
      BY <1>5, <3>1 DEF GetAction
  <2>4. /\ m_incomingRequests' \in Seq(Requests)
        /\ m_incomingResponses' \in Seq(Responses)
        /\ notified' \in BOOLEAN
    <3> HIDE DEF TypeOK
    <3>1. QED
      BY <2>1, <2>2, PushRequestType
  <2>5. QED
    BY <1>5, <2>3, <2>4 DEF GetAction
<1>6. ASSUME NEW id \in Ids, GetCancel(id) PROVE TypeOK'
  <2>1. Request("RT_Cancel", id) \in Requests
    BY <1>1
  <2>2. PushRequest(Request("RT_Cancel", id))
    BY <1>6 DEF GetCancel
  <2>3. cancels' \in [Ids -> Nat]
    <3>1. cancels \in [Ids -> Nat]
      OBVIOUS
    <3> HIDE DEF TypeOK
    <3>2. QED
      BY <1>6, <3>1 DEF GetCancel
  <2>4. /\ m_incomingRequests' \in Seq(Requests)
        /\ m_incomingResponses' \in Seq(Responses)
        /\ notified' \in BOOLEAN
    <3> HIDE DEF TypeOK
    <3>1. QED
      BY <2>1, <2>2, PushRequestType
  <2>5. QED
    BY <1>6, <2>3, <2>4 DEF GetCancel
<1>7. CASE GetRequestFails
  BY <1>2, <1>7, PushRequestType DEF GetRequestFails, CynaraStates
<1>8. CASE CynaraFinish
  BY <1>8 DEF CynaraFinish, CynaraStates
<1>9. QED
  BY <1>3, <1>4, <1>5, <1>6, <1>7, <1>8 DEF CynaraThread

\* So do those the notification thread writes.
LEMMA NotificationThreadType ==
  ASSUME TypeOK, NotificationThread
  PROVE  TypeOK'
<1> USE DEF TypeOK, InHandOK, TalkerUnchanged, queueVars, requestVars, uiVars, cynaraVars,
            TalkerStates
<1>1. CASE TalkerLock
  BY <1>1 DEF TalkerLock
<1>2. CASE TalkerUnlock
  BY <1>2 DEF TalkerUnlock
<1>3. CASE TalkerFail
  BY <1>3 DEF TalkerFail
<1>4. CASE TalkerStop
  BY <1>4 DEF TalkerStop
<1>5. ASSUME NEW id \in Ids, ReportError(id) PROVE TypeOK'
  <2>1. unreported' \in [Ids -> Nat]
    BY <1>5 DEF ReportError
  <2>2. QED
    BY <1>5, <2>1 DEF ReportError, NResponseType
<1>6. CASE ReportDone
  BY <1>6 DEF ReportDone
<1>7. CASE FindInstance
  BY <1>7 DEF FindInstance
<1>8. CASE NoInstance
  BY <1>8 DEF NoInstance, Resume
<1>9. CASE MissInstance
  BY <1>9 DEF MissInstance, Resume
<1>10. CASE TalkerThrow
  BY <1>10 DEF TalkerThrow
<1>11. ASSUME NEW id \in Ids, NEW response \in Answers, TakeAnswer(id, response) PROVE TypeOK'
  <2>1. uiQueue' \in [Ids -> Nat]
    BY <1>11 DEF TakeAnswer
  <2>2. QED
    BY <1>11, <2>1, AgentAssumption, ZenonT(30) DEF TakeAnswer
<1>12. CASE CallAgent
  <2>1. Request(UIResponseOf(answer.response), answer.id) \in Responses
    BY <1>12, UIResponseOfType, SMTT(30) DEF CallAgent, Request, Responses
  <2>2. m_incomingResponses' \in Seq(Responses)
    BY <1>12, <2>1 DEF CallAgent
  <2>3. QED
    BY <1>12, <2>2 DEF CallAgent, Resume, NotifyMain
<1>13. QED
  BY <1>1, <1>2, <1>3, <1>4, <1>5, <1>6, <1>7, <1>8, <1>9, <1>10, <1>11, <1>12
  DEF NotificationThread, TalkerProgress

\* A response sent to cynara, or lost, keeps the type of the history.
LEMMA SendResponseType ==
  ASSUME TypeOK, NEW type \in RequestType, NEW id \in Ids, NEW data \in AgentData,
         SendResponse(type, id, data)
  PROVE  sent' \in [Ids -> Seq([type : RequestType, data : AgentData])]
<1> DEFINE Sent == [type : RequestType, data : AgentData]
           new  == [type |-> type, data |-> data]
<1>1. sent \in [Ids -> Seq(Sent)] /\ new \in Sent
  BY DEF TypeOK
<1>2. CASE sent' = [sent EXCEPT ![id] = Append(@, new)]
  <2> HIDE DEF Sent, new
  <2>1. Append(sent[id], new) \in Seq(Sent)
    BY <1>1
  <2>2. sent' \in [Ids -> Seq(Sent)]
    BY <1>1, <1>2, <2>1
  <2>3. QED
    BY <2>2 DEF Sent
<1>3. QED
  BY <1>1, <1>2 DEF SendResponse

\* Every step of the main thread's loop leaves it with something of the right
\* type in hand.
LEMMA MainLoopType ==
  ASSUME TypeOK, MainLoop
  PROVE  TypeOK'
<1> USE DEF TypeOK, InHandOK, MainUnchanged, LoopUnchanged, RequestUnchanged, queueVars,
            requestVars, talkerVars, MainStates
<1>1. CASE Start
  BY <1>1 DEF Start, CynaraStates
<1>2. CASE Test
  BY <1>2 DEF Test
<1>3. CASE WakeNotified \/ WakeTimeout
  BY <1>3 DEF WakeNotified, WakeTimeout, Wake
<1>4. CASE PopRequest
  <2>1. cur' \in Requests /\ m_incomingRequests' \in Seq(Requests)
    BY <1>4 DEF PopRequest
  <2>2. QED
    BY <1>4, <2>1 DEF PopRequest
<1>5. CASE PopResponse
  <2>1. cur' \in Responses /\ m_incomingResponses' \in Seq(Responses)
    BY <1>5 DEF PopResponse
  <2>2. QED
    BY <1>5, <2>1 DEF PopResponse
<1>6. CASE NothingToPop
  BY <1>6 DEF NothingToPop
<1>7. CASE Relock
  BY <1>7 DEF Relock
<1>8. CASE Cleanup
  BY <1>8 DEF Cleanup
<1>9. CASE ProcessClose
  BY <1>9 DEF ProcessClose, Done
<1>10. CASE CancelKnown
  <2>1. cur \in [type : {"RT_Cancel"}, id : Ids]
    BY <1>10 DEF CancelKnown, Requests, Close, Request
  <2>2. sent' \in [Ids -> Seq([type : RequestType, data : AgentData])]
    BY <1>10, <2>1, SendResponseType DEF CancelKnown, RequestType, AgentData
  <2>3. QED
    BY <1>10, <2>1, <2>2 DEF CancelKnown, DismissUI, Done
<1>11. CASE DropRequest
  BY <1>11 DEF DropRequest, Done
<1>12. CASE StartUI
  <2>1. cur \in [type : {"RT_Action"}, id : Ids]
    BY <1>12 DEF StartUI, Requests, Close, Request
  <2>2. QED
    BY <1>12, <2>1 DEF StartUI, Done
<1>13. CASE InsertInstance
  BY <1>13 DEF InsertInstance
<1>14. CASE ProcessUIResponse
  <2>1. cur \in Responses /\ cur.id \in Ids /\ cur.type \in UIResponseType
    BY <1>14 DEF ProcessUIResponse, Responses
  <2>2. sent' \in [Ids -> Seq([type : RequestType, data : AgentData])]
    BY <1>14, <2>1, SendResponseType, ResponseDataType DEF ProcessUIResponse, RequestType
  <2>3. m_requests' \in SUBSET Ids
    BY <1>14 DEF ProcessUIResponse
  <2>4. QED
    BY <1>14, <2>1, <2>2, <2>3 DEF ProcessUIResponse, DismissUI, Done
<1>15. QED
  BY <1>1, <1>2, <1>3, <1>4, <1>5, <1>6, <1>7, <1>8, <1>9, <1>10, <1>11, <1>12, <1>13, <1>14
  DEF MainLoop

\* One more entry of an id.
LEMMA OneMore ==
  ASSUME NEW f \in [Ids -> Nat], NEW id \in Ids
  PROVE  [f EXCEPT ![id] = @ + 1] \in [Ids -> Nat]
OBVIOUS

\* What is left of the queues after a dismissal.
LEMMA DismissQueues ==
  ASSUME TypeOK, Dismiss
  PROVE  uiQueue' \in [Ids -> Nat] /\ unreported' \in [Ids -> Nat] /\ lost' \in SUBSET Ids
<1>1. cur.id \in Ids /\ lost \in SUBSET Ids /\ uiQueue \in [Ids -> Nat] /\ unreported \in [Ids -> Nat]
  BY DEF Dismiss, TypeOK, InHandOK, Responses
<1>2. PICK n \in 0 .. uiQueue[cur.id] : uiQueue' = [uiQueue EXCEPT ![cur.id] = n]
  BY DEF Dismiss
<1>3. n \in Nat
  BY <1>1
<1>4. unreported' \in [Ids -> 0 .. MaxAsk] \/ unreported' = unreported
  BY DEF Dismiss
<1>5. lost' \subseteq lost \cup Ids
  BY DEF Dismiss
<1>6. QED
  BY <1>1, <1>2, <1>3, <1>4, <1>5, AgentAssumption

\* A request that is submitted.
LEMMA SubmitType ==
  ASSUME TypeOK, Submit
  PROVE  TypeOK'
<1>1. /\ cur.id \in Ids /\ m_requests \in SUBSET Ids /\ m_UIs \in SUBSET Ids /\ lost \in SUBSET Ids
      /\ uiQueue \in [Ids -> Nat] /\ unreported \in [Ids -> Nat]
  BY DEF Submit, TypeOK, InHandOK
<1>2. /\ [uiQueue EXCEPT ![cur.id] = @ + 1] \in [Ids -> Nat]
      /\ [unreported EXCEPT ![cur.id] = @ + 1] \in [Ids -> Nat]
  BY <1>1, OneMore
<1>3. uiQueue' = [uiQueue EXCEPT ![cur.id] = @ + 1] \/ uiQueue' = uiQueue
  BY DEF Submit
<1>4. unreported' = [unreported EXCEPT ![cur.id] = @ + 1] \/ unreported' = unreported
  BY DEF Submit
<1>5. uiQueue' \in [Ids -> Nat] /\ unreported' \in [Ids -> Nat]
  BY <1>1, <1>2, <1>3, <1>4
<1>6. m_requests' \in SUBSET Ids /\ m_UIs' \in SUBSET Ids /\ lost' \in SUBSET Ids
  BY <1>1 DEF Submit
<1>7. /\ main' = "relock" /\ cur' = Nothing
      /\ UNCHANGED <<m_incomingRequests, m_incomingResponses, notified, m_idToInstance,
                     m_stopFlag, m_failed, cynara, talker, answer, asked, cancels, sent, decided>>
  BY DEF Submit, Done, RequestUnchanged, MainUnchanged, queueVars, talkerVars
<1>8. InHandOK'
  BY <1>7 DEF InHandOK
<1>9. main' \in MainStates
  BY <1>7 DEF MainStates
<1>10. QED
  BY <1>5, <1>6, <1>7, <1>8, <1>9 DEF TypeOK

\* So do the steps that wait for a lock of the notification thread, and the
\* end of the process.
LEMMA MainRestType ==
  ASSUME TypeOK, Unwind \/ Submit \/ Dismiss \/ DismissThrows \/ Destroy \/ Finish
  PROVE  TypeOK'
<1> USE DEF TypeOK, InHandOK, MainUnchanged, LoopUnchanged, RequestUnchanged, queueVars,
            requestVars, talkerVars, MainStates, Done
<1>1. CASE Unwind
  BY <1>1 DEF Unwind
<1>2. CASE Submit
  BY <1>2, SubmitType
<1>3. CASE Dismiss
  <2>1. cur.id \in Ids
    BY <1>3 DEF Dismiss, Responses
  <2>2. uiQueue' \in [Ids -> Nat] /\ unreported' \in [Ids -> Nat] /\ lost' \in SUBSET Ids
    BY <1>3, DismissQueues
  <2>3. QED
    BY <1>3, <2>2 DEF Dismiss
<1>4. CASE DismissThrows
  BY <1>4 DEF DismissThrows
<1>5. CASE Destroy
  BY <1>5 DEF Destroy
<1>6. CASE Finish
  <2>1. CASE FinishJoin
    BY <2>1 DEF FinishJoin
  <2>2. CASE FinishTimeout
    BY <2>2 DEF FinishTimeout
  <2>3. CASE FinishCleanup
    <3>1. m_incomingRequests' \in Seq(Requests) /\ m_requests' \in SUBSET Ids
      BY <2>3 DEF FinishCleanup
    <3>2. QED
      BY <2>3, <3>1 DEF FinishCleanup
  <2>4. CASE StopTalker
    BY <2>4 DEF StopTalker
  <2>5. QED
    BY <1>6, <2>1, <2>2, <2>3, <2>4 DEF Finish
<1>7. QED
  BY <1>1, <1>2, <1>3, <1>4, <1>5, <1>6

\* Every step of the three threads keeps the types: one lemma per thread above.
LEMMA TypeStep == TypeOK /\ [Next]_vars => TypeOK'
<1> SUFFICES ASSUME TypeOK, [Next]_vars PROVE TypeOK'
  OBVIOUS
<1>1. CASE MainThread
  BY <1>1, MainLoopType, MainRestType DEF MainThread
<1>2. CASE CynaraThread
  BY <1>2, CynaraThreadType
<1>3. CASE NotificationThread
  BY <1>3, NotificationThreadType
<1>4. CASE Terminate
  BY <1>4 DEF Terminate, TypeOK, InHandOK, LoopUnchanged, queueVars, cynaraVars, uiVars,
              talkerVars, requestVars
<1>5. CASE UNCHANGED vars
  BY <1>5, ZenonT(30) DEF TypeOK, InHandOK, vars, queueVars, cynaraVars, uiVars, talkerVars,
                          requestVars
<1>6. QED
  BY <1>1, <1>2, <1>3, <1>4, <1>5 DEF Next, Exited

\* The types hold when the process starts.
LEMMA TypeInit == Init => TypeOK
<1> SUFFICES ASSUME Init PROVE TypeOK
  OBVIOUS
<1>1. InHandOK
  BY DEF Init, InHandOK
<1>2. answer \in [id : Ids \cup {NoId}, response : NResponseType]
  BY DEF Init, NResponseType
<1>3. sent \in [Ids -> Seq([type : RequestType, data : AgentData])]
  BY DEF Init
<1>4. /\ m_incomingRequests \in Seq(Requests) /\ m_incomingResponses \in Seq(Responses)
      /\ asked \in [Ids -> Nat] /\ cancels \in [Ids -> Nat]
      /\ decided \in [Ids -> SUBSET NResponseType]
  BY DEF Init
<1>5. talker \in TalkerStates /\ talker \notin {"answering", "calling"}
  BY DEF Init, TalkerStates
<1>6. QED
  BY <1>1, <1>2, <1>3, <1>4, <1>5 DEF Init, TypeOK, MainStates, CynaraStates

\* Every variable of the three threads keeps its type, and what the main thread
\* and the notification thread have in hand is what their program counter says.
THEOREM TypeCorrect == Spec => []TypeOK
<1>1. Init => TypeOK
  BY TypeInit
<1>2. TypeOK /\ [Next]_vars => TypeOK'
  BY TypeStep
<1>3. QED
  BY <1>1, <1>2, PTL DEF Spec

-----------------------------------------------------------------------------
(* What each thread leaves alone.                                          *)

\* The main thread decides nothing and does not move the notification thread.
LEMMA MainThreadFrame ==
  ASSUME MainThread
  PROVE  UNCHANGED <<talker, answer, m_failed, decided, asked, cancels>>
BY DEF MainThread, MainLoop, Start, Test, WakeNotified, WakeTimeout, Wake, Relock, PopRequest,
       PopResponse, NothingToPop, Cleanup, ProcessClose, DropRequest, CancelKnown, StartUI,
       InsertInstance, ProcessUIResponse, Unwind, Submit, Dismiss, DismissThrows, Destroy,
       Finish, FinishJoin, FinishTimeout, FinishCleanup, StopTalker, MainUnchanged,
       RequestUnchanged, talkerVars

\* The cynara thread only fills the queue of requests.
LEMMA CynaraThreadFrame ==
  ASSUME CynaraThread
  PROVE  UNCHANGED <<m_requests, m_UIs, m_idToInstance, main, cur, talker, answer, decided,
                     sent, m_incomingResponses>>
BY DEF CynaraThread, CynaraInitialize, CynaraInitializeFails, GetAction, GetCancel,
       GetRequestFails, CynaraFinish, CynaraUnchanged, PushRequest, requestVars, uiVars,
       talkerVars, queueVars

\* The notification thread leaves the agent's maps to the main thread.
LEMMA NotificationThreadFrame ==
  ASSUME NotificationThread
  PROVE  UNCHANGED <<m_requests, m_UIs, m_idToInstance, main, cur, sent>>
BY DEF NotificationThread, TalkerProgress, TalkerLock, TalkerUnlock, TalkerFail, TalkerStop,
       ReportError, ReportDone, FindInstance, NoInstance, CallAgent, TakeAnswer, TalkerThrow,
       MissInstance, TalkerUnchanged, requestVars

\* A signal changes m_stopFlag only; a process that is gone, or idle, nothing.
LEMMA SignalFrame ==
  ASSUME Terminate \/ UNCHANGED vars
  PROVE  UNCHANGED <<m_requests, m_UIs, m_idToInstance, main, cur, talker, answer, decided,
                     sent, m_incomingResponses>>
BY DEF Terminate, LoopUnchanged, vars, requestVars, uiVars, talkerVars, queueVars

-----------------------------------------------------------------------------
(* The registry of backends and the target of a callback.                  *)

\* The threads that do not own the maps leave them alone.
LEMMA RegistryUntouched ==
  ASSUME Registry, UNCHANGED <<m_requests, m_UIs, m_idToInstance, main, cur>>
  PROVE  Registry'
BY DEF Registry

\* Popping, starting and inserting keep the maps in agreement.
LEMMA RegistryMainLoop ==
  ASSUME TypeOK, Registry, MainLoop
  PROVE  Registry'
<1> USE DEF Registry, MainUnchanged, LoopUnchanged, RequestUnchanged, requestVars, Done
<1>1. CASE Start \/ Test \/ WakeNotified \/ WakeTimeout \/ Relock
  BY <1>1 DEF Start, Test, WakeNotified, WakeTimeout, Wake, Relock
<1>2. CASE PopRequest \/ PopResponse \/ NothingToPop
  BY <1>2 DEF PopRequest, PopResponse, NothingToPop
<1>3. CASE Cleanup
  BY <1>3 DEF Cleanup, Dismissing
<1>4. CASE ProcessClose \/ DropRequest
  BY <1>4 DEF ProcessClose, DropRequest
<1>5. CASE CancelKnown
  BY <1>5 DEF CancelKnown, DismissUI
<1>6. CASE StartUI
  BY <1>6 DEF StartUI
<1>7. CASE InsertInstance
  BY <1>7 DEF InsertInstance
<1>8. CASE ProcessUIResponse
  <2>1. m_UIs = m_requests
    BY <1>8 DEF ProcessUIResponse
  <2>2. QED
    BY <1>8, <2>1 DEF ProcessUIResponse, DismissUI
<1>9. QED
  BY <1>1, <1>2, <1>3, <1>4, <1>5, <1>6, <1>7, <1>8 DEF MainLoop

\* So do the steps that take a lock of the notification thread, and the end.
LEMMA RegistryMainRest ==
  ASSUME TypeOK, Registry, Unwind \/ Submit \/ Dismiss \/ DismissThrows \/ Destroy \/ Finish
  PROVE  Registry'
<1> USE DEF Registry, MainUnchanged, LoopUnchanged, RequestUnchanged, requestVars, Done
<1>1. CASE Unwind
  BY <1>1 DEF Unwind
<1>2. CASE Submit
  BY <1>2 DEF Submit
<1>3. CASE Dismiss
  BY <1>3 DEF Dismiss
<1>4. CASE DismissThrows
  BY <1>4 DEF DismissThrows
<1>5. CASE Destroy
  BY <1>5 DEF Destroy
<1>6. CASE Finish
  BY <1>6 DEF Finish, FinishJoin, FinishTimeout, FinishCleanup, StopTalker, Dismissing
<1>7. QED
  BY <1>1, <1>2, <1>3, <1>4, <1>5, <1>6

\* Every step keeps the three maps in agreement.
LEMMA RegistryStep == TypeOK /\ Registry /\ [Next]_vars => Registry'
<1> SUFFICES ASSUME TypeOK, Registry, [Next]_vars PROVE Registry'
  OBVIOUS
<1>1. CASE MainThread
  BY <1>1, RegistryMainLoop, RegistryMainRest DEF MainThread
<1>2. CASE CynaraThread
  BY <1>2, CynaraThreadFrame, RegistryUntouched
<1>3. CASE NotificationThread
  BY <1>3, NotificationThreadFrame, RegistryUntouched
<1>4. CASE Terminate \/ UNCHANGED vars
  BY <1>4, SignalFrame, RegistryUntouched
<1>5. QED
  BY <1>1, <1>2, <1>3, <1>4 DEF Next, Exited

\* The main thread never takes the instance of a callback in progress out of
\* the static map.
LEMMA CallbackKeptByMain ==
  ASSUME CallbackTargetAlive, MainThread
  PROVE  talker' = "calling" => answer'.id \in m_idToInstance'
<1> USE DEF CallbackTargetAlive, MainUnchanged, LoopUnchanged, RequestUnchanged, talkerVars
<1>1. CASE Unwind
  BY <1>1 DEF Unwind, InstanceGuardHeld
<1>2. CASE Destroy
  BY <1>2 DEF Destroy, InstanceGuardHeld
<1>3. CASE Submit \/ Dismiss \/ DismissThrows
  BY <1>3 DEF Submit, Dismiss, DismissThrows
<1>4. CASE Finish
  BY <1>4 DEF Finish, FinishJoin, FinishTimeout, FinishCleanup, StopTalker
<1>5. CASE MainLoop
  BY <1>5 DEF MainLoop, Start, Test, WakeNotified, WakeTimeout, Wake, Relock, PopRequest,
              PopResponse, NothingToPop, Cleanup, Dismissing, ProcessClose, DropRequest,
              CancelKnown, StartUI, InsertInstance, ProcessUIResponse
<1>6. QED
  BY <1>1, <1>2, <1>3, <1>4, <1>5 DEF MainThread

\* A callback begins only with an instance that is registered.
LEMMA CallbackBegins ==
  ASSUME CallbackTargetAlive, NotificationThread
  PROVE  talker' = "calling" => answer'.id \in m_idToInstance'
<1> USE DEF CallbackTargetAlive, TalkerUnchanged, Resume
<1>1. CASE FindInstance
  BY <1>1 DEF FindInstance
<1>2. CASE ~FindInstance
  BY <1>2 DEF NotificationThread, TalkerProgress, TalkerLock, TalkerUnlock, TalkerFail,
              TalkerStop, ReportError, ReportDone, NoInstance, CallAgent, TakeAnswer,
              TalkerThrow, MissInstance
<1>3. QED
  BY <1>1, <1>2

\* No step frees an instance or ends the agent while a callback is running.
LEMMA CallbackStep ==
  Registry' /\ CallbackTargetAlive /\ [Next]_vars => CallbackTargetAlive'
<1> SUFFICES ASSUME Registry', CallbackTargetAlive, [Next]_vars PROVE CallbackTargetAlive'
  OBVIOUS
<1>1. talker' = "calling" => answer'.id \in m_idToInstance'
  <2>1. CASE MainThread
    BY <2>1, CallbackKeptByMain
  <2>2. CASE NotificationThread
    BY <2>2, CallbackBegins
  <2>3. CASE CynaraThread
    BY <2>3, CynaraThreadFrame DEF CallbackTargetAlive
  <2>4. CASE Terminate \/ UNCHANGED vars
    BY <2>4, SignalFrame DEF CallbackTargetAlive
  <2>5. QED
    BY <2>1, <2>2, <2>3, <2>4 DEF Next, Exited
<1>2. main' \in {"returned", "joining"} => m_idToInstance' = {}
  BY DEF Registry
<1>3. QED
  BY <1>1, <1>2 DEF CallbackTargetAlive

\* The three maps of the agent and its backends agree at every moment.
THEOREM MapsAgree == Spec => []Registry
<1>1. Init => Registry
  BY DEF Init, Registry
<1>2. TypeOK /\ Registry /\ [Next]_vars => Registry'
  BY RegistryStep
<1>3. QED
  BY <1>1, <1>2, TypeCorrect, PTL DEF Spec

\* The notification thread only ever calls an instance that exists, and never
\* an agent whose destructor has run: ~NotificationBackend waits for
\* m_instanceGuard, and Agent::finish returns only without backends.
THEOREM CallbackSafe == Spec => []CallbackTargetAlive
<1>1. Init => CallbackTargetAlive
  BY DEF Init, CallbackTargetAlive
<1>2. Registry' /\ CallbackTargetAlive /\ [Next]_vars => CallbackTargetAlive'
  BY CallbackStep
<1>3. QED
  BY <1>1, <1>2, MapsAgree, PTL DEF Spec

-----------------------------------------------------------------------------
(* Where the answers come from.                                            *)

\* Decisions are never forgotten.
LEMMA DecidedGrows ==
  ASSUME TypeOK, [Next]_vars
  PROVE  \A id \in Ids : decided[id] \subseteq decided'[id]
<1>1. CASE NotificationThread
  <2>1. CASE \E id \in Ids, response \in Answers : TakeAnswer(id, response)
    BY <2>1 DEF TakeAnswer, TypeOK
  <2>2. CASE \E id \in Ids : ReportError(id)
    BY <2>2 DEF ReportError, TypeOK
  <2>3. CASE UNCHANGED decided
    BY <2>3
  <2>4. QED
    BY <1>1, <2>1, <2>2, <2>3
    DEF NotificationThread, TalkerProgress, TalkerLock, TalkerUnlock, TalkerFail, TalkerStop,
        ReportDone, FindInstance, NoInstance, CallAgent, TalkerThrow, MissInstance, uiVars
<1>2. CASE MainThread
  BY <1>2, MainThreadFrame
<1>3. CASE CynaraThread
  BY <1>3, CynaraThreadFrame
<1>4. CASE Terminate \/ UNCHANGED vars
  BY <1>4, SignalFrame
<1>5. QED
  BY <1>1, <1>2, <1>3, <1>4 DEF Next, Exited

\* What the notification thread has in hand was decided for its request.
LEMMA AnswerProvenance ==
  ASSUME TypeOK, Provenance, [Next]_vars
  PROVE  talker' \in {"answering", "calling"} => answer'.response \in decided'[answer'.id]
<1>1. CASE NotificationThread
  <2>1. ASSUME NEW id \in Ids, NEW response \in Answers, TakeAnswer(id, response)
        PROVE  answer'.response \in decided'[answer'.id]
    BY <2>1 DEF TakeAnswer, TypeOK
  <2>2. ASSUME NEW id \in Ids, ReportError(id)
        PROVE  answer'.response \in decided'[answer'.id]
    BY <2>2 DEF ReportError, TypeOK
  <2>3. CASE TalkerLock \/ TalkerUnlock \/ TalkerFail \/ TalkerStop \/ ReportDone \/ TalkerThrow
             \/ NoInstance \/ MissInstance \/ CallAgent
    BY <2>3 DEF TalkerLock, TalkerUnlock, TalkerFail, TalkerStop, ReportDone, TalkerThrow,
                NoInstance, MissInstance, CallAgent, Resume
  <2>4. CASE FindInstance
    BY <2>4 DEF FindInstance, Provenance, uiVars
  <2>5. QED
    BY <1>1, <2>1, <2>2, <2>3, <2>4 DEF NotificationThread, TalkerProgress
<1>2. CASE ~NotificationThread
  <2>1. UNCHANGED <<talker, answer>>
    BY <1>2, MainThreadFrame, CynaraThreadFrame, SignalFrame DEF Next, Exited
  <2>2. talker \in {"answering", "calling"} => answer.id \in Ids
    BY DEF TypeOK
  <2>3. QED
    BY <2>1, <2>2, DecidedGrows DEF Provenance
<1>3. QED
  BY <1>1, <1>2

\* A response stays decided for its id while the set of decisions grows.
LEMMA DecidedStays ==
  ASSUME TypeOK, [Next]_vars
  PROVE  \A response \in Responses :
           DecidedIn(decided, response) => DecidedIn(decided', response)
<1>1. \A response \in Responses : response.id \in Ids
  BY DEF Responses
<1>2. QED
  BY <1>1, DecidedGrows DEF DecidedIn

\* CallAgent queues the conversion of the decision in hand, for its id.
LEMMA CalledResponseDecided ==
  ASSUME TypeOK, Provenance, CallAgent
  PROVE  LET response == Request(UIResponseOf(answer.response), answer.id)
         IN  response \in Responses /\ DecidedIn(decided, response)
<1>1. answer.response \in NResponseType /\ answer.id \in Ids
  BY DEF CallAgent, TypeOK
<1>2. answer.response \in decided[answer.id]
  BY DEF CallAgent, Provenance
<1>3. QED
  BY <1>1, <1>2, UIResponseOfType DEF Request, Responses, DecidedIn

\* Every response in the agent's queue is decided; a step removes the first one,
\* adds one that is decided, or leaves the queue alone.
LEMMA QueueProvenance ==
  ASSUME TypeOK, Provenance, [Next]_vars
  PROVE  \A n \in 1 .. Len(m_incomingResponses') : DecidedIn(decided', m_incomingResponses'[n])
<1> DEFINE q == m_incomingResponses
<1>1. q \in Seq(Responses) /\ \A n \in 1 .. Len(q) : q[n] \in Responses /\ DecidedIn(decided, q[n])
  BY DEF TypeOK, Provenance
<1>2. CASE UNCHANGED q
  BY <1>1, <1>2, DecidedStays
<1>3. CASE PopResponse
  <2>1. q # <<>> /\ q' = Tail(q)
    BY <1>3 DEF PopResponse
  <2>2. \A n \in 1 .. Len(q') : n + 1 \in 1 .. Len(q) /\ q'[n] = q[n + 1]
    BY <1>1, <2>1
  <2>3. QED
    BY <1>1, <2>2, DecidedStays
<1>4. CASE CallAgent
  <2> DEFINE r == Request(UIResponseOf(answer.response), answer.id)
  <2>1. r \in Responses /\ DecidedIn(decided, r)
    BY <1>4, CalledResponseDecided
  <2>2. q' = Append(q, r)
    BY <1>4 DEF CallAgent
  <2> HIDE DEF r
  <2>3. \A n \in 1 .. Len(q') : q'[n] \in Responses /\ DecidedIn(decided, q'[n])
    BY <1>1, <2>1, <2>2
  <2>4. QED
    BY <2>3, DecidedStays
<1>5. PopResponse \/ CallAgent \/ UNCHANGED q
  <2>1. CASE MainThread
    BY <2>1 DEF MainThread, MainLoop, Start, Test, WakeNotified, WakeTimeout, Wake, Relock,
                PopRequest, NothingToPop, Cleanup, ProcessClose, DropRequest, CancelKnown,
                StartUI, InsertInstance, ProcessUIResponse, Unwind, Submit, Dismiss,
                DismissThrows, Destroy, Finish, FinishJoin, FinishTimeout, FinishCleanup,
                StopTalker, RequestUnchanged, queueVars
  <2>2. CASE NotificationThread
    BY <2>2 DEF NotificationThread, TalkerProgress, TalkerLock, TalkerUnlock, TalkerFail,
                TalkerStop, ReportError, ReportDone, FindInstance, NoInstance, TakeAnswer,
                TalkerThrow, MissInstance, queueVars
  <2>3. QED
    BY <2>1, <2>2, CynaraThreadFrame, SignalFrame DEF Next, Exited
<1>6. QED
  BY <1>2, <1>3, <1>4, <1>5

\* The response the main thread takes out of the queue is decided.
LEMMA HandProvenance ==
  ASSUME TypeOK, Provenance, [Next]_vars
  PROVE  main' = "response" => DecidedIn(decided', cur')
<1>1. CASE PopResponse
  <2>1. cur' = m_incomingResponses[1] /\ 1 \in 1 .. Len(m_incomingResponses)
    BY <1>1 DEF PopResponse, TypeOK
  <2>2. cur' \in Responses /\ DecidedIn(decided, cur')
    BY <2>1 DEF TypeOK, Provenance
  <2>3. QED
    BY <2>2, DecidedStays
<1>2. CASE UNCHANGED <<main, cur>>
  BY <1>2, DecidedStays DEF Provenance, TypeOK, InHandOK
<1>3. CASE MainThread /\ ~PopResponse
  <2>1. main' # "response"
    BY <1>3 DEF MainThread, MainLoop, Start, Test, WakeNotified, WakeTimeout, Wake, Relock,
                PopRequest, NothingToPop, Cleanup, ProcessClose, DropRequest, CancelKnown,
                StartUI, InsertInstance, ProcessUIResponse, DismissUI, Done, Unwind, Submit,
                Dismiss, DismissThrows, Destroy, Finish, FinishJoin, FinishTimeout,
                FinishCleanup, StopTalker
  <2>2. QED
    BY <2>1
<1>4. QED
  BY <1>1, <1>2, <1>3, CynaraThreadFrame, NotificationThreadFrame, SignalFrame DEF Next, Exited

\* Every step keeps the responses between the threads backed by decisions.
LEMMA ProvenanceStep == TypeOK /\ Provenance /\ [Next]_vars => Provenance'
<1> SUFFICES ASSUME TypeOK, Provenance, [Next]_vars PROVE Provenance'
  OBVIOUS
<1>1. QED
  BY AnswerProvenance, QueueProvenance, HandProvenance DEF Provenance

\* What the agent sends for a decided response is what the decision means.
LEMMA DecidedMeaning ==
  ASSUME TypeOK, NEW response \in Responses, DecidedIn(decided, response)
  PROVE  \E r \in decided[response.id] : ResponseData(response.type) = Contract!Meaning(r)
<1>1. response.id \in Ids /\ decided[response.id] \subseteq NResponseType
  BY DEF TypeOK, Responses
<1>2. PICK r \in decided[response.id] : response.type = UIResponseOf(r)
  BY DEF DecidedIn
<1>3. QED
  BY <1>1, <1>2, ConversionIsMeaning

\* Only the confirmation of a cancel and the answer to an open request reach cynara.
LEMMA SentOnlyTwice ==
  ASSUME [Next]_vars
  PROVE  CancelKnown \/ ProcessUIResponse \/ UNCHANGED sent
<1>1. CASE MainThread
  BY <1>1 DEF MainThread, MainLoop, Start, Test, WakeNotified, WakeTimeout, Wake, Relock,
              PopRequest, PopResponse, NothingToPop, Cleanup, ProcessClose, DropRequest,
              StartUI, InsertInstance, Unwind, Submit, Dismiss, DismissThrows, Destroy,
              Finish, FinishJoin, FinishTimeout, FinishCleanup, StopTalker, LoopUnchanged
<1>2. QED
  BY <1>1, CynaraThreadFrame, NotificationThreadFrame, SignalFrame DEF Next, Exited

\* Every step that sends an answer sends the meaning of a decision for its id.
LEMMA AnswersStep ==
  TypeOK /\ Provenance /\ AnswersAreTheUsers /\ [Next]_vars => AnswersAreTheUsers'
<1> SUFFICES ASSUME TypeOK, Provenance, AnswersAreTheUsers, [Next]_vars
             PROVE  AnswersAreTheUsers'
  OBVIOUS
<1> DEFINE Meant(answered, decisions) ==
      answered.type = "RT_Action" => \E r \in decisions : answered.data = Contract!Meaning(r)
<1>1. sent \in [Ids -> Seq([type : RequestType, data : AgentData])]
  BY DEF TypeOK
<1>2. \A id \in Ids : \A n \in 1 .. Len(sent[id]) : Meant(sent[id][n], decided[id])
  BY DEF AnswersAreTheUsers
<1>3. \A id \in Ids : \A n \in 1 .. Len(sent[id]) : Meant(sent[id][n], decided'[id])
  BY <1>2, DecidedGrows
<1>4. SUFFICES \A id \in Ids : \A n \in 1 .. Len(sent'[id]) : Meant(sent'[id][n], decided'[id])
  BY DEF AnswersAreTheUsers
<1>5. CASE UNCHANGED sent
  BY <1>3, <1>5
<1>6. ASSUME NEW type, NEW data, SendResponse(type, cur.id, data), cur.id \in Ids,
             Meant([type |-> type, data |-> data], decided'[cur.id])
      PROVE  \A id \in Ids : \A n \in 1 .. Len(sent'[id]) : Meant(sent'[id][n], decided'[id])
  <2> DEFINE new == [type |-> type, data |-> data]
  <2>1. CASE sent' = [sent EXCEPT ![cur.id] = Append(@, new)]
    <3> HIDE DEF Meant, new
    <3>1. \A n \in 1 .. Len(sent'[cur.id]) :
            \/ n \in 1 .. Len(sent[cur.id]) /\ sent'[cur.id][n] = sent[cur.id][n]
            \/ sent'[cur.id][n] = new
      BY <1>1, <1>6, <2>1
    <3>2. \A n \in 1 .. Len(sent'[cur.id]) : Meant(sent'[cur.id][n], decided'[cur.id])
      BY <1>3, <1>6, <3>1 DEF new
    <3>3. \A id \in Ids \ {cur.id} : sent'[id] = sent[id]
      BY <1>1, <2>1
    <3>4. QED
      BY <1>3, <3>2, <3>3
  <2>2. QED
    BY <1>3, <1>6, <2>1 DEF SendResponse
<1>7. CASE CancelKnown
  <2>1. SendResponse("RT_Cancel", cur.id, Text(NoError)) /\ cur.id \in Ids
    BY <1>7 DEF CancelKnown, TypeOK
  <2>2. QED
    BY <1>6, <2>1
<1>8. CASE ProcessUIResponse
  <2>1. cur \in Responses /\ cur.id \in Ids /\ DecidedIn(decided, cur)
    BY <1>8 DEF ProcessUIResponse, TypeOK, InHandOK, Provenance, Responses
  <2>2. \E r \in decided'[cur.id] : ResponseData(cur.type) = Contract!Meaning(r)
    BY <2>1, DecidedMeaning, DecidedGrows
  <2>3. SendResponse("RT_Action", cur.id, ResponseData(cur.type)) \/ UNCHANGED sent
    BY <1>8 DEF ProcessUIResponse
  <2>4. QED
    BY <1>5, <1>6, <2>1, <2>2, <2>3
<1>9. QED
  BY <1>5, <1>7, <1>8, SentOnlyTwice

\* Every response between the threads is backed by a decision throughout.
LEMMA ProvenanceInvariant == Spec => []Provenance
<1>1. Init => Provenance
  BY DEF Init, Provenance
<1>2. TypeOK /\ Provenance /\ [Next]_vars => Provenance'
  BY ProvenanceStep
<1>3. QED
  BY <1>1, <1>2, TypeCorrect, PTL DEF Spec

\* Whatever is cancelled, repeated or lost in between, an answer to an action
\* request says what was decided for that very request id.
THEOREM AnswersFaithful == Spec => []AnswersAreTheUsers
<1>1. Init => AnswersAreTheUsers
  BY DEF Init, AnswersAreTheUsers
<1>2. TypeOK /\ Provenance /\ AnswersAreTheUsers /\ [Next]_vars => AnswersAreTheUsers'
  BY AnswersStep
<1>3. QED
  BY <1>1, <1>2, TypeCorrect, ProvenanceInvariant, PTL DEF Spec

\* What the service plugin reads out of the meaning of a decision.
LEMMA MeaningRead ==
  ASSUME NEW r \in NResponseType
  PROVE  \E type \in PolicyType :
           /\ dataToAnswer(Contract!Meaning(r)) = {type}
           /\ type \in {ALLOW_ONCE, ALLOW_PER_SESSION, ALLOW_PER_LIFE, PREDEFINED_ALLOW} =>
                r = "Allow"
           /\ type = DENY_PER_LIFE => r = "Never"
<1> DEFINE Read(type) == dataToAnswer(Contract!Meaning(r)) = {type}
<1> USE DEF ALLOW_ONCE, ALLOW_PER_SESSION, ALLOW_PER_LIFE, DENY_ONCE, DENY_PER_LIFE,
            PREDEFINED_ALLOW, PREDEFINED_DENY
<1>1. \A type \in 0 .. 16 : type \in PolicyType
  BY DEF PolicyType, MaxPolicyType
<1>2. ASSUME NEW text \in {ErrorMsg, TimeoutMsg}, Contract!Meaning(r) = Text(text)
      PROVE  Read(0)
  <2>1. IsText(Text(text)) /\ Text(text).text = text
    BY DEF Text, IsText
  <2>2. QED
    BY <1>2, <2>1 DEF dataToAnswer
<1>3. ASSUME NEW type \in 0 .. 16, Contract!Meaning(r) = Number(type)
      PROVE  Read(type)
  <2>1. type % 65536 = type
    OBVIOUS
  <2>2. ~IsText(Number(type)) /\ Number(type).number = type
    BY DEF Number, IsText
  <2>3. QED
    BY <1>3, <2>1, <2>2 DEF dataToAnswer, MaxPolicyType
<1>4. CASE r = "Error"
  <2>1. Contract!Meaning(r) = Text(ErrorMsg)
    BY <1>4 DEF Contract!Meaning, Contract!Text, Contract!ErrorMsg, Text, ErrorMsg
  <2>2. Read(0)
    BY <1>2, <2>1
  <2>3. QED
    BY <1>1, <2>2
<1>5. CASE r = "None"
  <2>1. Contract!Meaning(r) = Text(TimeoutMsg)
    BY <1>5 DEF Contract!Meaning, Contract!Text, Contract!TimeoutMsg, Text, TimeoutMsg
  <2>2. Read(0)
    BY <1>2, <2>1
  <2>3. QED
    BY <1>1, <2>2
<1>6. CASE r = "Allow"
  <2>1. Contract!Meaning(r) = Number(13)
    BY <1>6 DEF Contract!Meaning, Contract!Number, Contract!ALLOW_PER_LIFE, Number
  <2>2. Read(13)
    BY <1>3, <2>1
  <2>3. QED
    BY <1>1, <1>6, <2>2
<1>7. CASE r = "Deny"
  <2>1. Contract!Meaning(r) = Number(14)
    BY <1>7 DEF Contract!Meaning, Contract!Number, Contract!DENY_ONCE, Number
  <2>2. Read(14)
    BY <1>3, <2>1
  <2>3. QED
    BY <1>1, <2>2
<1>8. CASE r = "Never"
  <2>1. Contract!Meaning(r) = Number(16)
    BY <1>8 DEF Contract!Meaning, Contract!Number, Contract!DENY_PER_LIFE, Number
  <2>2. Read(16)
    BY <1>3, <2>1
  <2>3. QED
    BY <1>1, <1>8, <2>2
<1>9. QED
  BY <1>4, <1>5, <1>6, <1>7, <1>8 DEF NResponseType

\* From the popup through both translations to the policy type in the service: access
\* is allowed, or denied for life, only when the user has decided so for this id, and
\* no answer of the agent is one the plugin cannot read.
THEOREM ConsentCorrect == Spec => []GrantsFollowConsent
<1>1. TypeOK /\ AnswersAreTheUsers => GrantsFollowConsent
  <2>1. SUFFICES ASSUME TypeOK, AnswersAreTheUsers,
                        NEW id \in Ids, NEW n \in 1 .. Len(sent[id]),
                        sent[id][n].type = "RT_Action"
        PROVE  \E type \in PolicyType :
                 /\ dataToAnswer(sent[id][n].data) = {type}
                 /\ type \in {ALLOW_ONCE, ALLOW_PER_SESSION, ALLOW_PER_LIFE, PREDEFINED_ALLOW} =>
                      "Allow" \in decided[id]
                 /\ type = DENY_PER_LIFE => "Never" \in decided[id]
    BY DEF GrantsFollowConsent
  <2>2. PICK r \in decided[id] : sent[id][n].data = Contract!Meaning(r)
    BY <2>1 DEF AnswersAreTheUsers
  <2>3. r \in NResponseType
    BY <2>1 DEF TypeOK
  <2>4. QED
    BY <2>2, <2>3, MeaningRead
<1>2. QED
  BY <1>1, TypeCorrect, AnswersFaithful, PTL

-----------------------------------------------------------------------------
(* The agent implements its contract.                                      *)

\* Every step of the agent is a step of the contract, or one it does not see.
LEMMA ContractStep ==
  ASSUME TypeOK, Registry, Provenance, [Next]_vars
  PROVE  [Contract!ContractNext]_(Contract!contractVars)
<1> USE DEF Contract!ContractNext, Contract!contractVars
<1>1. CASE UNCHANGED <<m_requests, decided, sent>>
  BY <1>1
<1>2. CASE CancelKnown
  <2>1. cur.id \in Ids /\ UNCHANGED decided
    BY <1>2 DEF CancelKnown, TypeOK, RequestUnchanged, MainUnchanged
  <2>2. Contract!Reply(cur.id, "RT_Cancel", Text(NoError))
    BY <1>2, <2>1 DEF CancelKnown, SendResponse, Contract!Reply
  <2>3. Contract!ReplyCancelled(cur.id)
    BY <2>2 DEF Contract!ReplyCancelled, Text, NoError, Contract!Text, Contract!NoError
  <2>4. QED
    BY <2>1, <2>3
<1>3. CASE ProcessUIResponse
  <2>1. cur \in Responses /\ cur.id \in Ids /\ DecidedIn(decided, cur) /\ UNCHANGED decided
    BY <1>3 DEF ProcessUIResponse, TypeOK, InHandOK, Provenance, Responses, RequestUnchanged,
                MainUnchanged
  <2>2. PICK r \in decided[cur.id] : ResponseData(cur.type) = Contract!Meaning(r)
    BY <2>1, DecidedMeaning
  <2>3. CASE cur.id \in m_requests
    <3>1. Contract!Reply(cur.id, "RT_Action", Contract!Meaning(r))
      BY <1>3, <2>1, <2>2, <2>3 DEF ProcessUIResponse, SendResponse, Contract!Reply
    <3>2. Contract!ReplyAnswer(cur.id)
      BY <3>1 DEF Contract!ReplyAnswer
    <3>3. QED
      BY <2>1, <3>2
  <2>4. CASE cur.id \notin m_requests
    BY <1>1, <1>3, <2>1, <2>4 DEF ProcessUIResponse
  <2>5. QED
    BY <2>3, <2>4
<1>4. CASE Submit
  <2>1. cur.id \in Ids /\ cur.id \notin m_requests
    BY <1>4 DEF Submit, TypeOK, InHandOK, Registry
  <2>2. Contract!Accept(cur.id)
    BY <1>4, <2>1 DEF Submit, RequestUnchanged, MainUnchanged, Contract!Accept
  <2>3. QED
    BY <2>1, <2>2
<1>5. CASE FinishCleanup
  BY <1>5 DEF FinishCleanup, MainUnchanged, Contract!Shutdown
<1>6. ASSUME NEW id \in Ids, NEW response \in NResponseType, UNCHANGED <<m_requests, sent>>,
             decided' = [decided EXCEPT ![id] = @ \cup {response}]
      PROVE  [Contract!ContractNext]_(Contract!contractVars)
  <2>1. Contract!Decide(id, response)
    BY <1>6 DEF Contract!Decide
  <2>2. response \in Contract!NResponseType
    BY DEF NResponseType, Contract!NResponseType
  <2>3. QED
    BY <2>1, <2>2
<1>7. CASE NotificationThread
  <2>1. CASE \E id \in Ids, response \in Answers : TakeAnswer(id, response)
    BY <1>6, <1>7, <2>1, AgentAssumption, NotificationThreadFrame DEF TakeAnswer
  <2>2. CASE \E id \in Ids : ReportError(id)
    BY <1>6, <1>7, <2>2, NotificationThreadFrame DEF ReportError, NResponseType
  <2>3. CASE UNCHANGED decided
    BY <1>1, <1>7, <2>3, NotificationThreadFrame
  <2>4. QED
    BY <1>7, <2>1, <2>2, <2>3
    DEF NotificationThread, TalkerProgress, TalkerLock, TalkerUnlock, TalkerFail, TalkerStop,
        ReportDone, FindInstance, NoInstance, CallAgent, TalkerThrow, MissInstance, uiVars
<1>8. CASE MainThread /\ ~(CancelKnown \/ ProcessUIResponse \/ Submit \/ FinishCleanup)
  <2>1. UNCHANGED <<m_requests, sent>>
    BY <1>8 DEF MainThread, MainLoop, Start, Test, WakeNotified, WakeTimeout, Wake, Relock,
                PopRequest, PopResponse, NothingToPop, Cleanup, ProcessClose, DropRequest,
                StartUI, InsertInstance, Unwind, Dismiss, DismissThrows, Destroy, Finish,
                FinishJoin, FinishTimeout, StopTalker, LoopUnchanged, requestVars
  <2>2. QED
    BY <1>1, <1>8, <2>1, MainThreadFrame
<1>9. QED
  BY <1>1, <1>2, <1>3, <1>4, <1>5, <1>7, <1>8, CynaraThreadFrame, SignalFrame DEF Next, Exited

\* The three threads together implement AgentContract: a request is open from the
\* moment its popup is submitted to the one step that answers it.
THEOREM AgentImplementsContract == Spec => ImplementsContract
<1>1. Init => Contract!ContractInit
  BY DEF Init, Contract!ContractInit
<1>2. TypeOK /\ Registry /\ Provenance /\ [Next]_vars
        => [Contract!ContractNext]_(Contract!contractVars)
  BY ContractStep
<1>3. QED
  BY <1>1, <1>2, TypeCorrect, MapsAgree, ProvenanceInvariant, PTL
  DEF Spec, ImplementsContract, Contract!ContractSpec

-----------------------------------------------------------------------------
(* The notification thread as a service, and what it may not forget.       *)

\* The thread is in its loop only before it has failed, and reports only after.
TalkerPhase ==
  /\ talker \in {"unlocked", "locked", "throwing"} => ~m_failed
  /\ talker = "reporting" => m_failed

LEMMA TalkerPhaseStep == TalkerPhase /\ [Next]_vars => TalkerPhase'
<1> SUFFICES ASSUME TalkerPhase, [Next]_vars PROVE TalkerPhase'
  OBVIOUS
<1>1. CASE UNCHANGED <<talker, m_failed>>
  BY <1>1 DEF TalkerPhase
<1>2. CASE NotificationThread
  BY <1>2 DEF TalkerPhase, NotificationThread, TalkerProgress, TalkerLock, TalkerUnlock,
              TalkerFail, TalkerStop, ReportError, ReportDone, FindInstance, NoInstance,
              CallAgent, TakeAnswer, TalkerThrow, MissInstance, Resume, uiVars
<1>3. CASE CynaraThread
  BY <1>1, <1>3 DEF CynaraThread, CynaraInitialize, CynaraInitializeFails, GetAction,
                    GetCancel, GetRequestFails, CynaraFinish, CynaraUnchanged, uiVars, talkerVars
<1>4. CASE MainThread
  BY <1>1, <1>4, MainThreadFrame
<1>5. CASE Terminate \/ UNCHANGED vars
  BY <1>1, <1>5 DEF Terminate, vars, uiVars, talkerVars
<1>6. QED
  BY <1>2, <1>3, <1>4, <1>5 DEF Next, Exited

LEMMA TalkerPhaseInvariant == Spec => []TalkerPhase
<1>1. Init => TalkerPhase
  BY DEF Init, TalkerPhase
<1>2. QED
  BY <1>1, TalkerPhaseStep, PTL DEF Spec

\* What of an id is left to the notification thread.
Left(id) == IF m_failed THEN unreported[id] ELSE uiQueue[id]
PendingIds == {id \in Ids : Left(id) > 0}

\* Of the main thread's steps only these reach the thread's queues.
LEMMA MainLeavesService ==
  ASSUME MainThread, ~Submit, ~Dismiss
  PROVE  UNCHANGED <<m_failed, uiQueue, unreported, decided, lost>>
BY DEF MainThread, MainLoop, Start, Test, WakeNotified, WakeTimeout, Wake, Relock, PopRequest,
       PopResponse, NothingToPop, Cleanup, ProcessClose, DropRequest, CancelKnown, StartUI,
       InsertInstance, ProcessUIResponse, Unwind, DismissThrows, Destroy, Finish,
       FinishJoin, FinishTimeout, FinishCleanup, StopTalker, MainUnchanged, LoopUnchanged,
       RequestUnchanged

LEMMA CynaraLeavesService ==
  ASSUME CynaraThread \/ Terminate \/ UNCHANGED vars
  PROVE  UNCHANGED <<m_failed, uiQueue, unreported, decided, lost>>
BY DEF CynaraThread, CynaraInitialize, CynaraInitializeFails, GetAction, GetCancel,
       GetRequestFails, CynaraFinish, CynaraUnchanged, Terminate, LoopUnchanged, vars, uiVars

\* A submitted request is left to the thread, or lost to one that has failed.
LEMMA SubmitLeft ==
  ASSUME TypeOK, Submit
  PROVE  /\ cur.id \in Ids
         /\ PendingIds' = PendingIds \cup {cur.id}
              \/ (m_failed /\ PendingIds' = PendingIds /\ lost' = lost \cup {cur.id})
         /\ UNCHANGED <<m_failed, decided>>
<1>1. cur.id \in Ids /\ uiQueue \in [Ids -> Nat] /\ unreported \in [Ids -> Nat]
  BY DEF Submit, TypeOK, InHandOK
<1>2. UNCHANGED <<m_failed, decided>>
  BY DEF Submit, RequestUnchanged, MainUnchanged
<1>3. CASE ~m_failed
  <2>1. uiQueue' = [uiQueue EXCEPT ![cur.id] = @ + 1]
          \/ (uiQueue[cur.id] > 0 /\ uiQueue' = uiQueue)
    BY DEF Submit
  <2>2. PendingIds' = PendingIds \cup {cur.id}
    BY <1>1, <1>2, <1>3, <2>1 DEF PendingIds, Left
  <2>3. QED
    BY <1>1, <1>2, <2>2
<1>4. CASE m_failed /\ unreported' = [unreported EXCEPT ![cur.id] = @ + 1]
  <2>1. PendingIds' = PendingIds \cup {cur.id}
    BY <1>1, <1>2, <1>4 DEF PendingIds, Left
  <2>2. QED
    BY <1>1, <1>2, <2>1
<1>5. CASE m_failed /\ unreported' = unreported /\ lost' = lost \cup {cur.id}
  BY <1>1, <1>2, <1>5 DEF PendingIds, Left
<1>6. QED
  BY <1>3, <1>4, <1>5 DEF Submit, Reporting

\* What a dismissal takes from the thread is the request in hand, or lost.
LEMMA DismissLeft ==
  ASSUME TypeOK, Dismiss
  PROVE  /\ cur.id \in Ids
         /\ PendingIds' \subseteq PendingIds
         /\ PendingIds \ {cur.id} \subseteq PendingIds' \cup lost'
         /\ ~m_failed => PendingIds' \in {PendingIds, PendingIds \ {cur.id}}
         /\ UNCHANGED <<m_failed, decided>>
         /\ lost \subseteq lost'
<1>1. cur.id \in Ids /\ uiQueue \in [Ids -> Nat] /\ unreported \in [Ids -> Nat]
  BY DEF Dismiss, TypeOK, InHandOK, Responses
<1>2. UNCHANGED <<m_failed, decided>> /\ lost \subseteq lost'
  BY DEF Dismiss, RequestUnchanged, MainUnchanged
<1>3. CASE ~m_failed
  <2>1. PICK n \in 0 .. uiQueue[cur.id] : uiQueue' = [uiQueue EXCEPT ![cur.id] = n]
    BY DEF Dismiss
  <2>2. PendingIds' = IF n > 0 THEN PendingIds ELSE PendingIds \ {cur.id}
    BY <1>1, <1>2, <1>3, <2>1 DEF PendingIds, Left
  <2>3. QED
    BY <1>1, <1>2, <2>2
<1>4. CASE m_failed
  <2>1. /\ \A id \in Ids : unreported'[id] <= unreported[id] /\ unreported'[id] \in Nat
        /\ lost' = lost \cup {id \in Ids : unreported'[id] < unreported[id]}
    BY <1>1, AgentAssumption DEF Dismiss
  <2>2. PendingIds = {id \in Ids : unreported[id] > 0}
    BY <1>4 DEF PendingIds, Left
  <2>3. PendingIds' = {id \in Ids : unreported'[id] > 0}
    BY <1>2, <1>4 DEF PendingIds, Left
  <2>4. PendingIds' \subseteq PendingIds
    BY <1>1, <2>1, <2>2, <2>3
  <2>5. PendingIds \subseteq PendingIds' \cup lost'
    BY <1>1, <2>1, <2>2, <2>3
  <2>6. QED
    BY <1>1, <1>2, <1>4, <2>4, <2>5
<1>5. QED
  BY <1>3, <1>4

\* An answer that is taken is one the service gives.
LEMMA TakeAnswerIsAnswer ==
  ASSUME TypeOK, TalkerPhase, NEW id \in Ids, NEW response \in Answers,
         TakeAnswer(id, response)
  PROVE  Service!Answer(id, response) /\ response \in Service!NResponseType
<1>1. ~m_failed /\ m_failed' = m_failed
  BY DEF TakeAnswer, TalkerPhase
<1>2. uiQueue \in [Ids -> Nat] /\ uiQueue[id] > 0 /\ uiQueue' = [uiQueue EXCEPT ![id] = @ - 1]
  BY DEF TakeAnswer, TypeOK
<1>3. PendingIds' \in {PendingIds, PendingIds \ {id}} /\ id \in PendingIds
  BY <1>1, <1>2 DEF PendingIds, Left
<1>4. decided' = [decided EXCEPT ![id] = @ \cup {response}] /\ DOMAIN decided = Ids
  BY DEF TakeAnswer, TypeOK
<1>5. response \in Service!NResponseType
  BY AgentAssumption DEF NResponseType, Service!NResponseType
<1>6. Service!Given({id}, response)
  BY <1>4 DEF Service!Given
<1>7. QED
  BY <1>1, <1>3, <1>5, <1>6 DEF Service!Answer, PendingIds, Left

\* So is an error that is reported.
LEMMA ReportErrorIsReport ==
  ASSUME TypeOK, TalkerPhase, NEW id \in Ids, ReportError(id)
  PROVE  Service!Report(id)
<1>1. m_failed /\ m_failed' = m_failed
  BY DEF ReportError, TalkerPhase
<1>2. unreported \in [Ids -> Nat] /\ unreported[id] > 0
        /\ unreported' = [unreported EXCEPT ![id] = @ - 1]
  BY DEF ReportError, TypeOK
<1>3. PendingIds' \in {PendingIds, PendingIds \ {id}} /\ id \in PendingIds
  BY <1>1, <1>2 DEF PendingIds, Left
<1>4. decided' = [decided EXCEPT ![id] = @ \cup {"Error"}] /\ DOMAIN decided = Ids
  BY DEF ReportError, TypeOK
<1>5. Service!Given({id}, "Error")
  BY <1>4 DEF Service!Given
<1>6. QED
  BY <1>1, <1>3, <1>5 DEF Service!Report, PendingIds, Left

\* Failing reports nothing yet and drops nothing.
LEMMA TalkerFailIsFail ==
  ASSUME TypeOK, TalkerPhase, TalkerFail
  PROVE  Service!Fail({})
<1>1. ~m_failed /\ m_failed' = TRUE /\ unreported' = uiQueue /\ decided' = decided
  BY DEF TalkerFail, TalkerPhase
<1>2. PendingIds' = PendingIds
  BY <1>1 DEF PendingIds, Left
<1>3. decided = [id \in Ids |-> decided[id]]
  BY DEF TypeOK
<1>4. Service!Given({}, "Error")
  BY <1>1, <1>3 DEF Service!Given
<1>5. QED
  BY <1>1, <1>2, <1>4 DEF Service!Fail, PendingIds, Left

\* Every step of the agent is one the service allows.
LEMMA ServiceStep ==
  ASSUME TypeOK, TalkerPhase, [Next]_vars
  PROVE  [Service!ServiceNext]_(Service!serviceVars)
<1>1. CASE UNCHANGED <<m_failed, uiQueue, unreported, decided>>
  BY <1>1 DEF Service!serviceVars
<1>2. CASE Submit
  <2>1. PICK id \in Ids : id = cur.id
    BY <1>2, SubmitLeft
  <2>2. Service!Ask(id)
    BY <1>2, <2>1, SubmitLeft DEF Service!Ask, PendingIds, Left
  <2>3. QED
    BY <2>2 DEF Service!ServiceNext
<1>3. CASE Dismiss
  <2>1. PICK id \in Ids : id = cur.id
    BY <1>3, DismissLeft
  <2>2. Service!TakeBack(id)
    BY <1>3, <2>1, DismissLeft DEF Service!TakeBack, PendingIds, Left
  <2>3. QED
    BY <2>2 DEF Service!ServiceNext
<1>4. CASE \E id \in Ids, response \in Answers : TakeAnswer(id, response)
  BY <1>4, TakeAnswerIsAnswer DEF Service!ServiceNext
<1>5. CASE \E id \in Ids : ReportError(id)
  BY <1>5, ReportErrorIsReport DEF Service!ServiceNext
<1>6. CASE TalkerFail
  BY <1>6, TalkerFailIsFail DEF Service!ServiceNext
<1>7. CASE NotificationThread
  <2>1. \/ \E id \in Ids, response \in Answers : TakeAnswer(id, response)
        \/ \E id \in Ids : ReportError(id)
        \/ TalkerFail
        \/ UNCHANGED <<m_failed, uiQueue, unreported, decided>>
    BY <1>7 DEF NotificationThread, TalkerProgress, TalkerLock, TalkerUnlock, TalkerStop,
                ReportDone, FindInstance, NoInstance, CallAgent, TalkerThrow, MissInstance,
                uiVars
  <2>2. QED
    BY <1>1, <1>4, <1>5, <1>6, <2>1
<1>8. QED
  BY <1>1, <1>2, <1>3, <1>7, MainLeavesService, CynaraLeavesService DEF Next, Exited

\* The agent assumes of its notification thread only what NotificationService
\* promises.
THEOREM AgentAssumesService == Spec => AssumesService
<1>1. Init => Service!ServiceInit
  <2>1. SUFFICES ASSUME Init PROVE Service!ServiceInit
    OBVIOUS
  <2>2. \A id \in Ids : Left(id) = 0
    BY <2>1 DEF Init, Left
  <2>3. PendingIds = {}
    BY <2>2 DEF PendingIds
  <2>4. QED
    BY <2>1, <2>3 DEF Init, Service!ServiceInit, PendingIds, Left
<1>2. TypeOK /\ TalkerPhase /\ [Next]_vars => [Service!ServiceNext]_(Service!serviceVars)
  BY ServiceStep
<1>3. QED
  BY <1>1, <1>2, TypeCorrect, TalkerPhaseInvariant, PTL
  DEF Spec, AssumesService, Service!ServiceSpec

-----------------------------------------------------------------------------
(* No request is forgotten.                                                *)

\* Where a request in process may be.
Somewhere(id) == id \in PendingIds \/ OnItsWay(id) \/ id \in lost

\* The property in terms of PendingIds.
LEMMA ForgottenIsNowhere ==
  ASSUME TypeOK
  PROVE  NoForgottenRequest <=> \A id \in m_requests : Somewhere(id)
BY DEF TypeOK, NoForgottenRequest, Somewhere, PendingIds, Left

\* Its response stays where it is while nobody takes it.
LEMMA OnItsWayStays ==
  ASSUME UNCHANGED <<talker, answer, m_incomingResponses, main, cur>>
  PROVE  \A id : OnItsWay(id)' = OnItsWay(id)
BY DEF OnItsWay

\* A response in the queue stays there when another is appended.
LEMMA AppendKeeps ==
  ASSUME TypeOK, NEW r \in Responses, m_incomingResponses' = Append(m_incomingResponses, r)
  PROVE  /\ \A n \in 1 .. Len(m_incomingResponses) :
              /\ n \in 1 .. Len(m_incomingResponses')
              /\ m_incomingResponses'[n] = m_incomingResponses[n]
         /\ \E n \in 1 .. Len(m_incomingResponses') : m_incomingResponses'[n] = r
<1>1. m_incomingResponses \in Seq(Responses)
  BY DEF TypeOK
<1>2. /\ Len(m_incomingResponses') = Len(m_incomingResponses) + 1
      /\ m_incomingResponses'[Len(m_incomingResponses) + 1] = r
      /\ \A n \in 1 .. Len(m_incomingResponses) : m_incomingResponses'[n] = m_incomingResponses[n]
  BY <1>1
<1>3. Len(m_incomingResponses) \in Nat
  BY <1>1
<1>4. QED
  BY <1>2, <1>3

\* The notification thread passes a request on, or loses it by name.
LEMMA ThreadForgetsNone ==
  ASSUME TypeOK, TalkerPhase, Registry, NotificationThread,
         NEW id \in m_requests, Somewhere(id)
  PROVE  Somewhere(id)'
<1>1. /\ UNCHANGED <<main, cur, m_requests, m_idToInstance>>
      /\ id \in Ids /\ id \in m_idToInstance
  BY NotificationThreadFrame DEF TypeOK, Registry
<1>2. CASE TalkerLock \/ TalkerUnlock \/ TalkerStop \/ ReportDone \/ TalkerThrow
  <2>1. UNCHANGED <<m_failed, uiQueue, unreported, lost, answer, m_incomingResponses>>
    BY <1>2 DEF TalkerLock, TalkerUnlock, TalkerStop, ReportDone, TalkerThrow, uiVars, queueVars
  <2>2. talker \notin {"answering", "calling"}
    BY <1>2 DEF TalkerLock, TalkerUnlock, TalkerStop, ReportDone, TalkerThrow
  <2>3. QED
    BY <1>1, <2>1, <2>2 DEF Somewhere, OnItsWay, PendingIds, Left
<1>3. ASSUME NEW i \in Ids, NEW response \in Answers, TakeAnswer(i, response)
      PROVE  Somewhere(id)'
  <2>1. /\ talker = "locked" /\ talker' = "answering" /\ answer'.id = i /\ ~m_failed
        /\ uiQueue' = [uiQueue EXCEPT ![i] = @ - 1]
        /\ UNCHANGED <<m_failed, lost, m_incomingResponses>>
    BY <1>3 DEF TakeAnswer, TalkerPhase, queueVars
  <2>2. CASE id = i
    BY <2>1, <2>2 DEF Somewhere, OnItsWay
  <2>3. CASE id # i
    <3>1. uiQueue'[id] = uiQueue[id]
      BY <1>1, <2>1, <2>3 DEF TypeOK
    <3>2. QED
      BY <1>1, <2>1, <2>3, <3>1 DEF Somewhere, OnItsWay, PendingIds, Left
  <2>4. QED
    BY <2>2, <2>3
<1>4. CASE TalkerFail
  BY <1>1, <1>4 DEF TalkerFail, TalkerPhase, Somewhere, OnItsWay, PendingIds, Left, queueVars
<1>5. ASSUME NEW i \in Ids, ReportError(i)
      PROVE  Somewhere(id)'
  <2>1. /\ talker = "reporting" /\ talker' = "answering" /\ answer'.id = i /\ m_failed
        /\ unreported' = [unreported EXCEPT ![i] = @ - 1]
        /\ UNCHANGED <<m_failed, lost, m_incomingResponses>>
    BY <1>5 DEF ReportError, TalkerPhase, queueVars
  <2>2. CASE id = i
    BY <2>1, <2>2 DEF Somewhere, OnItsWay
  <2>3. CASE id # i
    <3>1. unreported'[id] = unreported[id]
      BY <1>1, <2>1, <2>3 DEF TypeOK
    <3>2. QED
      BY <1>1, <2>1, <2>3, <3>1 DEF Somewhere, OnItsWay, PendingIds, Left
  <2>4. QED
    BY <2>2, <2>3
<1>6. CASE FindInstance \/ NoInstance \/ MissInstance
  <2>1. UNCHANGED <<m_failed, uiQueue, unreported, answer, m_incomingResponses>>
    BY <1>6 DEF FindInstance, NoInstance, MissInstance, uiVars, queueVars
  <2>2. \/ talker' = "calling"
        \/ answer.id \notin m_idToInstance
        \/ answer.id \in lost'
    BY <1>6 DEF FindInstance, NoInstance, MissInstance
  <2>3. lost \subseteq lost'
    BY <1>6 DEF FindInstance, NoInstance, MissInstance
  <2>4. QED
    BY <1>1, <2>1, <2>2, <2>3 DEF Somewhere, OnItsWay, PendingIds, Left
<1>7. CASE CallAgent
  <2> DEFINE r == Request(UIResponseOf(answer.response), answer.id)
  <2>1. /\ UNCHANGED <<m_failed, uiQueue, unreported, answer, lost>>
        /\ m_incomingResponses' = Append(m_incomingResponses, r)
    BY <1>7 DEF CallAgent, uiVars
  <2>2. r \in Responses /\ r.id = answer.id
    BY <1>7, UIResponseOfType DEF CallAgent, Request, Responses, TypeOK
  <2> HIDE DEF r
  <2>3. QED
    BY <1>1, <2>1, <2>2, AppendKeeps DEF Somewhere, OnItsWay, PendingIds, Left
<1>8. QED
  BY <1>2, <1>3, <1>4, <1>5, <1>6, <1>7 DEF NotificationThread, TalkerProgress

\* The main thread takes a response from the queue into its hand.
LEMMA PopKeepsOnItsWay ==
  ASSUME TypeOK, PopResponse, NEW id, OnItsWay(id)
  PROVE  OnItsWay(id)'
<1>1. m_incomingResponses \in Seq(Responses) /\ m_incomingResponses # <<>>
  BY DEF PopResponse, TypeOK
<1>2. /\ UNCHANGED <<talker, answer>> /\ main' = "response" /\ main # "response"
      /\ cur' = Head(m_incomingResponses) /\ m_incomingResponses' = Tail(m_incomingResponses)
  BY DEF PopResponse, MainUnchanged, talkerVars
<1>3. CASE \E n \in 1 .. Len(m_incomingResponses) : m_incomingResponses[n].id = id
  <2>1. PICK n \in 1 .. Len(m_incomingResponses) : m_incomingResponses[n].id = id
    BY <1>3
  <2>2. CASE n = 1
    <3>1. cur'.id = id
      BY <1>1, <1>2, <2>1, <2>2
    <3>2. QED
      BY <1>2, <3>1 DEF OnItsWay
  <2>3. CASE n # 1
    <3>1. n - 1 \in 1 .. Len(m_incomingResponses') /\ m_incomingResponses'[n - 1].id = id
      BY <1>1, <1>2, <2>1, <2>3
    <3>2. QED
      BY <3>1 DEF OnItsWay
  <2>4. QED
    BY <2>2, <2>3
<1>4. QED
  BY <1>2, <1>3 DEF OnItsWay

\* The main thread forgets a request only when it answers it.
LEMMA MainForgetsNone ==
  ASSUME TypeOK, Registry, \A id \in m_requests : Somewhere(id), MainThread
  PROVE  \A id \in m_requests' : Somewhere(id)'
<1>1. UNCHANGED <<talker, answer, m_failed, decided>> /\ m_requests \subseteq Ids
  BY MainThreadFrame DEF TypeOK
<1>2. CASE Submit
  <2>1. /\ m_requests' = m_requests \cup {cur.id} /\ main = "submit" /\ main' = "relock"
        /\ UNCHANGED m_incomingResponses /\ lost \subseteq lost'
    BY <1>2 DEF Submit, Done, RequestUnchanged, queueVars
  <2>2. PendingIds \subseteq PendingIds' /\ cur.id \in PendingIds' \cup lost'
    BY <1>2, SubmitLeft
  <2>3. QED
    BY <1>1, <2>1, <2>2 DEF Somewhere, OnItsWay
<1>3. CASE Dismiss
  <2>1. /\ m_requests' = m_requests /\ main = "dismiss" /\ main' = "destroy"
        /\ UNCHANGED m_incomingResponses /\ cur.id \notin m_requests
    BY <1>3 DEF Dismiss, RequestUnchanged, queueVars, requestVars, Registry
  <2>2. PendingIds \ {cur.id} \subseteq PendingIds' \cup lost' /\ lost \subseteq lost'
    BY <1>3, DismissLeft
  <2>3. QED
    BY <1>1, <2>1, <2>2 DEF Somewhere, OnItsWay
<1>4. CASE PopResponse
  <2>1. UNCHANGED <<m_requests, uiQueue, unreported, lost>>
    BY <1>4 DEF PopResponse, LoopUnchanged, requestVars
  <2>2. PendingIds' = PendingIds
    BY <1>1, <2>1 DEF PendingIds, Left
  <2>3. QED
    BY <1>4, <2>1, <2>2, PopKeepsOnItsWay DEF Somewhere
<1>5. CASE ProcessUIResponse
  <2>1. /\ m_requests' \subseteq m_requests \ {cur.id} /\ main = "response"
        /\ UNCHANGED <<m_incomingResponses, uiQueue, unreported, lost>>
    BY <1>5 DEF ProcessUIResponse, RequestUnchanged, queueVars
  <2>2. PendingIds' = PendingIds
    BY <1>1, <2>1 DEF PendingIds, Left
  <2>3. QED
    BY <1>1, <2>1, <2>2 DEF Somewhere, OnItsWay
<1>6. CASE ~(Submit \/ Dismiss \/ PopResponse \/ ProcessUIResponse)
  <2>1. UNCHANGED <<m_failed, uiQueue, unreported, lost>>
    BY <1>6, MainLeavesService
  <2>2. m_requests' \subseteq m_requests /\ UNCHANGED m_incomingResponses /\ main # "response"
    BY <1>6 DEF MainThread, MainLoop, Start, Test, WakeNotified, WakeTimeout, Wake, Relock,
                PopRequest, NothingToPop, Cleanup, ProcessClose, DropRequest, CancelKnown,
                StartUI, InsertInstance, Unwind, DismissThrows, Destroy, Finish, FinishJoin,
                FinishTimeout, FinishCleanup, StopTalker, LoopUnchanged, RequestUnchanged,
                queueVars, requestVars
  <2>3. PendingIds' = PendingIds
    BY <2>1 DEF PendingIds, Left
  <2>4. QED
    BY <1>1, <2>1, <2>2, <2>3 DEF Somewhere, OnItsWay
<1>7. QED
  BY <1>2, <1>3, <1>4, <1>5, <1>6

LEMMA ForgottenStep ==
  TypeOK /\ TalkerPhase /\ Registry /\ NoForgottenRequest /\ [Next]_vars => NoForgottenRequest'
<1> SUFFICES ASSUME TypeOK, TalkerPhase, Registry, NoForgottenRequest, [Next]_vars
             PROVE  NoForgottenRequest'
  OBVIOUS
<1>1. \A id \in m_requests : Somewhere(id)
  BY ForgottenIsNowhere
<1>2. \A id \in m_requests' : Somewhere(id)'
  <2>1. CASE MainThread
    BY <1>1, <2>1, MainForgetsNone
  <2>2. CASE NotificationThread
    BY <1>1, <2>2, ThreadForgetsNone, NotificationThreadFrame
  <2>3. CASE CynaraThread \/ Terminate \/ UNCHANGED vars
    <3>1. UNCHANGED <<m_failed, uiQueue, unreported, lost>>
      BY <2>3, CynaraLeavesService
    <3>2. UNCHANGED <<m_requests, main, cur, talker, answer, m_incomingResponses>>
      BY <2>3, CynaraThreadFrame, SignalFrame
    <3>3. PendingIds' = PendingIds
      BY <3>1 DEF PendingIds, Left
    <3>4. QED
      BY <1>1, <3>1, <3>2, <3>3 DEF Somewhere, OnItsWay
  <2>4. QED
    BY <2>1, <2>2, <2>3 DEF Next, Exited
<1>3. TypeOK'
  BY TypeStep
<1>4. uiQueue' \in [Ids -> Nat] /\ unreported' \in [Ids -> Nat] /\ m_requests' \subseteq Ids
  BY <1>3 DEF TypeOK
<1>5. QED
  BY <1>2, <1>4 DEF NoForgottenRequest, Somewhere, PendingIds, Left, OnItsWay

\* Every request in process is with the notification thread, or its response is on
\* the way, or it was taken by one of the data races that are named in the model.
THEOREM NothingForgotten == Spec => []NoForgottenRequest
<1>1. Init => NoForgottenRequest
  BY DEF Init, NoForgottenRequest
<1>2. QED
  BY <1>1, ForgottenStep, TypeCorrect, TalkerPhaseInvariant, MapsAgree, PTL DEF Spec

-----------------------------------------------------------------------------
(* One response per request.                                               *)

\* Where x is in the queue s, and how often.
Places(s, x) == {n \in 1 .. Len(s) : s[n] = x}
Count(s, x) == Cardinality(Places(s, x))

LEMMA CountType ==
  ASSUME NEW S, NEW s \in Seq(S), NEW x
  PROVE  IsFiniteSet(Places(s, x)) /\ Count(s, x) \in Nat
<1>1. IsFiniteSet(1 .. Len(s))
  <2>1. Len(s) \in Nat
    OBVIOUS
  <2>2. QED
    BY <2>1, FS_Interval
<1>2. Places(s, x) \in SUBSET (1 .. Len(s))
  BY DEF Places
<1>3. IsFiniteSet(Places(s, x))
  BY <1>1, <1>2, FS_Subset
<1>4. QED
  BY <1>3, FS_CardinalityType DEF Count

\* Pushing y adds one place for y and none for anything else.
LEMMA CountAppend ==
  ASSUME NEW S, NEW s \in Seq(S), NEW y \in S, NEW x
  PROVE  Count(Append(s, y), x) = IF x = y THEN Count(s, x) + 1 ELSE Count(s, x)
<1> DEFINE t == Append(s, y)
           last == Len(s) + 1
<1>1. /\ Len(s) \in Nat /\ Len(t) = last /\ t[last] = y
      /\ \A n \in 1 .. Len(s) : t[n] = s[n]
  OBVIOUS
<1> HIDE DEF t
<1>2. Places(t, x) = IF x = y THEN Places(s, x) \cup {last} ELSE Places(s, x)
  BY <1>1 DEF Places
<1>3. last \notin Places(s, x)
  BY <1>1 DEF Places
<1>4. Count(t, x) = IF x = y THEN Count(s, x) + 1 ELSE Count(s, x)
  BY <1>2, <1>3, CountType, FS_AddElement DEF Count
<1>5. QED
  BY <1>4 DEF t

\* Popping the head takes one place from it and none from anything else.
LEMMA CountTail ==
  ASSUME NEW S, NEW s \in Seq(S), s # <<>>, NEW x
  PROVE  Count(Tail(s), x) = IF x = Head(s) THEN Count(s, x) - 1 ELSE Count(s, x)
<1> DEFINE t == Tail(s)
           rest == Places(s, x) \ {1}
           f == [n \in Places(t, x) |-> n + 1]
<1>1. /\ t \in Seq(S) /\ Len(s) \in Nat /\ Len(s) > 0 /\ Len(t) = Len(s) - 1 /\ Head(s) = s[1]
      /\ \A n \in 1 .. Len(t) : t[n] = s[n + 1]
  OBVIOUS
<1> HIDE DEF t
<1>2. IsFiniteSet(Places(s, x)) /\ IsFiniteSet(Places(t, x))
  BY <1>1, CountType
<1>3. f \in Bijection(Places(t, x), rest)
  <2>1. \A n \in Places(t, x) : n + 1 \in rest
    BY <1>1 DEF Places
  <2>2. \A m \in rest : m - 1 \in Places(t, x) /\ (m - 1) + 1 = m
    BY <1>1 DEF Places
  <2>3. f \in Injection(Places(t, x), rest)
    <3>1. \A a, b \in Places(t, x) : f[a] = f[b] => a = b
      BY DEF Places
    <3>2. f \in [Places(t, x) -> rest]
      BY <2>1
    <3> HIDE DEF f, rest
    <3>3. QED
      BY <3>1, <3>2 DEF Injection, IsInjective
  <2>4. \A m \in rest : \E n \in Places(t, x) : f[n] = m
    BY <2>2
  <2>5. QED
    BY <2>3, <2>4 DEF Bijection, Injection, Surjection
<1> HIDE DEF f
<1>4. Cardinality(rest) = Cardinality(Places(t, x))
  BY <1>2, <1>3, FS_Bijection DEF ExistsBijection
<1>5. 1 \in Places(s, x) <=> x = Head(s)
  BY <1>1 DEF Places
<1>6. Cardinality(rest) = IF x = Head(s) THEN Count(s, x) - 1 ELSE Count(s, x)
  BY <1>2, <1>5, FS_RemoveElement DEF Count
<1>7. QED
  BY <1>4, <1>6 DEF Count, t

\* The responses cynara may still get for id: an action request is queued, in the
\* main thread's hand or in m_requests.
Action(id) == Request("RT_Action", id)
InHand(id) == main \in {"request", "inserting", "submit", "unwind"} /\ cur = Action(id)
Owed(id) ==
  Count(m_incomingRequests, Action(id)) + (IF InHand(id) THEN 1 ELSE 0)
    + (IF id \in m_requests THEN 1 ELSE 0)
Accounted(id) == Len(sent[id]) + Owed(id) <= asked[id]
AllAccounted == \A id \in Ids : Accounted(id)

LEMMA OwedType ==
  ASSUME TypeOK, NEW id \in Ids
  PROVE  /\ Count(m_incomingRequests, Action(id)) \in Nat
         /\ Len(sent[id]) \in Nat /\ asked[id] \in Nat
<1>1. m_incomingRequests \in Seq(Requests)
  BY DEF TypeOK
<1>2. Count(m_incomingRequests, Action(id)) \in Nat
  BY <1>1, CountType
<1>3. sent[id] \in Seq([type : RequestType, data : AgentData]) /\ asked[id] \in Nat
  BY DEF TypeOK
<1>4. Len(sent[id]) \in Nat
  BY <1>3
<1>5. QED
  BY <1>2, <1>3, <1>4

\* A step that queues no request, takes none into the hand or into m_requests and
\* sends nothing.
LEMMA OwedLess ==
  ASSUME TypeOK, NEW id \in Ids, Accounted(id),
         UNCHANGED <<sent, asked, m_incomingRequests>>,
         InHand(id)' => InHand(id), m_requests' \subseteq m_requests
  PROVE  Accounted(id)'
<1> DEFINE count == Count(m_incomingRequests, Action(id))
<1>1. count' = count /\ count \in Nat /\ Len(sent[id]) \in Nat /\ asked[id] \in Nat
  BY OwedType DEF Action, Request
<1>2. Len(sent'[id]) = Len(sent[id]) /\ asked'[id] = asked[id]
  OBVIOUS
<1> HIDE DEF count
<1>3. QED
  BY <1>1, <1>2, SMTT(30) DEF Accounted, Owed, count, Action, Request

\* A response is sent, at most one, for a request that m_requests gives up.
LEMMA OwedResponse ==
  ASSUME TypeOK, NEW id \in Ids, Accounted(id), NEW i \in m_requests,
         m_requests' = m_requests \ {i}, NEW type, NEW data, SendResponse(type, i, data),
         UNCHANGED <<asked, m_incomingRequests>>, ~InHand(id)'
  PROVE  Accounted(id)'
<1> DEFINE count == Count(m_incomingRequests, Action(id))
<1>1. count' = count /\ count \in Nat /\ Len(sent[id]) \in Nat /\ asked[id] \in Nat
  BY OwedType DEF Action, Request
<1>2. sent'[id] = sent[id] \/ (i = id /\ Len(sent'[id]) = Len(sent[id]) + 1)
  BY DEF SendResponse, TypeOK
<1> HIDE DEF count
<1>3. QED
  BY <1>1, <1>2 DEF Accounted, Owed, count, Action, Request

\* The cynara thread queues one action request for each it counts.
LEMMA OwedPush ==
  ASSUME TypeOK, NEW id \in Ids, Accounted(id), CynaraThread
  PROVE  Accounted(id)'
<1> DEFINE count == Count(m_incomingRequests, Action(id))
<1>1. UNCHANGED <<m_requests, main, cur, sent>> /\ m_incomingRequests \in Seq(Requests)
  BY CynaraThreadFrame DEF TypeOK
<1>2. count \in Nat /\ Len(sent[id]) \in Nat /\ asked[id] \in Nat
  BY OwedType
<1>3. ASSUME NEW request \in Requests, PushRequest(request)
      PROVE  count' = IF request = Action(id) THEN count + 1 ELSE count
  <2>1. m_incomingRequests' = Append(m_incomingRequests, request)
    BY <1>3 DEF PushRequest
  <2>2. Count(Append(m_incomingRequests, request), Action(id))
          = IF Action(id) = request THEN count + 1 ELSE count
    BY <1>1, CountAppend
  <2>3. QED
    BY <2>1, <2>2 DEF Action, Request
<1>4. CASE CynaraInitialize \/ CynaraFinish
  BY <1>1, <1>4, OwedLess DEF CynaraInitialize, CynaraFinish, queueVars, InHand, Action, Request
<1>5. CASE CynaraInitializeFails \/ GetRequestFails \/ \E i \in Ids : GetCancel(i)
  <2>1. PICK request \in Requests : PushRequest(request) /\ request # Action(id)
    BY <1>5 DEF CynaraInitializeFails, GetRequestFails, GetCancel, Close, Request, Requests,
                Action
  <2>2. count' = count /\ asked' = asked
    BY <1>3, <1>5, <2>1 DEF CynaraInitializeFails, GetRequestFails, GetCancel
  <2> HIDE DEF count
  <2>3. QED
    BY <1>1, <1>2, <2>2 DEF Accounted, Owed, count, InHand, Action, Request
<1>6. CASE \E i \in Ids : GetAction(i)
  <2>1. PICK i \in Ids : GetAction(i)
    BY <1>6
  <2>2. PushRequest(Action(i)) /\ Action(i) \in Requests
    BY <2>1 DEF GetAction, Action, Request, Requests
  <2>3. Action(i) = Action(id) <=> i = id
    BY DEF Action, Request
  <2>4. count' = IF i = id THEN count + 1 ELSE count
    BY <1>3, <2>2, <2>3
  <2>5. asked'[id] = IF i = id THEN asked[id] + 1 ELSE asked[id]
    <3>1. asked \in [Ids -> Nat]
      BY DEF TypeOK
    <3>2. QED
      BY <2>1, <3>1 DEF GetAction
  <2> HIDE DEF count
  <2>6. QED
    BY <1>1, <1>2, <2>4, <2>5, SMTT(30) DEF Accounted, Owed, count, InHand, Action, Request
<1>7. QED
  BY <1>4, <1>5, <1>6 DEF CynaraThread

\* A request that is popped goes from the queue into the hand.
LEMMA OwedPop ==
  ASSUME TypeOK, NEW id \in Ids, Accounted(id), PopRequest
  PROVE  Accounted(id)'
<1> DEFINE count == Count(m_incomingRequests, Action(id))
<1>1. m_incomingRequests \in Seq(Requests) /\ m_incomingRequests # <<>>
  BY DEF TypeOK, PopRequest
<1>2. /\ UNCHANGED <<m_requests, sent, asked>> /\ main = "drain"
      /\ cur' = Head(m_incomingRequests) /\ m_incomingRequests' = Tail(m_incomingRequests)
  BY DEF PopRequest, LoopUnchanged, MainUnchanged, requestVars
<1>3. count \in Nat /\ Len(sent[id]) \in Nat /\ asked[id] \in Nat
  BY OwedType
<1>4. Count(Tail(m_incomingRequests), Action(id))
        = IF Action(id) = Head(m_incomingRequests) THEN count - 1 ELSE count
  BY <1>1, CountTail
<1>5. count' = IF Action(id) = cur' THEN count - 1 ELSE count
  BY <1>2, <1>4 DEF Action, Request
<1>6. ~InHand(id) /\ (InHand(id)' => cur' = Action(id))
  BY <1>2 DEF InHand, Action, Request
<1> HIDE DEF count
<1>7. QED
  BY <1>2, <1>3, <1>5, <1>6 DEF Accounted, Owed, count, Action, Request

\* A request that is submitted goes from the hand into m_requests.
LEMMA OwedSubmit ==
  ASSUME TypeOK, Registry, NEW id \in Ids, Accounted(id), Submit
  PROVE  Accounted(id)'
<1> DEFINE count == Count(m_incomingRequests, Action(id))
<1>1. /\ UNCHANGED <<sent, asked, m_incomingRequests>> /\ main = "submit" /\ main' = "relock"
      /\ m_requests' = m_requests \cup {cur.id} /\ cur.id \notin m_requests
      /\ cur = Action(cur.id)
  BY DEF Submit, Done, RequestUnchanged, MainUnchanged, queueVars, Registry, TypeOK, InHandOK,
         Action, Request
<1>2. count' = count /\ count \in Nat /\ Len(sent[id]) \in Nat /\ asked[id] \in Nat
  BY <1>1, OwedType DEF Action, Request
<1>3. ~InHand(id)' /\ (InHand(id) <=> cur.id = id)
  BY <1>1 DEF InHand, Action, Request
<1> HIDE DEF count
<1>4. QED
  BY <1>1, <1>2, <1>3 DEF Accounted, Owed, count, Action, Request

\* The end of the process drops the queue and the open requests.
LEMMA OwedCleanup ==
  ASSUME TypeOK, NEW id \in Ids, Accounted(id), FinishCleanup
  PROVE  Accounted(id)'
<1> DEFINE count == Count(m_incomingRequests, Action(id))
<1>1. /\ UNCHANGED <<sent, asked>> /\ m_incomingRequests' = <<>> /\ m_requests' \subseteq m_requests
      /\ main' \in {"returned", "exited"}
  BY DEF FinishCleanup, MainUnchanged
<1>2. count \in Nat /\ Len(sent[id]) \in Nat /\ asked[id] \in Nat
  BY OwedType
<1>3. Places(<<>>, Action(id)) = {}
  BY DEF Places
<1>4. Count(<<>>, Action(id)) = 0
  BY <1>3, FS_EmptySet DEF Count
<1>5. count' = 0 /\ ~InHand(id)'
  BY <1>1, <1>4 DEF InHand, Action, Request
<1> HIDE DEF count
<1>6. QED
  BY <1>1, <1>2, <1>5 DEF Accounted, Owed, count, Action, Request

\* Every other step of the main thread sends nothing and takes nothing on.
LEMMA OwedMain ==
  ASSUME TypeOK, Registry, NEW id \in Ids, Accounted(id), MainThread
  PROVE  Accounted(id)'
<1>1. asked' = asked
  BY MainThreadFrame
<1>2. CASE PopRequest
  BY <1>2, OwedPop
<1>3. CASE Submit
  BY <1>3, OwedSubmit
<1>4. CASE FinishCleanup
  BY <1>4, OwedCleanup
<1>5. CASE CancelKnown
  <2>1. /\ cur.id \in m_requests /\ m_requests' = m_requests \ {cur.id}
        /\ SendResponse("RT_Cancel", cur.id, Text(NoError)) /\ UNCHANGED m_incomingRequests
        /\ main' \in {"dismiss", "relock"}
    BY <1>5 DEF CancelKnown, DismissUI, Done, RequestUnchanged, queueVars
  <2>2. QED
    BY <1>1, <2>1, OwedResponse DEF InHand
<1>6. CASE ProcessUIResponse
  <2>1. /\ main' \in {"dismiss", "cleanup"} /\ UNCHANGED m_incomingRequests
    BY <1>6 DEF ProcessUIResponse, DismissUI, Done, RequestUnchanged, queueVars
  <2>2. CASE cur.id \in m_requests
    <3>1. /\ m_requests' = m_requests \ {cur.id}
          /\ SendResponse("RT_Action", cur.id, ResponseData(cur.type))
      BY <1>6, <2>2 DEF ProcessUIResponse
    <3>2. QED
      BY <1>1, <2>1, <2>2, <3>1, OwedResponse DEF InHand
  <2>3. CASE cur.id \notin m_requests
    <3>1. UNCHANGED <<sent, m_requests>>
      BY <1>6, <2>3 DEF ProcessUIResponse
    <3>2. QED
      BY <1>1, <2>1, <3>1, OwedLess DEF InHand
  <2>4. QED
    BY <2>2, <2>3
<1>7. CASE StartUI \/ InsertInstance
  <2>1. UNCHANGED <<m_incomingRequests, sent, m_requests>>
    BY <1>7 DEF StartUI, InsertInstance, LoopUnchanged, RequestUnchanged, queueVars, requestVars
  <2>2. InHand(id)' => InHand(id)
    BY <1>7 DEF StartUI, InsertInstance, Done, InHand, Action, Request
  <2>3. QED
    BY <1>1, <2>1, <2>2, OwedLess
<1>8. CASE ~(PopRequest \/ Submit \/ FinishCleanup \/ CancelKnown \/ ProcessUIResponse \/ StartUI
              \/ InsertInstance)
  <2>1. /\ UNCHANGED <<m_incomingRequests, sent, m_requests>>
        /\ main' \notin {"request", "inserting", "submit", "unwind"}
    BY <1>8 DEF MainThread, MainLoop, Start, Test, WakeNotified, WakeTimeout, Wake, Relock,
                PopResponse, NothingToPop, Cleanup, ProcessClose, DropRequest, Unwind, Dismiss,
                DismissThrows, Destroy, Finish, FinishJoin, FinishTimeout, StopTalker,
                LoopUnchanged, RequestUnchanged, Done, queueVars, requestVars
  <2>2. QED
    BY <1>1, <2>1, OwedLess DEF InHand
<1>9. QED
  BY <1>2, <1>3, <1>4, <1>5, <1>6, <1>7, <1>8

LEMMA AccountedStep == TypeOK /\ Registry /\ AllAccounted /\ [Next]_vars => AllAccounted'
<1> SUFFICES ASSUME TypeOK, Registry, AllAccounted, [Next]_vars, NEW id \in Ids
             PROVE  Accounted(id)'
  BY DEF AllAccounted
<1>1. Accounted(id)
  BY DEF AllAccounted
<1>2. CASE MainThread
  BY <1>1, <1>2, OwedMain
<1>3. CASE CynaraThread
  BY <1>1, <1>3, OwedPush
<1>4. CASE NotificationThread
  <2>1. UNCHANGED <<sent, asked, m_incomingRequests, m_requests, main, cur>>
    BY <1>4, NotificationThreadFrame
    DEF NotificationThread, TalkerProgress, TalkerLock, TalkerUnlock, TalkerFail, TalkerStop,
        ReportError, ReportDone, FindInstance, NoInstance, CallAgent, TakeAnswer, TalkerThrow,
        MissInstance, TalkerUnchanged, queueVars, cynaraVars
  <2>2. QED
    BY <1>1, <2>1, OwedLess DEF InHand, Action, Request
<1>5. CASE Terminate \/ UNCHANGED vars
  <2>1. UNCHANGED <<sent, asked, m_incomingRequests, m_requests, main, cur>>
    BY <1>5 DEF Terminate, LoopUnchanged, vars, queueVars, requestVars, cynaraVars
  <2>2. QED
    BY <1>1, <2>1, OwedLess DEF InHand, Action, Request
<1>6. QED
  BY <1>2, <1>3, <1>4, <1>5 DEF Next, Exited

\* However answers, cancels, repeated requests and failures interleave, cynara gets
\* no more responses for an id than it made requests with it.
THEOREM AtMostOneResponse == Spec => []OneResponsePerRequest
<1>1. Init => AllAccounted
  <2>1. SUFFICES ASSUME Init, NEW id \in Ids PROVE Accounted(id)
    BY DEF AllAccounted
  <2>2. Places(<<>>, Action(id)) = {}
    BY DEF Places
  <2>3. Count(<<>>, Action(id)) = 0
    BY <2>2, FS_EmptySet DEF Count
  <2>4. QED
    BY <2>1, <2>3 DEF Init, Accounted, Owed, InHand
<1>2. TypeOK /\ AllAccounted => OneResponsePerRequest
  <2>1. SUFFICES ASSUME TypeOK, AllAccounted, NEW id \in Ids PROVE Len(sent[id]) <= asked[id]
    BY DEF OneResponsePerRequest
  <2>2. QED
    BY <2>1, OwedType DEF AllAccounted, Accounted, Owed
<1>3. QED
  BY <1>1, <1>2, AccountedStep, TypeCorrect, MapsAgree, PTL DEF Spec
=============================================================================
