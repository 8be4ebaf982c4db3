------------------------------- MODULE Agent --------------------------------
(***************************************************************************)
(* The agent process: the main thread (Agent), the thread that talks to    *)
(* cynara (CynaraTalker) and the notification thread, reached through      *)
(* NotificationBackend.  The notification thread is seen from outside      *)
(* here: it holds the requests it was given in the queues of their users,  *)
(* delivers at most one answer for each entry and may fail at any time;    *)
(* its sockets and the popup behind them are not in this module.           *)
(*                                                                         *)
(* Every thread has a program counter.  A lock that is held over several   *)
(* steps is a predicate of the program counters (m_mutex, m_bfLock,        *)
(* m_instanceGuard below); a critical section that cannot block is one     *)
(* step that needs the lock free.                                          *)
(***************************************************************************)
EXTENDS AskUserTypes, Sequences

CONSTANTS
  Ids,        \* request ids that cynara uses
  NoId,       \* the id of a close request (0 in the code), and of no request
  Answers,    \* what the GUI may answer
  MaxAsk,     \* bound: action requests cynara sends for one id
  MaxCancel   \* bound: cancel requests cynara sends for one id

ASSUME AgentAssumption ==
  /\ NoId \notin Ids
  /\ Answers \subseteq NResponseType
  /\ MaxAsk \in Nat
  /\ MaxCancel \in Nat

VARIABLES
  m_incomingRequests,   \* queue filled by the cynara thread
  m_incomingResponses,  \* queue filled by the notification thread
  m_requests,           \* ids of the requests being processed
  m_UIs,                \* ids with a live backend in the agent's map
  m_stopFlag,
  m_idToInstance,       \* NotificationBackend: ids with a registered instance
  main, cur,            \* main thread: program counter, request or response in hand
  notified,             \* m_event was signalled while main waited
  cynara,               \* cynara thread: program counter
  talker, answer,       \* notification thread: program counter, response in hand
  m_failed,             \* NotificationTalker::m_failed
  uiQueue,              \* how many of the notification thread's queues hold each id
  unreported,           \* how often a failed notification thread has yet to answer it
  asked, cancels,       \* history: requests handed over by cynara, per id
  sent,                 \* history: responses cynara accepted, per id
  decided,              \* history: answers taken from the user, per id
  lost                  \* history: ids whose answer a data race can drop

queueVars   == <<m_incomingRequests, m_incomingResponses, notified>>
requestVars == <<m_requests, m_UIs>>
uiVars      == <<m_failed, uiQueue, unreported, decided>>
talkerVars  == <<talker, answer>>
cynaraVars  == <<cynara, asked, cancels>>
vars == <<queueVars, requestVars, uiVars, talkerVars, cynaraVars,
          m_stopFlag, m_idToInstance, main, cur, sent, lost>>

Request(type, id) == [type |-> type, id |-> id]
Close     == Request("RT_Close", NoId)
Nothing   == Request("none", NoId)
Requests  == [type : {"RT_Action", "RT_Cancel"}, id : Ids] \cup {Close}
Responses == [type : UIResponseType, id : Ids]

MainStates == {"start", "test", "waiting", "drain", "request", "inserting",
               "submit", "unwind", "relock", "second", "response", "dismiss",
               "destroy", "cleanup", "finish", "joined", "returned",
               "joining", "exited"}
CynaraStates == {"unstarted", "starting", "receiving", "finishing",
                 "finished", "aborted"}
TalkerStates == {"unlocked", "locked", "answering", "calling", "throwing",
                 "reporting", "ended"}

-----------------------------------------------------------------------------
(* Locks.                                                                  *)

\* Agent::m_mutex is held by the main thread between wait_for or lock() and unlock().
MutexHeld == main \in {"drain", "second"}

\* NotificationTalker::m_bfLock is held for a whole iteration of run(), not
\* while a failed thread reports.
BfLockHeld == \/ talker = "locked"
              \/ talker \in {"answering", "calling"} /\ ~m_failed

\* (mutant) ~NotificationBackend does not take m_instanceGuard.
InstanceGuardUnused == FALSE

\* NotificationBackend::m_instanceGuard is held while responseCb calls the agent.
InstanceGuardHeld == talker = "calling"

Alive == main # "exited"
Connected == cynara \in {"receiving", "finishing"}

\* The three places the notification thread returns to after responseCb.
Resume == IF m_failed THEN "reporting" ELSE "locked"

\* The thread has left its loop and walks over m_requests without m_bfLock.
Reporting == m_failed /\ talker \in {"reporting", "answering", "calling"}

Init ==
  /\ m_incomingRequests = <<>>
  /\ m_incomingResponses = <<>>
  /\ m_requests = {}
  /\ m_UIs = {}
  /\ m_stopFlag = FALSE
  /\ m_idToInstance = {}
  /\ main = "start"
  /\ cur = Nothing
  /\ notified = FALSE
  /\ cynara = "unstarted"
  /\ m_failed \in BOOLEAN     \* the constructor could not open the socket
  /\ talker = IF m_failed THEN "ended" ELSE "unlocked"
  /\ answer = [id |-> NoId, response |-> "None"]
  /\ uiQueue = [id \in Ids |-> 0]
  /\ unreported = [id \in Ids |-> 0]
  /\ asked = [id \in Ids |-> 0]
  /\ cancels = [id \in Ids |-> 0]
  /\ sent = [id \in Ids |-> <<>>]
  /\ decided = [id \in Ids |-> {}]
  /\ lost = {}

-----------------------------------------------------------------------------
(* The cynara thread.                                                      *)

\* notify_one() wakes the main thread only if it is waiting.
NotifyMain == notified' = (notified \/ main = "waiting")

\* Agent::requestHandler, one critical section of m_mutex.
PushRequest(request) ==
  /\ ~MutexHeld
  /\ m_incomingRequests' = Append(m_incomingRequests, request)
  /\ NotifyMain
  /\ UNCHANGED m_incomingResponses

CynaraUnchanged == UNCHANGED <<requestVars, uiVars, talkerVars, m_stopFlag,
                               m_idToInstance, main, cur, sent, lost>>

CynaraInitialize ==
  /\ Alive /\ cynara = "starting"
  /\ cynara' = "receiving"
  /\ UNCHANGED <<queueVars, asked, cancels>>
  /\ CynaraUnchanged

\* The early return: the agent is told to close, the promise is never set.
CynaraInitializeFails ==
  /\ Alive /\ cynara = "starting"
  /\ PushRequest(Close)
  /\ cynara' = "aborted"
  /\ UNCHANGED <<asked, cancels>>
  /\ CynaraUnchanged

GetAction(id) ==
  /\ Alive /\ cynara = "receiving"
  /\ asked[id] < MaxAsk
  /\ PushRequest(Request("RT_Action", id))
  /\ asked' = [asked EXCEPT ![id] = @ + 1]
  /\ UNCHANGED <<cynara, cancels>>
  /\ CynaraUnchanged

GetCancel(id) ==
  /\ Alive /\ cynara = "receiving"
  /\ asked[id] > 0
  /\ cancels[id] < MaxCancel
  /\ PushRequest(Request("RT_Cancel", id))
  /\ cancels' = [cancels EXCEPT ![id] = @ + 1]
  /\ UNCHANGED <<cynara, asked>>
  /\ CynaraUnchanged

GetRequestFails ==
  /\ Alive /\ cynara = "receiving"
  /\ PushRequest(Close)
  /\ cynara' = "finishing"
  /\ UNCHANGED <<asked, cancels>>
  /\ CynaraUnchanged

\* cynara_agent_finish, m_cynara = nullptr and the promise, under CynaraTalker::m_mutex.
CynaraFinish ==
  /\ Alive /\ cynara = "finishing"
  /\ cynara' = "finished"
  /\ UNCHANGED <<queueVars, asked, cancels>>
  /\ CynaraUnchanged

CynaraThread ==
  \/ CynaraInitialize \/ CynaraInitializeFails
  \/ \E id \in Ids : GetAction(id) \/ GetCancel(id)
  \/ GetRequestFails \/ CynaraFinish

-----------------------------------------------------------------------------
(* The notification thread and NotificationBackend::responseCb.            *)

TalkerUnchanged == UNCHANGED <<requestVars, cynaraVars, m_stopFlag,
                               m_idToInstance, main, cur, sent>>

TalkerLock ==
  /\ Alive /\ main # "joining"
  /\ talker = "unlocked"
  /\ talker' = "locked"
  /\ UNCHANGED <<queueVars, uiVars, answer, lost>>
  /\ TalkerUnchanged

TalkerUnlock ==
  /\ Alive /\ main # "joining"
  /\ talker = "locked"
  /\ talker' = "unlocked"
  /\ UNCHANGED <<queueVars, uiVars, answer, lost>>
  /\ TalkerUnchanged

\* parseResponse takes the answered request out of its queue and calls responseCb.
TakeAnswer(id, response) ==
  /\ Alive /\ talker = "locked"
  /\ uiQueue[id] > 0
  /\ uiQueue' = [uiQueue EXCEPT ![id] = @ - 1]
  /\ talker' = "answering"
  /\ answer' = [id |-> id, response |-> response]
  /\ decided' = [decided EXCEPT ![id] = @ \cup {response}]
  /\ UNCHANGED <<queueVars, m_failed, unreported, lost>>
  /\ TalkerUnchanged

\* An exception leaves the loop: the guard of m_bfLock is gone before m_failed is set.
TalkerThrow ==
  /\ Alive /\ talker = "locked"
  /\ talker' = "throwing"
  /\ UNCHANGED <<queueVars, uiVars, answer, lost>>
  /\ TalkerUnchanged

\* (mutant) a failed thread ends without answering what is queued.
TalkerFailSilently ==
  /\ Alive /\ talker = "throwing"
  /\ m_failed' = TRUE
  /\ talker' = "reporting"
  /\ UNCHANGED <<queueVars, uiQueue, unreported, decided, answer, lost>>
  /\ TalkerUnchanged

TalkerFail ==
  /\ Alive /\ talker = "throwing"
  /\ m_failed' = TRUE
  /\ unreported' = uiQueue
  /\ talker' = "reporting"
  /\ UNCHANGED <<queueVars, uiQueue, decided, answer, lost>>
  /\ TalkerUnchanged

\* The closing loop of run(): an error for every request still queued.
ReportError(id) ==
  /\ Alive /\ talker = "reporting"
  /\ unreported[id] > 0
  /\ unreported' = [unreported EXCEPT ![id] = @ - 1]
  /\ talker' = "answering"
  /\ answer' = [id |-> id, response |-> "Error"]
  /\ decided' = [decided EXCEPT ![id] = @ \cup {"Error"}]
  /\ UNCHANGED <<queueVars, m_failed, uiQueue, lost>>
  /\ TalkerUnchanged

ReportDone ==
  /\ Alive /\ talker = "reporting"
  /\ \A id \in Ids : unreported[id] = 0
  /\ talker' = "ended"
  /\ UNCHANGED <<queueVars, uiVars, answer, lost>>
  /\ TalkerUnchanged

\* ~NotificationTalker set m_stopflag: the loop ends.
TalkerStop ==
  /\ main = "joining"
  /\ talker \in {"unlocked", "locked"}
  /\ talker' = "ended"
  /\ UNCHANGED <<queueVars, uiVars, answer, lost>>
  /\ TalkerUnchanged

\* responseCb finds the instance under m_instanceGuard.
FindInstance ==
  /\ Alive /\ talker = "answering"
  /\ answer.id \in m_idToInstance
  /\ talker' = "calling"
  /\ UNCHANGED <<queueVars, uiVars, answer, lost>>
  /\ TalkerUnchanged

\* "Instance for this request does not exist anymore".
NoInstance ==
  /\ Alive /\ talker = "answering"
  /\ answer.id \notin m_idToInstance
  /\ talker' = Resume
  /\ UNCHANGED <<queueVars, uiVars, answer, lost>>
  /\ TalkerUnchanged

\* start() inserts into m_idToInstance without m_instanceGuard: a lookup that
\* meets the tree half rebalanced may miss an instance that is there.
MissInstance ==
  /\ Alive /\ talker = "answering"
  /\ main = "inserting"
  /\ answer.id \in m_idToInstance
  /\ talker' = Resume
  /\ lost' = lost \cup {answer.id}
  /\ UNCHANGED <<queueVars, uiVars, answer>>
  /\ TalkerUnchanged

\* m_cb is Agent::UIResponseHandler: one critical section of m_mutex, inside
\* m_instanceGuard (and m_bfLock).
CallAgent ==
  /\ Alive /\ talker = "calling"
  /\ ~MutexHeld
  /\ m_incomingResponses' =
       Append(m_incomingResponses, Request(UIResponseOf(answer.response), answer.id))
  /\ NotifyMain
  /\ talker' = Resume
  /\ UNCHANGED <<m_incomingRequests, uiVars, answer, lost>>
  /\ TalkerUnchanged

TalkerProgress ==
  \/ TalkerLock \/ TalkerUnlock \/ TalkerFail \/ TalkerStop
  \/ \E id \in Ids : ReportError(id)
  \/ ReportDone \/ FindInstance \/ NoInstance \/ CallAgent

NotificationThread ==
  \/ TalkerProgress
  \/ \E id \in Ids, response \in Answers : TakeAnswer(id, response)
  \/ TalkerThrow \/ MissInstance

-----------------------------------------------------------------------------
(* The main thread: the loop of Agent::run.                                *)

MainUnchanged == UNCHANGED <<talkerVars, m_failed, decided, asked, cancels>>

\* What a step of the loop that touches no request leaves alone.
LoopUnchanged == UNCHANGED <<requestVars, uiQueue, unreported, m_idToInstance, sent, lost>>

Start ==
  /\ main = "start"
  /\ cynara' = "starting"
  /\ main' = "test"
  /\ UNCHANGED <<queueVars, m_stopFlag, cur>>
  /\ LoopUnchanged /\ MainUnchanged

Test ==
  /\ main = "test"
  /\ main' = IF m_stopFlag THEN "finish" ELSE "waiting"
  /\ notified' = FALSE
  /\ UNCHANGED <<m_incomingRequests, m_incomingResponses, cynara, m_stopFlag, cur>>
  /\ LoopUnchanged /\ MainUnchanged

\* wait_for returned, with m_mutex.
Wake ==
  /\ main = "waiting"
  /\ main' = IF m_stopFlag THEN "finish" ELSE "drain"
  /\ notified' = FALSE
  /\ UNCHANGED <<m_incomingRequests, m_incomingResponses, cynara, m_stopFlag, cur>>
  /\ LoopUnchanged /\ MainUnchanged

WakeNotified == notified /\ Wake

\* (mutant) wait() instead of wait_for().
WakeNever == FALSE

\* The wait has no predicate: a signal sent before it is lost and only the
\* timeout of one second ends it.
WakeTimeout == ~notified /\ Wake

PopRequest ==
  /\ main = "drain"
  /\ m_incomingRequests # <<>>
  /\ cur' = Head(m_incomingRequests)
  /\ m_incomingRequests' = Tail(m_incomingRequests)
  /\ main' = "request"
  /\ UNCHANGED <<m_incomingResponses, notified, cynara, m_stopFlag>>
  /\ LoopUnchanged /\ MainUnchanged

\* (mutant) responses are looked at only after a request.
PopResponseAfterRequest ==
  /\ main = "second"
  /\ m_incomingResponses # <<>>
  /\ cur' = Head(m_incomingResponses)
  /\ m_incomingResponses' = Tail(m_incomingResponses)
  /\ main' = "response"
  /\ UNCHANGED <<m_incomingRequests, notified, cynara, m_stopFlag>>
  /\ LoopUnchanged /\ MainUnchanged

PopResponse ==
  /\ main = "second" \/ (main = "drain" /\ m_incomingRequests = <<>>)
  /\ m_incomingResponses # <<>>
  /\ cur' = Head(m_incomingResponses)
  /\ m_incomingResponses' = Tail(m_incomingResponses)
  /\ main' = "response"
  /\ UNCHANGED <<m_incomingRequests, notified, cynara, m_stopFlag>>
  /\ LoopUnchanged /\ MainUnchanged

\* Nothing to pop: after a request the iteration still ends with a clean-up,
\* at the head of the loop the wait starts again.
NothingToPop ==
  /\ m_incomingResponses = <<>>
  /\ \/ main = "second" /\ main' = "cleanup"
     \/ main = "drain" /\ m_incomingRequests = <<>> /\ main' = "test"
  /\ UNCHANGED <<queueVars, cynara, m_stopFlag, cur>>
  /\ LoopUnchanged /\ MainUnchanged

\* lock() after the request.
Relock ==
  /\ main = "relock"
  /\ main' = "second"
  /\ UNCHANGED <<queueVars, cynara, m_stopFlag, cur>>
  /\ LoopUnchanged /\ MainUnchanged

\* NotificationBackend::isDismissing: m_isDismissing is never set.
Dismissing == {}

\* cleanupUIThreads erases the backends being dismissed; then lock().
Cleanup ==
  /\ main = "cleanup"
  /\ m_UIs' = m_UIs \ Dismissing
  /\ m_idToInstance' = m_idToInstance \ Dismissing
  /\ main' = "drain"
  /\ UNCHANGED <<queueVars, cynara, m_stopFlag, cur, m_requests, uiQueue,
                 unreported, sent, lost>>
  /\ MainUnchanged

-----------------------------------------------------------------------------
(* Agent::processCynaraRequest and what it calls.                          *)

\* CynaraTalker::sendResponse; its result is ignored, so a response that finds
\* no connection or that cynara refuses is gone.
SendResponse(type, id, data) ==
  \/ Connected /\ sent' = [sent EXCEPT ![id] = Append(@, [type |-> type, data |-> data])]
  \/ UNCHANGED sent

\* The request or response in hand is done with.
Done(next) == main' = next /\ cur' = Nothing

\* Agent::dismissUI does something only for a backend the agent still has.
DismissUI(next) ==
  IF cur.id \in m_UIs THEN main' = "dismiss" /\ UNCHANGED cur ELSE Done(next)

RequestUnchanged == UNCHANGED <<queueVars, cynara>> /\ MainUnchanged

ProcessClose ==
  /\ main = "request" /\ cur.type = "RT_Close"
  /\ m_stopFlag' = TRUE
  /\ Done("test")
  /\ LoopUnchanged /\ RequestUnchanged

\* (mutant) a cancel is confirmed as if the user had denied the request.
CancelAsDenial ==
  /\ main = "request" /\ cur.type = "RT_Cancel"
  /\ cur.id \in m_requests
  /\ m_requests' = m_requests \ {cur.id}
  /\ SendResponse("RT_Action", cur.id, ResponseData("URT_NO_ONCE"))
  /\ DismissUI("relock")
  /\ UNCHANGED <<m_stopFlag, m_UIs, uiQueue, unreported, m_idToInstance, lost>>
  /\ RequestUnchanged

CancelKnown ==
  /\ main = "request" /\ cur.type = "RT_Cancel"
  /\ cur.id \in m_requests
  /\ m_requests' = m_requests \ {cur.id}
  /\ SendResponse("RT_Cancel", cur.id, Text(NoError))
  /\ DismissUI("relock")
  /\ UNCHANGED <<m_stopFlag, m_UIs, uiQueue, unreported, m_idToInstance, lost>>
  /\ RequestUnchanged

\* A cancel of an unknown request and a request already being processed are dropped.
DropRequest ==
  /\ main = "request"
  /\ \/ cur.type = "RT_Cancel" /\ cur.id \notin m_requests
     \/ cur.type = "RT_Action" /\ cur.id \in m_requests
  /\ Done("relock")
  /\ UNCHANGED m_stopFlag
  /\ LoopUnchanged /\ RequestUnchanged

\* (mutant) a request that is already being processed gets a second backend.
StartUIAgain ==
  /\ main = "request" /\ cur.type = "RT_Action"
  /\ IF m_failed THEN Done("finish") ELSE main' = "inserting" /\ UNCHANGED cur
  /\ UNCHANGED m_stopFlag
  /\ LoopUnchanged /\ RequestUnchanged

\* The constructor of NotificationBackend throws through Agent::run when the
\* notification thread has failed; otherwise start() begins its map insertion.
StartUI ==
  /\ main = "request" /\ cur.type = "RT_Action"
  /\ cur.id \notin m_requests
  /\ IF m_failed THEN Done("finish") ELSE main' = "inserting" /\ UNCHANGED cur
  /\ UNCHANGED m_stopFlag
  /\ LoopUnchanged /\ RequestUnchanged

\* The insertion is complete; start() tests isFailed() once more and throws.
InsertInstance ==
  /\ main = "inserting"
  /\ m_idToInstance' = m_idToInstance \cup {cur.id}
  /\ main' = IF m_failed THEN "unwind" ELSE "submit"
  /\ UNCHANGED <<cur, m_stopFlag, requestVars, uiQueue, unreported, sent, lost>>
  /\ RequestUnchanged

\* The exception destroys the backend that start() was called on.
Unwind ==
  /\ main = "unwind"
  /\ ~InstanceGuardHeld
  /\ m_idToInstance' = m_idToInstance \ {cur.id}
  /\ Done("finish")
  /\ UNCHANGED <<m_stopFlag, requestVars, uiQueue, unreported, sent, lost>>
  /\ RequestUnchanged

\* parseRequest(RT_Action) under m_bfLock, then the two map insertions.  An id
\* that is in the user's queue already is not added.  A failed thread no longer
\* reads its queues: the request may be seen if the thread still walks over them.
Submit ==
  /\ main = "submit"
  /\ ~BfLockHeld
  /\ \/ uiQueue' = [uiQueue EXCEPT ![cur.id] = @ + 1]
     \/ uiQueue[cur.id] > 0 /\ UNCHANGED uiQueue
  /\ \/ /\ ~m_failed
        /\ UNCHANGED <<unreported, lost>>
     \/ /\ Reporting
        /\ unreported' = [unreported EXCEPT ![cur.id] = @ + 1]
        /\ UNCHANGED lost
     \/ /\ m_failed
        /\ lost' = lost \cup {cur.id}
        /\ UNCHANGED unreported
  /\ m_UIs' = m_UIs \cup {cur.id}
  /\ m_requests' = m_requests \cup {cur.id}
  /\ Done("relock")
  /\ UNCHANGED <<m_stopFlag, m_idToInstance, sent>>
  /\ RequestUnchanged

-----------------------------------------------------------------------------
(* Agent::processUIResponse and Agent::dismissUI.                          *)

\* (mutant) the answered request is not erased.
ProcessUIResponseKeeps ==
  /\ main = "response"
  /\ IF cur.id \in m_requests
     THEN SendResponse("RT_Action", cur.id, ResponseData(cur.type))
     ELSE UNCHANGED sent
  /\ DismissUI("cleanup")
  /\ UNCHANGED <<m_stopFlag, m_requests, m_UIs, uiQueue, unreported, m_idToInstance, lost>>
  /\ RequestUnchanged

ProcessUIResponse ==
  /\ main = "response"
  /\ IF cur.id \in m_requests
     THEN /\ SendResponse("RT_Action", cur.id, ResponseData(cur.type))
          /\ m_requests' = m_requests \ {cur.id}
     ELSE UNCHANGED <<sent, m_requests>>
  /\ DismissUI("cleanup")
  /\ UNCHANGED <<m_stopFlag, m_UIs, uiQueue, unreported, m_idToInstance, lost>>
  /\ RequestUnchanged

\* parseRequest(RT_Cancel) under m_bfLock.  removeRequest gives up at the first
\* user whose queue lacks the id, so the request may stay queued; while a
\* failed thread walks over the queues, erasing from them may hide any of the rest.
Dismiss ==
  /\ main = "dismiss"
  /\ ~BfLockHeld
  /\ \E n \in 0 .. uiQueue[cur.id] : uiQueue' = [uiQueue EXCEPT ![cur.id] = n]
  /\ \/ /\ Reporting
        /\ unreported' \in [Ids -> 0 .. MaxAsk]
        /\ \A id \in Ids : unreported'[id] <= unreported[id]
     \/ ~Reporting /\ UNCHANGED unreported
  /\ lost' = lost \cup {id \in Ids : unreported'[id] < unreported[id]}
  /\ main' = "destroy"
  /\ UNCHANGED <<cur, m_stopFlag, requestVars, m_idToInstance, sent>>
  /\ RequestUnchanged

\* Sending the dismiss code fails: the exception ends Agent::run.
DismissThrows ==
  /\ main = "dismiss"
  /\ ~BfLockHeld
  /\ Done("finish")
  /\ UNCHANGED m_stopFlag
  /\ LoopUnchanged /\ RequestUnchanged

\* m_UIs.erase runs ~NotificationBackend.
Destroy ==
  /\ main = "destroy"
  /\ ~InstanceGuardHeld
  /\ m_UIs' = m_UIs \ {cur.id}
  /\ m_idToInstance' = m_idToInstance \ {cur.id}
  /\ Done(IF cur.type = "RT_Cancel" THEN "relock" ELSE "cleanup")
  /\ UNCHANGED <<m_stopFlag, m_requests, uiQueue, unreported, sent, lost>>
  /\ RequestUnchanged

-----------------------------------------------------------------------------
(* Agent::finish, the end of main() and the static destructors.            *)

\* CynaraTalker::stop joins a thread that fulfilled its promise ...
FinishJoin ==
  /\ main = "finish"
  /\ cynara = "finished"
  /\ main' = "joined"
  /\ UNCHANGED <<queueVars, cynara, m_stopFlag, cur>>
  /\ LoopUnchanged /\ MainUnchanged

\* ... and gives up after 10 ms: quick_exit.
FinishTimeout ==
  /\ main = "finish"
  /\ cynara # "finished"
  /\ main' = "exited"
  /\ UNCHANGED <<queueVars, cynara, m_stopFlag, cur>>
  /\ LoopUnchanged /\ MainUnchanged

\* The queued requests are deleted; a backend that cannot be cleaned up means
\* quick_exit, otherwise the remaining requests are deleted and main() returns.
FinishCleanup ==
  /\ main = "joined"
  /\ m_incomingRequests' = <<>>
  /\ IF m_UIs \ Dismissing = {}
     THEN main' = "returned" /\ m_requests' = {}
     ELSE main' = "exited" /\ UNCHANGED m_requests
  /\ UNCHANGED <<m_incomingResponses, notified, cynara, m_stopFlag, cur, m_UIs,
                 uiQueue, unreported, m_idToInstance, sent, lost>>
  /\ MainUnchanged

\* ~NotificationTalker stops its thread and joins it.
StopTalker ==
  /\ \/ main = "returned" /\ main' = "joining"
     \/ main = "joining" /\ talker = "ended" /\ main' = "exited"
  /\ UNCHANGED <<queueVars, cynara, m_stopFlag, cur>>
  /\ LoopUnchanged /\ MainUnchanged

MainLoop ==
  \/ Start \/ Test \/ WakeNotified \/ WakeTimeout
  \/ PopRequest \/ PopResponse \/ NothingToPop \/ Relock \/ Cleanup
  \/ ProcessClose \/ CancelKnown \/ DropRequest \/ StartUI \/ InsertInstance
  \/ ProcessUIResponse

Finish == FinishJoin \/ FinishTimeout \/ FinishCleanup \/ StopTalker

MainThread == MainLoop \/ Unwind \/ Submit \/ Dismiss \/ DismissThrows \/ Destroy \/ Finish

\* SIGTERM: kill_handler sets m_stopFlag.
Terminate ==
  /\ ~m_stopFlag
  /\ main \notin {"finish", "joined", "returned", "joining", "exited"}
  /\ m_stopFlag' = TRUE
  /\ UNCHANGED <<queueVars, cynaraVars, main, cur, uiVars, talkerVars>>
  /\ LoopUnchanged

\* The process is gone.
Exited == ~Alive /\ UNCHANGED vars

Next == MainThread \/ CynaraThread \/ NotificationThread \/ Terminate \/ Exited

Spec == Init /\ [][Next]_vars

(***************************************************************************)
(* Every thread keeps running.  m_bfLock is released and taken again by    *)
(* the notification thread in every iteration, so the main thread gets it  *)
(* only under strong fairness.  The user, cynara, failures and signals     *)
(* are under no obligation.                                                *)
(***************************************************************************)
Fairness ==
  /\ WF_vars(MainLoop) /\ WF_vars(Finish)
  /\ WF_vars(Unwind) /\ WF_vars(Destroy)
  /\ SF_vars(Submit) /\ SF_vars(Dismiss)
  /\ WF_vars(TalkerProgress)
  /\ WF_vars(CynaraFinish)

FairSpec == Spec /\ Fairness

-----------------------------------------------------------------------------
(* Properties.                                                             *)

\* The agent seen from cynara: the open requests are those in m_requests.
Contract == INSTANCE AgentContract WITH open <- m_requests

\* The notification thread seen from the main thread.
Service == INSTANCE NotificationService
             WITH phase <- IF m_failed THEN "failed" ELSE "running",
                  pending <- {id \in Ids : (IF m_failed THEN unreported ELSE uiQueue)[id] > 0},
                  answers <- decided

\* What the main thread has in hand at each point of its loop.
InHandOK ==
  /\ cur \in Requests \cup Responses \cup {Nothing}
  /\ main = "request" => cur \in Requests
  /\ main = "response" => cur \in Responses
  /\ main \in {"inserting", "submit", "unwind"} => cur \in [type : {"RT_Action"}, id : Ids]
  /\ main \in {"dismiss", "destroy"} => cur \in [type : {"RT_Cancel"}, id : Ids] \cup Responses

\* The type of every variable of the three threads, and of what each has in hand.
TypeOK ==
  /\ m_incomingRequests \in Seq(Requests)
  /\ m_incomingResponses \in Seq(Responses)
  /\ m_requests \in SUBSET Ids
  /\ m_UIs \in SUBSET Ids
  /\ m_idToInstance \in SUBSET Ids
  /\ m_stopFlag \in BOOLEAN
  /\ notified \in BOOLEAN
  /\ m_failed \in BOOLEAN
  /\ main \in MainStates
  /\ cynara \in CynaraStates
  /\ talker \in TalkerStates
  /\ InHandOK
  /\ answer \in [id : Ids \cup {NoId}, response : NResponseType]
  /\ talker \in {"answering", "calling"} => answer.id \in Ids
  /\ uiQueue \in [Ids -> Nat]
  /\ unreported \in [Ids -> Nat]
  /\ lost \in SUBSET Ids
  /\ asked \in [Ids -> Nat]
  /\ cancels \in [Ids -> Nat]
  /\ sent \in [Ids -> Seq([type : RequestType, data : AgentData])]
  /\ decided \in [Ids -> SUBSET NResponseType]

\* The three maps agree: every open request has a backend, no id gets a second
\* one, a backend outlives its request only while it is dismissed, and the static
\* map has exactly the backends that exist, those being started or unwound included.
Registry ==
  /\ m_idToInstance = m_UIs \cup (IF main \in {"submit", "unwind"} THEN {cur.id} ELSE {})
  /\ m_requests \subseteq m_UIs
  /\ main \in {"inserting", "submit", "unwind"} => cur.id \notin m_UIs
  /\ main \in {"dismiss", "destroy"} => cur.id \in m_UIs \ m_requests
  /\ \A id \in m_UIs \ m_requests :
       \/ main \in {"finish", "joined", "exited"}
       \/ main \in {"dismiss", "destroy"} /\ id = cur.id
  /\ main \in {"returned", "joining"} => m_UIs = {}

\* Agent::finish takes the normal exit only with m_UIs empty, and a backend
\* leaves m_UIs only together with its entry in m_idToInstance: while the
\* notification thread calls back, the instance it found is registered, and it
\* never calls into an Agent whose destructor has run.
CallbackTargetAlive ==
  talker = "calling" => /\ answer.id \in m_idToInstance
                        /\ main \notin {"returned", "joining"}

\* However answers, cancels, repeated requests and failures interleave, cynara
\* never gets more responses for an id than it made requests with it.
OneResponsePerRequest == \A id \in Ids : Len(sent[id]) <= asked[id]

\* An answer that reaches cynara says what the user decided for the request with
\* this very id (or that the notification thread failed), through both
\* conversions and whatever was cancelled, repeated or answered meanwhile.
AnswersAreTheUsers ==
  \A id \in Ids : \A n \in 1 .. Len(sent[id]) :
    sent[id][n].type = "RT_Action" =>
      \E response \in decided[id] : sent[id][n].data = Contract!Meaning(response)

\* The service plugin reads one policy type out of every answer, and allows the access
\* or keeps a denial for life only if the user has said so of this very id: not after a
\* failure, and not by what either translation makes of one.
GrantsFollowConsent ==
  \A id \in Ids : \A n \in 1 .. Len(sent[id]) :
    sent[id][n].type = "RT_Action" =>
      \E type \in PolicyType :
        /\ dataToAnswer(sent[id][n].data) = {type}
        /\ type \in {ALLOW_ONCE, ALLOW_PER_SESSION, ALLOW_PER_LIFE, PREDEFINED_ALLOW} =>
             "Allow" \in decided[id]
        /\ type = DENY_PER_LIFE => "Never" \in decided[id]

\* Every response between the notification thread and the agent comes from a
\* decision that was taken for its id.
DecidedIn(decisions, response) ==
  \E r \in decisions[response.id] : response.type = UIResponseOf(r)

Provenance ==
  /\ talker \in {"answering", "calling"} => answer.response \in decided[answer.id]
  /\ \A n \in 1 .. Len(m_incomingResponses) : DecidedIn(decided, m_incomingResponses[n])
  /\ main = "response" => DecidedIn(decided, cur)

\* A response for id is on its way from the notification thread to the agent.
OnItsWay(id) ==
  \/ talker \in {"answering", "calling"} /\ answer.id = id
  \/ \E n \in 1 .. Len(m_incomingResponses) : m_incomingResponses[n].id = id
  \/ main = "response" /\ cur.id = id

\* A request the agent is processing is still with the notification thread or
\* its response is on its way, unless one of the named data races took it.
NoForgottenRequest ==
  \A id \in m_requests :
    \/ (IF m_failed THEN unreported[id] ELSE uiQueue[id]) > 0
    \/ OnItsWay(id)
    \/ id \in lost

\* Seen from cynara the three threads together do what AgentContract says: a
\* request is closed by exactly the step that answers it, at most once, and with
\* the answer the user gave to it.
ImplementsContract == Contract!ContractSpec

\* The agent assumes no more of its notification thread than NotificationService
\* promises, which AskUserProtocol implements with sockets and daemons.
AssumesService == Service!ServiceSpec

\* A stop asked for by SIGTERM or by a close request ends the process, although
\* the inner loop of Agent::run does not look at m_stopFlag and the wait may
\* have missed its signal.
StopIsHonoured == m_stopFlag ~> ~Alive

\* A response pushed while the main thread was elsewhere is processed, although
\* its notify_one found nobody waiting.
ResponseIsProcessed ==
  \A id \in Ids :
    (\E n \in 1 .. Len(m_incomingResponses) : m_incomingResponses[n].id = id)
      ~> (id \notin m_requests \/ main \in {"finish", "joined", "exited"})

\* CynaraTalker::stop says "Cynara thread not finished." only of a thread that
\* is still running.
StopFailsOnlyWhileRunning ==
  [][main = "finish" /\ main' = "exited" => cynara \notin {"finished", "aborted"}]_vars
=============================================================================
