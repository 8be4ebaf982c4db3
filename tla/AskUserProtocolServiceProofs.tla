-------------------- MODULE AskUserProtocolServiceProofs ---------------------
(***************************************************************************)
(* The talker with its daemons and sockets is the service that the agent's *)
(* main thread relies on, for any users, connections, ids and bounds.      *)
(***************************************************************************)
EXTENDS AskUserProtocolProofs

-----------------------------------------------------------------------------
(* The ids in the queues.                                                  *)

QueuedIn(requests) == {id \in Ids : \E u \in Users : u \in DOMAIN requests /\ id \in Range(requests[u])}

LEMMA QueuedIsQueuedIn == Queued = QueuedIn(m_requests) /\ Queued' = QueuedIn(m_requests')
BY DEF Queued, IsQueued, QueuedIn

\* parseRequest adds the id, to the queue of a user.
LEMMA AddRequestQueued ==
  ASSUME TalkerInv, NEW u \in Users, NEW id \in Ids, addRequest(u, id)
  PROVE  Queued' = Queued \cup {id}
<1> DEFINE queue == IF IsQueued(id, u) THEN m_requests[u] ELSE Append(QueueOf(u), id)
<1>1. Range(queue) = Range(QueueOf(u)) \cup {id}
  <2>1. QueueOf(u) \in Seq(Ids) /\ IsInjective(QueueOf(u))
    BY QueueOfType DEF TalkerInv
  <2>2. CASE IsQueued(id, u)
    BY <2>2 DEF IsQueued, QueueOf
  <2>3. CASE ~IsQueued(id, u)
    <3>1. id \notin Range(QueueOf(u))
      BY <2>3 DEF IsQueued, QueueOf, Range
    <3>2. QED
      BY <2>1, <2>3, <3>1, AppendToSequence
  <2>4. QED
    BY <2>2, <2>3
<1>2. m_requests' = With(m_requests, u, queue)
  BY DEF addRequest
<1> HIDE DEF queue
<1>3. /\ DOMAIN m_requests' = DOMAIN m_requests \cup {u} /\ m_requests'[u] = queue
      /\ \A v \in DOMAIN m_requests : v # u => m_requests'[v] = m_requests[v]
  BY <1>2 DEF With
<1>4. u \notin DOMAIN m_requests => Range(QueueOf(u)) = {}
  BY DEF QueueOf, Range
<1>5. u \in DOMAIN m_requests => QueueOf(u) = m_requests[u]
  BY DEF QueueOf
<1>6. QueuedIn(m_requests') = QueuedIn(m_requests) \cup {id}
  BY <1>1, <1>3, <1>4, <1>5 DEF QueuedIn
<1>7. QED
  BY <1>6, QueuedIsQueuedIn

\* It takes the id from some queues, and no other id from any.
LEMMA RemoveRequestQueued ==
  ASSUME TalkerInv, NEW id \in Ids, removeRequest(id)
  PROVE  Queued' \in {Queued, Queued \ {id}}
<1>1. /\ DOMAIN m_requests' = DOMAIN m_requests
      /\ \A u \in DOMAIN m_requests :
           m_requests'[u] = IF u \in Reached(id) THEN Erased(m_requests[u], id)
                                                 ELSE m_requests[u]
  BY DEF removeRequest
<1>2. ASSUME NEW u \in DOMAIN m_requests
      PROVE  Range(m_requests'[u]) \in {Range(m_requests[u]), Range(m_requests[u]) \ {id}}
  <2>1. CASE u \in Reached(id)
    <3>1. u \in Nat
      BY UsersAssumption DEF TalkerInv, AreQueues
    <3>2. id \in Range(m_requests[u])
      BY <2>1, <3>1 DEF Reached, IsQueued
    <3>3. m_requests[u] \in Seq(Ids) /\ IsInjective(m_requests[u])
      BY DEF TalkerInv, AreQueues
    <3>4. QED
      BY <1>1, <2>1, <3>2, <3>3, ErasedProperties
  <2>2. CASE u \notin Reached(id)
    BY <1>1, <2>2
  <2>3. QED
    BY <2>1, <2>2
<1>3. QueuedIn(m_requests') \subseteq QueuedIn(m_requests)
  BY <1>1, <1>2 DEF QueuedIn
<1>4. QueuedIn(m_requests) \ {id} \subseteq QueuedIn(m_requests')
  BY <1>1, <1>2 DEF QueuedIn
<1>5. QED
  BY <1>3, <1>4, QueuedIsQueuedIn

\* The loop makes empty queues only.
LEMMA ThenRecvQueued ==
  ASSUME NEW cs, NEW requests, ThenRecv(cs, requests)
  PROVE  Queued' = QueuedIn(requests)
<1>1. CASE cs # {}
  BY <1>1, QueuedIsQueuedIn DEF ThenRecv
<1>2. CASE cs = {}
  <2>1. m_requests' = [u \in DOMAIN requests \cup DOMAIN m_userToFd' |->
                         IF u \in DOMAIN requests THEN requests[u] ELSE <<>>]
    BY <1>2 DEF ThenRecv
  <2>2. Range(<<>>) = {}
    BY DEF Range
  <2>3. QueuedIn(m_requests') = QueuedIn(requests)
    BY <2>1, <2>2 DEF QueuedIn
  <2>4. QED
    BY <2>3, QueuedIsQueuedIn
<1>3. QED
  BY <1>1, <1>2

\* The head of a queue is taken: the id may be in another user's queue too.
LEMMA HeadQueued ==
  ASSUME TalkerInv, NEW u \in Users, NEW id, IsFront(id, u)
  PROVE  /\ id \in Queued
         /\ QueuedIn([m_requests EXCEPT ![u] = Tail(@)]) \in {Queued, Queued \ {id}}
<1> DEFINE rest == [m_requests EXCEPT ![u] = Tail(@)]
<1>1. u \in DOMAIN m_requests /\ m_requests[u] # <<>> /\ id = Head(m_requests[u])
  BY DEF IsFront, QueueOf
<1>2. m_requests[u] \in Seq(Ids) /\ IsInjective(m_requests[u])
  BY <1>1 DEF TalkerInv, AreQueues
<1>3. Range(m_requests[u]) = {id} \cup Range(Tail(m_requests[u])) /\ id \in Ids
  BY <1>1, <1>2, HeadAndTail
<1>4. /\ DOMAIN rest = DOMAIN m_requests /\ rest[u] = Tail(m_requests[u])
      /\ \A v \in DOMAIN m_requests : v # u => rest[v] = m_requests[v]
  BY <1>1
<1> HIDE DEF rest
<1>5. QueuedIn(rest) \subseteq QueuedIn(m_requests)
  BY <1>1, <1>3, <1>4 DEF QueuedIn
<1>6. QueuedIn(m_requests) \ {id} \subseteq QueuedIn(rest)
  BY <1>1, <1>3, <1>4 DEF QueuedIn
<1>7. id \in QueuedIn(m_requests)
  BY <1>1, <1>3 DEF QueuedIn
<1>8. QueuedIn(rest) \in {Queued, Queued \ {id}}
  BY <1>5, <1>6, QueuedIsQueuedIn
<1>9. QED
  BY <1>7, <1>8, QueuedIsQueuedIn DEF rest

LEMMA WithOwnQueue ==
  ASSUME NEW u
  PROVE  QueuedIn(With(m_requests, u, QueueOf(u))) = Queued
<1> DEFINE requests == With(m_requests, u, QueueOf(u))
<1>1. /\ DOMAIN requests = DOMAIN m_requests \cup {u} /\ requests[u] = QueueOf(u)
      /\ \A v \in DOMAIN m_requests : v # u => requests[v] = m_requests[v]
  BY DEF With
<1>2. u \in DOMAIN m_requests => QueueOf(u) = m_requests[u]
  BY DEF QueueOf
<1>3. u \notin DOMAIN m_requests => Range(QueueOf(u)) = {}
  BY DEF QueueOf, Range
<1> HIDE DEF requests
<1>4. QueuedIn(requests) = QueuedIn(m_requests)
  BY <1>1, <1>2, <1>3 DEF QueuedIn
<1>5. QED
  BY <1>4, QueuedIsQueuedIn DEF requests

-----------------------------------------------------------------------------
(* What the agent sees of a step.                                          *)

Gone == {"stopped", "crashed"}
Phase == IF loop \in Gone THEN "stopped" ELSE IF loop = "failed" THEN "failed" ELSE "running"
Pending == IF loop \in Over THEN {} ELSE Queued
GivenTo(id) == {a.type : a \in {b \in taken : b.id = id}}

\* The steps of the loop that hand nothing to the agent keep the queued ids or end
\* the process.
LEMMA QuietSteps ==
  ASSUME TalkerInv,
         \/ Select \/ newConnection
         \/ \E c \in Conns : Disconnected(c) \/ TakesStale(c) \/ sendRequest(c)
  PROVE  /\ UNCHANGED <<asked, taken>> /\ loop \notin Over
         /\ \/ Queued' = Queued /\ loop' \notin Over
            \/ loop' = "crashed"
<1>1. CASE Select
  BY <1>1, ThenRecvQueued, QueuedIsQueuedIn DEF Select, ThenRecv, ThenSend, Over, agentVars
<1>2. CASE newConnection
  BY <1>2, ThenRecvQueued, QueuedIsQueuedIn DEF newConnection, ThenRecv, ThenSend, Over, agentVars
<1>3. ASSUME NEW c \in Conns, Disconnected(c)
      PROVE  /\ UNCHANGED <<asked, taken>> /\ loop \notin Over
             /\ \/ Queued' = Queued /\ loop' \notin Over
                \/ loop' = "crashed"
  BY <1>3, ThenRecvQueued, QueuedIsQueuedIn
     DEF Disconnected, Crash, ThenRecv, ThenSend, Over, agentVars
<1>4. ASSUME NEW c \in Conns, TakesStale(c)
      PROVE  UNCHANGED <<asked, taken>> /\ loop \notin Over /\ Queued' = Queued /\ loop' \notin Over
  <2>1. PICK cs, requests : /\ ThenRecv(cs, requests)
                            /\ requests = With(m_requests, m_fdToUser[c], QueueOf(m_fdToUser[c]))
    BY <1>4 DEF TakesStale
  <2>2. Queued' = Queued
    BY <2>1, ThenRecvQueued, WithOwnQueue
  <2>3. loop' \notin Over
    BY <2>1 DEF ThenRecv, ThenSend, Over
  <2>4. QED
    BY <1>4, <2>2, <2>3 DEF TakesStale, Over, agentVars
<1>5. ASSUME NEW c \in Conns, sendRequest(c)
      PROVE  /\ UNCHANGED <<asked, taken>> /\ loop \notin Over
             /\ \/ Queued' = Queued /\ loop' \notin Over
                \/ loop' = "crashed"
  BY <1>5, QueuedIsQueuedIn DEF sendRequest, Crash, ThenSend, Over, agentVars
<1>6. QED
  BY <1>1, <1>2, <1>3, <1>4, <1>5

\* An answer is given to a request that is pending.
LEMMA TakesAnswerIsAnswer ==
  ASSUME IInv, TalkerInv, NEW c \in Conns, TakesAnswer(c)
  PROVE  \E id \in Ids, response \in NResponse :
           /\ loop \notin Over /\ id \in Queued
           /\ \A i \in Ids : GivenTo(i)' = IF i = id THEN GivenTo(i) \cup {response} ELSE GivenTo(i)
           /\ asked' = [asked EXCEPT ![id] = IF @ = "asked" THEN "answered" ELSE @]
           /\ \/ Queued' \in {Queued, Queued \ {id}} /\ loop' \notin Over
              \/ loop' = "crashed"
<1> DEFINE u == m_fdToUser[c]
           m == Head(toAgent[c])
           rest == [m_requests EXCEPT ![u] = Tail(@)]
<1>1. /\ loop = "recv" /\ c \in todo /\ toAgent[c] # <<>> /\ IsFront(m.id, u)
      /\ taken' = taken \cup {[user |-> u, id |-> m.id, type |-> m.type]}
      /\ asked' = [asked EXCEPT ![m.id] = IF @ = "asked" THEN "answered" ELSE @]
  BY DEF TakesAnswer
<1>2. u \in Users /\ m \in Responses
  BY <1>1 DEF IInv, LoopServes, MapsInv, MapsTyped, TalkerInv, StreamsTyped
<1>3. m.id \in Ids /\ m.type \in NResponse
  BY <1>2 DEF Responses
<1>4. m.id \in Queued /\ QueuedIn(rest) \in {Queued, Queued \ {m.id}}
  BY <1>1, <1>2, HeadQueued
<1>5. \A i \in Ids : GivenTo(i)' = IF i = m.id THEN GivenTo(i) \cup {m.type} ELSE GivenTo(i)
  <2> DEFINE new == [user |-> u, id |-> m.id, type |-> m.type]
  <2>1. new.id = m.id /\ new.type = m.type /\ taken' = taken \cup {new}
    BY <1>1
  <2> HIDE DEF new, m, u
  <2>2. QED
    BY <2>1 DEF GivenTo
<1>6. loop' = "crashed" \/ \E cs : ThenRecv(cs, rest)
  BY DEF TakesAnswer, Crash
<1> HIDE DEF u, m, rest
<1>7. \/ Queued' \in {Queued, Queued \ {m.id}} /\ loop' \notin Over
      \/ loop' = "crashed"
  <2>1. ASSUME NEW cs, ThenRecv(cs, rest)
        PROVE  Queued' \in {Queued, Queued \ {m.id}} /\ loop' \notin Over
    <3>1. Queued' = QueuedIn(rest)
      BY <2>1, ThenRecvQueued
    <3>2. loop' \notin Over
      BY <2>1 DEF ThenRecv, ThenSend, Over
    <3>3. QED
      BY <1>4, <3>1, <3>2
  <2>2. QED
    BY <1>6, <2>1
<1>8. loop \notin Over
  BY <1>1 DEF Over
<1>9. QED
  BY <1>1, <1>3, <1>4, <1>5, <1>7, <1>8

\* A loop that fails reports what is queued.
LEMMA FailsReports ==
  ASSUME TalkerInv, Fails
  PROVE  /\ loop \notin Over /\ loop' = "failed" /\ Queued' = Queued
         /\ \A id \in Ids : /\ GivenTo(id)' = IF id \in Queued THEN GivenTo(id) \cup {"Error"}
                                                             ELSE GivenTo(id)
                            /\ asked'[id] = "asked" => asked[id] = "asked" /\ id \notin Queued
<1>1. /\ loop \notin Over /\ loop' = "failed" /\ UNCHANGED m_requests
      /\ asked' = [id \in Ids |-> IF id \in Queued /\ asked[id] = "asked" THEN "answered"
                                                                       ELSE asked[id]]
      /\ taken' = taken \cup {a \in Answers : a.type = "Error" /\ IsQueued(a.id, a.user)}
  BY DEF Fails
<1>2. ASSUME NEW id \in Ids
      PROVE  GivenTo(id)' = IF id \in Queued THEN GivenTo(id) \cup {"Error"} ELSE GivenTo(id)
  <2>1. CASE id \in Queued
    <3>1. PICK u \in Users : IsQueued(id, u)
      BY <2>1 DEF Queued
    <3>2. [user |-> u, id |-> id, type |-> "Error"] \in taken'
      BY <1>1, <3>1 DEF Answers, NResponse
    <3>3. "Error" \in GivenTo(id)'
      BY <3>2 DEF GivenTo
    <3>4. QED
      BY <1>1, <2>1, <3>3 DEF GivenTo
  <2>2. CASE id \notin Queued
    <3>1. \A a \in Answers : IsQueued(a.id, a.user) => a.id # id
      BY <2>2 DEF Queued, Answers
    <3>2. QED
      BY <1>1, <2>2, <3>1 DEF GivenTo
  <2>3. QED
    BY <2>1, <2>2
<1>3. Queued' = Queued
  BY <1>1, QueuedIsQueuedIn
<1>4. QED
  BY <1>1, <1>2, <1>3

\* Nothing else is visible: the daemons are on their own.
LEMMA DaemonQuiet ==
  ASSUME UNCHANGED talkerVars
  PROVE  /\ UNCHANGED <<loop, asked, taken>> /\ Queued' = Queued
         /\ \A id : GivenTo(id)' = GivenTo(id)
<1>1. UNCHANGED <<loop, asked, taken, m_requests>>
  BY DEF talkerVars
<1>2. QED
  BY <1>1, QueuedIsQueuedIn DEF GivenTo

\* The steps of the loop.
LoopStep ==
  \/ Select \/ newConnection
  \/ \E c \in Conns : Disconnected(c) \/ TakesStale(c) \/ sendRequest(c)

\* A step is one of these.
LEMMA StepCases ==
  ASSUME [Next]_vars
  PROVE  \/ UNCHANGED talkerVars
         \/ \E u \in Users, id \in Ids : addRequest(u, id)
         \/ \E id \in Ids : removeRequest(id)
         \/ stop \/ Stopped \/ Fails \/ LoopStep
         \/ \E c \in Conns : TakesAnswer(c)
<1>1. CASE UNCHANGED vars
  BY <1>1 DEF vars
<1>2. CASE Next
  BY <1>2 DEF Next, LoopStep
<1>3. QED
  BY <1>1, <1>2

-----------------------------------------------------------------------------
(* Nothing is lost.                                                        *)

LEMMA NothingLostStep ==
  ASSUME IInv, TalkerInv, NothingLost, [Next]_vars
  PROVE  NothingLost'
<1>1. CASE UNCHANGED talkerVars
  BY <1>1, DaemonQuiet DEF NothingLost
<1>2. CASE \E u \in Users, id \in Ids : addRequest(u, id)
  <2>1. PICK u \in Users, id \in Ids : addRequest(u, id)
    BY <1>2
  <2>2. Queued' = Queued \cup {id}
    BY <2>1, AddRequestQueued
  <2>3. loop = "idle" /\ \A i \in Ids : asked'[i] = "asked" => i = id \/ asked[i] = "asked"
    BY <2>1 DEF addRequest, TalkerInv, TalkerTyped
  <2>4. QED
    BY <2>2, <2>3 DEF NothingLost
<1>3. CASE \E id \in Ids : removeRequest(id)
  <2>1. PICK id \in Ids : removeRequest(id)
    BY <1>3
  <2>2. Queued' \in {Queued, Queued \ {id}}
    BY <2>1, RemoveRequestQueued
  <2>3. loop = "idle" /\ \A i \in Ids : asked'[i] = "asked" => i # id /\ asked[i] = "asked"
    BY <2>1 DEF removeRequest, TalkerInv, TalkerTyped
  <2>4. QED
    BY <2>2, <2>3 DEF NothingLost
<1>4. CASE stop
  BY <1>4, QueuedIsQueuedIn DEF stop, agentVars, NothingLost
<1>5. CASE Stopped
  BY <1>5 DEF Stopped, NothingLost
<1>6. CASE Fails
  BY <1>6, FailsReports DEF NothingLost, Over
<1>7. CASE LoopStep
  BY <1>7, QuietSteps DEF LoopStep, NothingLost, Over
<1>8. CASE \E c \in Conns : TakesAnswer(c)
  <2>1. PICK id \in Ids :
           /\ loop \notin Over
           /\ asked' = [asked EXCEPT ![id] = IF @ = "asked" THEN "answered" ELSE @]
           /\ \/ Queued' \in {Queued, Queued \ {id}}
              \/ loop' = "crashed"
    BY <1>8, TakesAnswerIsAnswer
  <2>2. \A i \in Ids : asked'[i] = "asked" => i # id /\ asked[i] = "asked"
    BY <2>1 DEF TalkerInv, TalkerTyped
  <2>3. QED
    BY <2>1, <2>2 DEF NothingLost, Over
<1>9. QED
  BY <1>1, <1>2, <1>3, <1>4, <1>5, <1>6, <1>7, <1>8, StepCases

\* A request the agent waits for is in a queue, whatever the daemons do and however
\* often their connections break: the talker forgets none.
THEOREM NothingIsLost == Spec => []NothingLost
<1>1. Init => NothingLost
  BY DEF Init, TalkerInit, NothingLost
<1>2. IInv /\ TInv /\ NothingLost /\ [Next]_vars => NothingLost'
  BY NothingLostStep DEF TInv
<1>3. QED
  BY <1>1, <1>2, TypedInvariance, PTL DEF Spec

-----------------------------------------------------------------------------
(* The service.                                                            *)

LEMMA ServiceStep ==
  ASSUME IInv, TalkerInv, [Next]_vars
  PROVE  [Service!ServiceNext]_(Service!serviceVars)
<1>1. CASE /\ UNCHANGED <<loop, taken>> \/ (loop \notin Over /\ loop' \notin Over /\ taken' = taken)
           /\ Queued' = Queued
  BY <1>1 DEF Service!serviceVars, Over
<1>2. CASE loop' \in Gone /\ taken' = taken
  BY <1>2 DEF Service!ServiceNext, Service!Stop, Gone, Over
<1>3. CASE \E u \in Users, id \in Ids : addRequest(u, id)
  <2>1. PICK u \in Users, id \in Ids : addRequest(u, id)
    BY <1>3
  <2>2. Queued' = Queued \cup {id}
    BY <2>1, AddRequestQueued
  <2>3. Service!Ask(id)
    BY <2>1, <2>2 DEF Service!Ask, addRequest, Over
  <2>4. QED
    BY <2>3 DEF Service!ServiceNext
<1>4. CASE \E id \in Ids : removeRequest(id)
  <2>1. PICK id \in Ids : removeRequest(id)
    BY <1>4
  <2>2. Queued' \in {Queued, Queued \ {id}}
    BY <2>1, RemoveRequestQueued
  <2>3. Service!TakeBack(id)
    BY <2>1, <2>2 DEF Service!TakeBack, removeRequest, Over
  <2>4. QED
    BY <2>3 DEF Service!ServiceNext
<1>5. CASE Fails
  <2>1. /\ loop \notin Over /\ loop' = "failed" /\ Queued \subseteq Ids
        /\ \A id \in Ids : GivenTo(id)' = IF id \in Queued THEN GivenTo(id) \cup {"Error"}
                                                          ELSE GivenTo(id)
    BY <1>5, FailsReports DEF Queued
  <2>2. PICK ids \in SUBSET Ids : ids = Queued
    BY <2>1
  <2>3. Service!Given(ids, "Error")
    BY <2>1, <2>2 DEF Service!Given, GivenTo
  <2>4. Service!Fail(ids)
    BY <2>1, <2>2, <2>3 DEF Service!Fail, Over
  <2>5. QED
    BY <2>4 DEF Service!ServiceNext
<1>6. CASE \E c \in Conns : TakesAnswer(c)
  <2>1. PICK id \in Ids, response \in NResponse :
           /\ loop \notin Over /\ id \in Queued
           /\ \A i \in Ids : GivenTo(i)' = IF i = id THEN GivenTo(i) \cup {response} ELSE GivenTo(i)
           /\ \/ Queued' \in {Queued, Queued \ {id}} /\ loop' \notin Over
              \/ loop' = "crashed"
    BY <1>6, TakesAnswerIsAnswer
  <2>2. Service!Given({id}, response)
    BY <2>1 DEF Service!Given, GivenTo
  <2>3. response \in Service!NResponseType
    BY <2>1 DEF NResponse, Service!NResponseType
  <2>4. Service!Answer(id, response)
    BY <2>1, <2>2 DEF Service!Answer, Over
  <2>5. QED
    BY <2>3, <2>4 DEF Service!ServiceNext
<1>7. CASE UNCHANGED talkerVars
  BY <1>1, <1>7, DaemonQuiet
<1>8. CASE stop
  <2>1. UNCHANGED <<loop, taken>> /\ Queued' = Queued
    BY <1>8, QueuedIsQueuedIn DEF stop
  <2>2. QED
    BY <1>1, <2>1
<1>9. CASE Stopped
  BY <1>2, <1>9 DEF Stopped, Gone
<1>10. CASE LoopStep
  BY <1>1, <1>2, <1>10, QuietSteps DEF LoopStep, Gone
<1>11. QED
  BY <1>3, <1>4, <1>5, <1>6, <1>7, <1>8, <1>9, <1>10, StepCases

\* The talker, with its daemons and however their connections break, does what the
\* agent relies on: it answers only what it was asked, with what a user or an error
\* said, and drops a request only by an answer, a cancellation or its own end.
THEOREM TalkerImplementsService == Spec => ImplementsService
<1>1. Init => Service!ServiceInit
  <2>1. SUFFICES ASSUME Init PROVE Service!ServiceInit
    OBVIOUS
  <2>2. loop = "idle" /\ taken = {} /\ DOMAIN m_requests = {}
    BY <2>1 DEF Init, TalkerInit, EmptyMap
  <2>3. Queued = {}
    BY <2>2 DEF Queued, IsQueued
  <2>4. QED
    BY <2>2, <2>3 DEF Service!ServiceInit, Over
<1>2. IInv /\ TInv /\ [Next]_vars => [Service!ServiceNext]_(Service!serviceVars)
  BY ServiceStep DEF TInv
<1>3. QED
  BY <1>1, <1>2, TypedInvariance, PTL DEF Spec, ImplementsService, Service!ServiceSpec
=============================================================================
