------------------------- MODULE NotificationTalker -------------------------
(***************************************************************************)
(* src/agent/main/NotificationTalker.cpp: the queue of requests of every   *)
(* user, the connections of the notification daemons and the loop that     *)
(* serves them.  An iteration of the loop holds m_bfLock from before its   *)
(* select to its end, so that parseRequest, called by the agent's main     *)
(* thread, runs between iterations only; the daemons run at any time.      *)
(***************************************************************************)
EXTENDS Sockets, Functions

CONSTANTS MaxAdd     \* bound: the requests the agent adds

ASSUME MaxAddAssumption == MaxAdd \in Nat

VARIABLES
  loop,        \* where the thread is
  todo,        \* descriptors the range-for of this iteration has yet to serve
  m_requests, m_userToFd, m_fdToUser, m_fdStatus, m_stopflag,
  asked,       \* the agent's view of each id: "free", "asked" or "answered"
  added,       \* requests added so far
  taken        \* history: answers handed to m_responseHandler

talkerVars == <<loop, todo, m_requests, m_userToFd, m_fdToUser, m_fdStatus,
                m_stopflag, asked, added, taken>>

connectionVars == <<m_userToFd, m_fdToUser, m_fdStatus>>
agentVars == <<asked, added>>

Over == {"failed", "stopped", "crashed"}
Answers == [user : Users, id : Ids, type : NResponse]
\* The maps of the standard library: the empty map and an assignment to map[x].
EmptyMap == [x \in {} |-> x]
With(map, x, value) == [y \in DOMAIN map \cup {x} |-> IF y = x THEN value ELSE map[y]]

PartialFunctions(S, T) == UNION {[D -> T] : D \in SUBSET S}

TalkerTypeOK ==
  /\ loop \in {"idle", "accept", "recv", "send"} \cup Over
  /\ todo \subseteq Conns
  /\ DOMAIN m_requests \subseteq Users
  /\ \A u \in DOMAIN m_requests : m_requests[u] \in Seq(Ids)
  /\ m_userToFd \in PartialFunctions(Users, Conns)
  /\ m_fdToUser \in PartialFunctions(Conns, Users)
  /\ m_fdStatus \in PartialFunctions(Conns, BOOLEAN)
  /\ m_stopflag \in BOOLEAN
  /\ asked \in [Ids -> {"free", "asked", "answered"}]
  /\ added \in 0..MaxAdd
  /\ taken \subseteq Answers

TalkerInit ==
  /\ loop = "idle"
  /\ todo = {}
  /\ m_requests = EmptyMap /\ m_userToFd = EmptyMap
  /\ m_fdToUser = EmptyMap /\ m_fdStatus = EmptyMap
  /\ m_stopflag = FALSE
  /\ asked = [id \in Ids |-> "free"]
  /\ added = 0
  /\ taken = {}

QueueOf(u) == IF u \in DOMAIN m_requests THEN m_requests[u] ELSE <<>>
\* (mutant) any answer is taken for the one to the request at the front.
IsFrontOfAny(id, u) == QueueOf(u) # <<>>

IsFront(id, u) == QueueOf(u) # <<>> /\ Head(QueueOf(u)) = id
IsQueued(id, u) == u \in DOMAIN m_requests /\ id \in Range(m_requests[u])
Queued == {id \in Ids : \E u \in Users : IsQueued(id, u)}

\* remove: the descriptors cs are closed and forgotten.
Removed(cs) ==
  /\ m_userToFd' = Restrict(m_userToFd, DOMAIN m_userToFd \ {m_fdToUser[c] : c \in cs})
  /\ m_fdToUser' = Restrict(m_fdToUser, DOMAIN m_fdToUser \ cs)
  /\ m_fdStatus' = Restrict(m_fdStatus, DOMAIN m_fdStatus \ cs)
  /\ AgentCloses(cs)

\* clear, and what the kernel does with the sockets of a process that is gone.
AllClosed ==
  /\ m_userToFd' = EmptyMap /\ m_fdToUser' = EmptyMap /\ m_fdStatus' = EmptyMap
  /\ AgentCloses(Conns)
  /\ backlog' = <<>>
  /\ listening' = FALSE
  /\ UNCHANGED <<owner, toGui>>

-----------------------------------------------------------------------------
(* parseRequest, by the agent's main thread.                               *)

\* (mutant) the queue is not searched for the id.
addRequestAgain(u, id) ==
  /\ loop = "idle"
  /\ asked[id] = "free" /\ added < MaxAdd
  /\ m_requests' = With(m_requests, u, Append(QueueOf(u), id))
  /\ asked' = [asked EXCEPT ![id] = "asked"]
  /\ added' = added + 1
  /\ UNCHANGED <<socketVars, connectionVars, loop, todo, m_stopflag, taken>>

\* addRequest: m_requests[user] makes the entry of a new user; an id that is in
\* the queue already is not added again.
addRequest(u, id) ==
  /\ loop = "idle"
  /\ asked[id] = "free" /\ added < MaxAdd
  /\ m_requests' = With(m_requests, u, IF IsQueued(id, u) THEN m_requests[u]
                                                           ELSE Append(QueueOf(u), id))
  /\ asked' = [asked EXCEPT ![id] = "asked"]
  /\ added' = added + 1
  /\ UNCHANGED <<socketVars, connectionVars, loop, todo, m_stopflag, taken>>

\* (mutant) the front of the queue is erased, not the element found.
ErasedFirst(queue, id) == Tail(queue)

\* queue.erase of the element found.
Erased(queue, id) ==
  LET it == CHOOSE n \in DOMAIN queue : queue[n] = id
  IN [n \in 1 .. Len(queue) - 1 |-> IF n < it THEN queue[n] ELSE queue[n + 1]]

\* The users removeRequest gets to: it returns at the first one, in the order
\* of the map, whose queue lacks the id.
Reached(id) ==
  {u \in DOMAIN m_requests : \A v \in DOMAIN m_requests : v <= u => IsQueued(id, v)}

\* (mutant) the test of m_fdStatus is the wrong way round.
ToDismissIdle(id) ==
  {m_userToFd[u] : u \in {v \in Reached(id) \cap DOMAIN m_userToFd :
                            /\ Head(m_requests[v]) = id
                            /\ m_fdStatus[m_userToFd[v]]}}

\* A popup that shows the request and waits for its answer is to be dismissed.
ToDismiss(id) ==
  {m_userToFd[u] : u \in {v \in Reached(id) \cap DOMAIN m_userToFd :
                            /\ Head(m_requests[v]) = id
                            /\ ~m_fdStatus[m_userToFd[v]]}}

\* (mutant) a dismissed connection stays marked as busy.
removeRequestKeepsStatus(id) ==
  LET dismissed == {c \in ToDismiss(id) : "gui" \in ends[c]}
      broken == ToDismiss(id) \ dismissed
  IN /\ loop = "idle"
     /\ asked[id] # "free"
     /\ m_requests' = [u \in DOMAIN m_requests |->
                         IF u \in Reached(id)
                         THEN Erased(m_requests[u], id)
                         ELSE m_requests[u]]
     /\ toGui' = [c \in Conns |-> IF c \in dismissed THEN Append(toGui[c], Dismissal)
                                                     ELSE toGui[c]]
     /\ m_userToFd' = Restrict(m_userToFd,
                               DOMAIN m_userToFd \ {m_fdToUser[c] : c \in broken})
     /\ m_fdToUser' = Restrict(m_fdToUser, DOMAIN m_fdToUser \ broken)
     /\ m_fdStatus' = Restrict(m_fdStatus, DOMAIN m_fdStatus \ broken)
     /\ AgentCloses(broken)
     /\ asked' = [asked EXCEPT ![id] = "free"]
     /\ UNCHANGED <<owner, backlog, listening, loop, todo, m_stopflag, added, taken>>

removeRequest(id) ==
  LET dismissed == {c \in ToDismiss(id) : "gui" \in ends[c]}
      broken == ToDismiss(id) \ dismissed
  IN /\ loop = "idle"
     /\ asked[id] # "free"
     /\ m_requests' = [u \in DOMAIN m_requests |->
                         IF u \in Reached(id)
                         THEN Erased(m_requests[u], id)
                         ELSE m_requests[u]]
     /\ toGui' = [c \in Conns |-> IF c \in dismissed THEN Append(toGui[c], Dismissal)
                                                     ELSE toGui[c]]
     /\ m_userToFd' = Restrict(m_userToFd,
                               DOMAIN m_userToFd \ {m_fdToUser[c] : c \in broken})
     /\ m_fdToUser' = Restrict(m_fdToUser, DOMAIN m_fdToUser \ broken)
     /\ m_fdStatus' = [c \in DOMAIN m_fdStatus \ broken |->
                         m_fdStatus[c] \/ c \in dismissed]
     /\ AgentCloses(broken)
     /\ asked' = [asked EXCEPT ![id] = "free"]
     /\ UNCHANGED <<owner, backlog, listening, loop, todo, m_stopflag, added, taken>>

\* The destructor, or RT_Close.
stop ==
  /\ loop \notin {"stopped", "crashed"} /\ ~m_stopflag
  /\ m_stopflag' = TRUE
  /\ UNCHANGED <<socketVars, connectionVars, loop, todo, m_requests, agentVars, taken>>

-----------------------------------------------------------------------------
(* run                                                                     *)

\* What the send loop will send to: m_requests[user] makes an entry for every
\* user it looks up, m_bfLock keeps the queues as they are.
Sendable == {c \in DOMAIN m_fdStatus' : m_fdStatus'[c] /\ m_requests'[m_fdToUser'[c]] # <<>>}

ThenSend(cs) ==
  IF cs # {} THEN loop' = "send" /\ todo' = cs ELSE loop' = "idle" /\ todo' = {}

\* On with recvResponses, for the descriptors cs, or with the send loop.
\* "requests" is m_requests without the entries that loop is going to make.
ThenRecv(cs, requests) ==
  IF cs # {}
  THEN loop' = "recv" /\ todo' = cs /\ m_requests' = requests
  ELSE /\ m_requests' = [u \in DOMAIN requests \cup DOMAIN m_userToFd' |->
                           IF u \in DOMAIN requests THEN requests[u] ELSE <<>>]
       /\ ThenSend(Sendable)

\* The range-for whose current element was erased: the iterator it increments
\* is invalid.  It may go on, miss any of what is left, or crash the process.
Crash == loop' = "crashed" /\ todo' = {} /\ UNCHANGED m_requests /\ AllClosed

Select ==
  /\ loop = "idle" /\ ~m_stopflag
  /\ LET ready == {c \in DOMAIN m_fdToUser : ReadableByAgent(c)}
     IN IF backlog # <<>>
        THEN loop' = "accept" /\ todo' = ready /\ UNCHANGED <<m_requests, connectionVars>>
        ELSE UNCHANGED connectionVars /\ ThenRecv(ready, m_requests)
  /\ UNCHANGED <<socketVars, m_stopflag, agentVars, taken>>

\* The loop has ended at its top, has called clear(), or had failed before; the
\* destructor closes what is left.
Stopped ==
  /\ loop \in {"idle", "failed"} /\ m_stopflag
  /\ loop' = "stopped"
  /\ AllClosed
  /\ UNCHANGED <<todo, m_requests, m_stopflag, agentVars, taken>>

\* (mutant) the connection a user had before is not removed.
newConnectionKeepsOld ==
  /\ loop = "accept"
  /\ LET c == Head(backlog)
         u == owner[c]
     IN /\ m_userToFd' = With(m_userToFd, u, c)
        /\ m_fdToUser' = With(m_fdToUser, c, u)
        /\ m_fdStatus' = With(m_fdStatus, c, TRUE)
        /\ UNCHANGED <<ends, toAgent>>
  /\ backlog' = Tail(backlog)
  /\ ThenRecv(todo \cap DOMAIN m_fdToUser', m_requests)
  /\ UNCHANGED <<owner, toGui, listening, m_stopflag, agentVars, taken>>

newConnection ==
  /\ loop = "accept"
  /\ LET c == Head(backlog)
         u == owner[c]
         old == {m_userToFd[v] : v \in {u} \cap DOMAIN m_userToFd}
     IN /\ m_userToFd' = With(m_userToFd, u, c)
        /\ m_fdToUser' = With(Restrict(m_fdToUser, DOMAIN m_fdToUser \ old), c, u)
        /\ m_fdStatus' = With(Restrict(m_fdStatus, DOMAIN m_fdStatus \ old), c, TRUE)
        /\ AgentCloses(old)
  /\ backlog' = Tail(backlog)
  /\ ThenRecv(todo \cap DOMAIN m_fdToUser', m_requests)
  /\ UNCHANGED <<owner, toGui, listening, m_stopflag, agentVars, taken>>

\* recvResponses finds the end of the stream.
Disconnected(c) ==
  /\ loop = "recv" /\ c \in todo
  /\ EndOfStreamForAgent(c)
  /\ \/ /\ Removed({c})
        /\ \E cs \in SUBSET (todo \ {c}) : ThenRecv(cs, m_requests)
        /\ UNCHANGED <<owner, toGui, backlog, listening>>
     \/ Crash
  /\ UNCHANGED <<m_stopflag, agentVars, taken>>

\* recvResponses and parseResponse, of an answer to a request that is not at the
\* front of the user's queue any more.
TakesStale(c) ==
  LET u == m_fdToUser[c]
  IN /\ loop = "recv" /\ c \in todo
     /\ toAgent[c] # <<>>
     /\ ~IsFront(Head(toAgent[c]).id, u)
     /\ toAgent' = [toAgent EXCEPT ![c] = Tail(@)]
     /\ m_fdStatus' = [m_fdStatus EXCEPT ![c] = TRUE]
     /\ UNCHANGED <<m_userToFd, m_fdToUser>>
     /\ ThenRecv(todo \ {c}, With(m_requests, u, QueueOf(u)))
     /\ UNCHANGED <<ends, owner, toGui, backlog, listening, m_stopflag, agentVars, taken>>

\* parseResponse, of the answer to the request at the front of the queue: the
\* handler gets it, then it is acknowledged, unless the daemon is gone.
TakesAnswer(c) ==
  LET u == m_fdToUser[c]
      m == Head(toAgent[c])
      rest == [m_requests EXCEPT ![u] = Tail(@)]
  IN /\ loop = "recv" /\ c \in todo
     /\ toAgent[c] # <<>>
     /\ IsFront(m.id, u)
     /\ taken' = taken \cup {[user |-> u, id |-> m.id, type |-> m.type]}
     /\ asked' = [asked EXCEPT ![m.id] = IF @ = "asked" THEN "answered" ELSE @]
     /\ \/ /\ "gui" \in ends[c]
           /\ toGui' = [toGui EXCEPT ![c] = Append(@, Ack)]
           /\ toAgent' = [toAgent EXCEPT ![c] = Tail(@)]
           /\ m_fdStatus' = [m_fdStatus EXCEPT ![c] = TRUE]
           /\ UNCHANGED <<m_userToFd, m_fdToUser, ends, owner, backlog, listening>>
           /\ ThenRecv(todo \ {c}, rest)
        \/ /\ "gui" \notin ends[c]
           /\ Removed({c})
           /\ \E cs \in SUBSET (todo \ {c}) : ThenRecv(cs, rest)
           /\ UNCHANGED <<owner, toGui, backlog, listening>>
        \/ "gui" \notin ends[c] /\ Crash
     /\ UNCHANGED <<m_stopflag, added>>

\* The send loop and sendRequest.
sendRequest(c) ==
  /\ loop = "send" /\ c \in todo
  /\ \/ /\ "gui" \in ends[c]
        /\ toGui' = [toGui EXCEPT ![c] = Append(@, Request(Head(m_requests[m_fdToUser[c]])))]
        /\ m_fdStatus' = [m_fdStatus EXCEPT ![c] = FALSE]
        /\ ThenSend(todo \ {c})
        /\ UNCHANGED <<ends, owner, toAgent, backlog, listening, m_requests,
                       m_userToFd, m_fdToUser>>
     \/ /\ "gui" \notin ends[c]
        /\ Removed({c})
        /\ \E cs \in SUBSET (todo \ {c}) : ThenSend(cs)
        /\ UNCHANGED <<owner, toGui, backlog, listening, m_requests>>
     \/ "gui" \notin ends[c] /\ Crash
  /\ UNCHANGED <<m_stopflag, agentVars, taken>>

\* An exception in the loop (select, accept, recv, send or the credentials of a
\* new connection, which is then closed): m_failed, and every request that is
\* queued is reported to m_responseHandler.  The connections stay open.
Fails ==
  /\ loop \notin Over
  /\ loop' = "failed" /\ todo' = {}
  /\ asked' = [id \in Ids |-> IF id \in Queued /\ asked[id] = "asked" THEN "answered"
                                                                     ELSE asked[id]]
  /\ taken' = taken \cup {a \in Answers : a.type = "Error" /\ IsQueued(a.id, a.user)}
  /\ \/ UNCHANGED socketVars
     \/ /\ loop = "accept"
        /\ AgentCloses({Head(backlog)})
        /\ backlog' = Tail(backlog)
        /\ UNCHANGED <<owner, toGui, listening>>
  /\ UNCHANGED <<connectionVars, m_requests, m_stopflag, added>>

\* The thread itself, when it can go on.
TalkerProgress ==
  \/ Select \/ Stopped \/ newConnection
  \/ \E c \in Conns : Disconnected(c) \/ TakesStale(c) \/ TakesAnswer(c) \/ sendRequest(c)
=============================================================================
