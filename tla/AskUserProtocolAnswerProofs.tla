-------------------- MODULE AskUserProtocolAnswerProofs ---------------------
(***************************************************************************)
(* Whose answers the agent gets, and that a connection marked as busy has  *)
(* an answer coming: proofs for any users, connections, ids and bounds.  A *)
(* step of the agent is first reduced to what it does to one connection, a *)
(* step of a daemon to what it does to its own; the invariants are then    *)
(* shown once for each kind of step.                                       *)
(***************************************************************************)
EXTENDS AskUserProtocolProofs

-----------------------------------------------------------------------------
(* The invariants.                                                         *)

\* A daemon that runs has the only open daemon's end its user owns.
DaemonsConnected ==
  /\ \A u \in Users :
       daemon[u] # "down" => owner[sockfd[u]] = u /\ "gui" \in ends[sockfd[u]]
  /\ \A c \in Conns :
       "gui" \in ends[c] => daemon[owner[c]] # "down" /\ sockfd[owner[c]] = c

\* Nothing is left unread at an end that is closed.
ClosedIsDropped ==
  \A c \in Conns : /\ "agent" \notin ends[c] => toAgent[c] = <<>>
                   /\ "gui" \notin ends[c] => toGui[c] = <<>>

\* The agent has the right user for each descriptor.
OwnersKnown == \A c \in DOMAIN m_fdToUser : m_fdToUser[c] = owner[c]

EndsInv == DaemonsConnected /\ ClosedIsDropped /\ OwnersKnown

\* An answer is an error or a button that this user pressed for this request.
Clicked(u, id, t) == t = "Error" \/ [user |-> u, id |-> id, type |-> t] \in clicks

\* So it is in the daemon's hand, on the way and at the agent.
FromClicks ==
  /\ \A u \in Users : type[u] = "None" \/ Clicked(u, request[u], type[u])
  /\ \A c \in Conns : \A i \in DOMAIN toAgent[c] :
       Clicked(owner[c], toAgent[c][i].id, toAgent[c][i].type)
  /\ \A a \in taken : Clicked(a.user, a.id, a.type)

EndsInRequest(q) == q[Len(q)].kind \in {"request", "rest"}

\* A connection marked as busy whose daemon runs: the last thing sent is a request,
\* which is on its way, in the daemon's hand, or answered.
AnswerComing(c) ==
  c \in DOMAIN m_fdStatus /\ ~m_fdStatus[c] /\ "gui" \in ends[c] =>
    IF toGui[c] # <<>> THEN EndsInRequest(toGui[c])
    ELSE \/ daemon[owner[c]] \in {"popup", "sending"}
         \/ daemon[owner[c]] = "closing" /\ type[owner[c]] # "None"
         \/ toAgent[c] # <<>>

AnswersCome == \A c \in Conns : AnswerComing(c)

PInv == EndsInv /\ FromClicks /\ AnswersCome

-----------------------------------------------------------------------------
(* Steps of the agent.                                                     *)

Busy(c) == c \in DOMAIN m_fdStatus /\ ~m_fdStatus[c]

Sent(c, x) == "gui" \in ends[c] /\ toGui'[c] = Append(toGui[c], x)

FirstTaken(c) ==
  /\ toAgent[c] # <<>>
  /\ toAgent'[c] = Tail(toAgent[c])
  /\ [user |-> owner[c], id |-> Head(toAgent[c]).id, type |-> Head(toAgent[c]).type] \in taken'

\* What a step of the agent may do to one connection: close its end, drop or take
\* an answer, and send one message, an acknowledgement only of what it takes and a
\* dismissal only of what it waits for.
OnConnection(c) ==
  /\ "gui" \in ends'[c] <=> "gui" \in ends[c]
  /\ "agent" \notin ends'[c] => toAgent'[c] = <<>>
  /\ \/ toAgent'[c] \in {toAgent[c], <<>>}
     \/ toAgent[c] # <<>> /\ toAgent'[c] = Tail(toAgent[c])
  /\ \/ toGui'[c] = toGui[c]
     \/ Sent(c, Dismissal) /\ Busy(c)
     \/ \E id \in Ids : Sent(c, Request(id))
     \/ Sent(c, Ack) /\ FirstTaken(c)
  /\ c \in DOMAIN m_fdToUser' => m_fdToUser'[c] = owner[c]
  /\ c \in DOMAIN m_fdStatus' /\ ~m_fdStatus'[c] =>
       \/ \E id \in Ids : Sent(c, Request(id))
       \/ Busy(c) /\ toGui'[c] = toGui[c] /\ toAgent'[c] = toAgent[c]

AgentStep ==
  /\ UNCHANGED <<owner, daemonVars>>
  /\ taken \subseteq taken'
  /\ \A a \in taken' : Clicked(a.user, a.id, a.type)
  /\ \A c \in Conns : OnConnection(c)

\* What closes and forgets connections and sends nothing.
LEMMA ClosingOnConnection ==
  ASSUME IInv, EndsInv, NEW cs,
         AgentCloses(cs), UNCHANGED <<owner, toGui>>,
         DOMAIN m_fdStatus' \subseteq DOMAIN m_fdStatus \ cs,
         \A c \in DOMAIN m_fdStatus' : m_fdStatus'[c] = m_fdStatus[c],
         DOMAIN m_fdToUser' \subseteq DOMAIN m_fdToUser,
         \A c \in DOMAIN m_fdToUser' : m_fdToUser'[c] = m_fdToUser[c],
         NEW c \in Conns
  PROVE  OnConnection(c)
<1>1. /\ "gui" \in ends'[c] <=> "gui" \in ends[c]
      /\ "agent" \notin ends'[c] => toAgent'[c] = <<>>
      /\ toAgent'[c] \in {toAgent[c], <<>>}
      /\ c \notin cs => toAgent'[c] = toAgent[c]
  BY DEF AgentCloses, EndsInv, ClosedIsDropped, IInv, MapsInv, SocketsTyped
<1>2. c \in DOMAIN m_fdToUser' => m_fdToUser'[c] = owner[c]
  BY DEF EndsInv, OwnersKnown
<1>3. QED
  BY <1>1, <1>2 DEF OnConnection, Busy

LEMMA AllClosedOnConnection ==
  ASSUME IInv, EndsInv, AllClosed, NEW c \in Conns
  PROVE  OnConnection(c)
BY ClosingOnConnection DEF AllClosed, EmptyMap

\* remove.
LEMMA RemovedOnConnection ==
  ASSUME IInv, EndsInv, NEW d \in Conns, Removed({d}), UNCHANGED <<owner, toGui>>,
         NEW c \in Conns
  PROVE  OnConnection(c)
<1>1. /\ DOMAIN m_fdStatus' = DOMAIN m_fdStatus \ {d}
      /\ \A x \in DOMAIN m_fdStatus' : m_fdStatus'[x] = m_fdStatus[x]
      /\ DOMAIN m_fdToUser' \subseteq DOMAIN m_fdToUser
      /\ \A x \in DOMAIN m_fdToUser' : m_fdToUser'[x] = m_fdToUser[x]
      /\ AgentCloses({d})
  BY DEF Removed, Restrict
<1>2. QED
  BY <1>1, ClosingOnConnection

\* What does nothing to the connections.
LEMMA QuietOnConnection ==
  ASSUME IInv, EndsInv, UNCHANGED <<ends, owner, toGui, toAgent, m_fdToUser, m_fdStatus>>,
         NEW c \in Conns
  PROVE  OnConnection(c)
BY DEF OnConnection, Busy, EndsInv, ClosedIsDropped, OwnersKnown

LEMMA RemoveRequestIsAgentStep ==
  ASSUME IInv, EndsInv, NEW id \in Ids, removeRequest(id), NEW c \in Conns
  PROVE  OnConnection(c)
<1> DEFINE dismissed == {d \in ToDismiss(id) : "gui" \in ends[d]}
           broken == ToDismiss(id) \ dismissed
<1>1. /\ toGui' = [d \in Conns |-> IF d \in dismissed THEN Append(toGui[d], Dismissal)
                                                      ELSE toGui[d]]
      /\ m_fdToUser' = Restrict(m_fdToUser, DOMAIN m_fdToUser \ broken)
      /\ m_fdStatus' = [d \in DOMAIN m_fdStatus \ broken |-> m_fdStatus[d] \/ d \in dismissed]
      /\ AgentCloses(broken)
      /\ UNCHANGED owner
  BY DEF removeRequest
<1>2. \A d \in dismissed : "gui" \in ends[d] /\ Busy(d)
  BY DEF ToDismiss, Busy, IInv, MapsInv, ConnectionMaps
<1> HIDE DEF dismissed, broken
<1>3. /\ DOMAIN m_fdToUser' = DOMAIN m_fdToUser \ broken
      /\ \A d \in DOMAIN m_fdToUser' : m_fdToUser'[d] = m_fdToUser[d]
  BY <1>1 DEF Restrict
<1>4. /\ "gui" \in ends'[c] <=> "gui" \in ends[c]
      /\ "agent" \notin ends'[c] => toAgent'[c] = <<>>
      /\ toAgent'[c] \in {toAgent[c], <<>>}
      /\ c \notin broken => toAgent'[c] = toAgent[c]
  BY <1>1 DEF AgentCloses, EndsInv, ClosedIsDropped, IInv, MapsInv, SocketsTyped
<1>5. c \in DOMAIN m_fdToUser' => m_fdToUser'[c] = owner[c]
  BY <1>3 DEF EndsInv, OwnersKnown
<1>6. toGui'[c] = toGui[c] \/ (Sent(c, Dismissal) /\ Busy(c))
  BY <1>1, <1>2 DEF Sent
<1>7. c \in DOMAIN m_fdStatus' /\ ~m_fdStatus'[c] =>
        Busy(c) /\ toGui'[c] = toGui[c] /\ toAgent'[c] = toAgent[c]
  BY <1>1, <1>4 DEF Busy
<1>8. QED
  BY <1>4, <1>5, <1>6, <1>7 DEF OnConnection

\* A new connection is not busy, and its user is the owner.
LEMMA NewConnectionIsAgentStep ==
  ASSUME IInv, EndsInv, newConnection, NEW c \in Conns
  PROVE  OnConnection(c)
<1> DEFINE new == Head(backlog)
           u == owner[new]
           old == {m_userToFd[v] : v \in {u} \cap DOMAIN m_userToFd}
<1>1. /\ m_fdToUser' = With(Restrict(m_fdToUser, DOMAIN m_fdToUser \ old), new, u)
      /\ m_fdStatus' = With(Restrict(m_fdStatus, DOMAIN m_fdStatus \ old), new, TRUE)
      /\ AgentCloses(old)
      /\ UNCHANGED <<owner, toGui>>
  BY DEF newConnection
<1>2. u = owner[new]
  OBVIOUS
<1> HIDE DEF new, u, old
<1>3. /\ DOMAIN m_fdToUser' = (DOMAIN m_fdToUser \ old) \cup {new}
      /\ m_fdToUser'[new] = u
      /\ \A d \in DOMAIN m_fdToUser \ old : d # new => m_fdToUser'[d] = m_fdToUser[d]
  BY <1>1 DEF With, Restrict
<1>4. /\ DOMAIN m_fdStatus' = (DOMAIN m_fdStatus \ old) \cup {new}
      /\ m_fdStatus'[new] = TRUE
      /\ \A d \in DOMAIN m_fdStatus \ old : d # new => m_fdStatus'[d] = m_fdStatus[d]
  BY <1>1 DEF With, Restrict
<1>5. /\ "gui" \in ends'[c] <=> "gui" \in ends[c]
      /\ "agent" \notin ends'[c] => toAgent'[c] = <<>>
      /\ toAgent'[c] \in {toAgent[c], <<>>}
      /\ c \notin old => toAgent'[c] = toAgent[c]
  BY <1>1 DEF AgentCloses, EndsInv, ClosedIsDropped, IInv, MapsInv, SocketsTyped
<1>6. c \in DOMAIN m_fdToUser' => m_fdToUser'[c] = owner[c]
  BY <1>2, <1>3 DEF EndsInv, OwnersKnown
<1>7. c \in DOMAIN m_fdStatus' /\ ~m_fdStatus'[c] =>
        Busy(c) /\ toGui'[c] = toGui[c] /\ toAgent'[c] = toAgent[c]
  BY <1>1, <1>4, <1>5 DEF Busy
<1>8. QED
  BY <1>1, <1>5, <1>6, <1>7 DEF OnConnection

LEMMA DisconnectedIsAgentStep ==
  ASSUME IInv, EndsInv, NEW d \in Conns, Disconnected(d), NEW c \in Conns
  PROVE  OnConnection(c)
<1>1. CASE Crash
  BY <1>1, AllClosedOnConnection DEF Crash, Disconnected, AllClosed
<1>2. CASE Removed({d}) /\ UNCHANGED <<owner, toGui>>
  BY <1>2, RemovedOnConnection
<1>3. QED
  BY <1>1, <1>2 DEF Disconnected

\* A connection that is served and stays open.
LEMMA ServedOnConnection ==
  ASSUME EndsInv, UNCHANGED <<ends, owner, m_fdToUser>>, NEW d,
         \A x \in Conns : x # d => toGui'[x] = toGui[x] /\ toAgent'[x] = toAgent[x],
         DOMAIN m_fdStatus' = DOMAIN m_fdStatus,
         \A x \in DOMAIN m_fdStatus : x # d => m_fdStatus'[x] = m_fdStatus[x],
         NEW c \in Conns, c # d
  PROVE  OnConnection(c)
BY DEF OnConnection, Busy, EndsInv, ClosedIsDropped, OwnersKnown

\* An answer to a request that is not at the front any more.
LEMMA TakesStaleIsAgentStep ==
  ASSUME EndsInv, StreamsTyped, NEW d \in Conns, TakesStale(d), NEW c \in Conns
  PROVE  OnConnection(c)
<1>1. /\ toAgent[d] # <<>>
      /\ toAgent' = [toAgent EXCEPT ![d] = Tail(@)]
      /\ m_fdStatus' = [m_fdStatus EXCEPT ![d] = TRUE]
      /\ UNCHANGED <<m_fdToUser, ends, owner, toGui>>
  BY DEF TakesStale
<1>2. /\ toAgent'[d] = Tail(toAgent[d])
      /\ \A x \in Conns : x # d => toAgent'[x] = toAgent[x]
  BY <1>1 DEF StreamsTyped
<1>3. /\ DOMAIN m_fdStatus' = DOMAIN m_fdStatus
      /\ \A x \in DOMAIN m_fdStatus : x # d => m_fdStatus'[x] = m_fdStatus[x]
      /\ d \in DOMAIN m_fdStatus => m_fdStatus'[d] = TRUE
  BY <1>1
<1>4. CASE c # d
  BY <1>1, <1>2, <1>3, <1>4, ServedOnConnection
<1>5. CASE c = d
  BY <1>1, <1>2, <1>3, <1>5 DEF OnConnection, Busy, EndsInv, ClosedIsDropped, OwnersKnown
<1>6. QED
  BY <1>4, <1>5

\* The answer to the request at the front.
LEMMA TakesAnswerIsAgentStep ==
  ASSUME IInv, EndsInv, StreamsTyped, NEW d \in Conns, TakesAnswer(d), NEW c \in Conns
  PROVE  OnConnection(c)
<1> DEFINE m == Head(toAgent[d])
<1>1. /\ loop = "recv" /\ d \in todo /\ toAgent[d] # <<>>
      /\ taken' = taken \cup {[user |-> m_fdToUser[d], id |-> m.id, type |-> m.type]}
  BY DEF TakesAnswer
<1>2. m_fdToUser[d] = owner[d]
  BY <1>1 DEF IInv, LoopServes, EndsInv, OwnersKnown
<1>3. CASE Crash
  BY <1>3, AllClosedOnConnection DEF Crash
<1>4. CASE Removed({d}) /\ UNCHANGED <<owner, toGui>>
  BY <1>4, RemovedOnConnection
<1>5. CASE /\ "gui" \in ends[d]
           /\ toGui' = [toGui EXCEPT ![d] = Append(@, Ack)]
           /\ toAgent' = [toAgent EXCEPT ![d] = Tail(@)]
           /\ m_fdStatus' = [m_fdStatus EXCEPT ![d] = TRUE]
           /\ UNCHANGED <<m_fdToUser, ends, owner>>
  <2>1. /\ toAgent'[d] = Tail(toAgent[d]) /\ toGui'[d] = Append(toGui[d], Ack)
        /\ \A x \in Conns : x # d => toAgent'[x] = toAgent[x] /\ toGui'[x] = toGui[x]
    BY <1>5 DEF StreamsTyped
  <2>2. /\ DOMAIN m_fdStatus' = DOMAIN m_fdStatus
        /\ \A x \in DOMAIN m_fdStatus : x # d => m_fdStatus'[x] = m_fdStatus[x]
        /\ d \in DOMAIN m_fdStatus => m_fdStatus'[d] = TRUE
    BY <1>5
  <2>3. Sent(d, Ack) /\ FirstTaken(d)
    BY <1>1, <1>2, <1>5, <2>1 DEF Sent, FirstTaken
  <2>4. CASE c # d
    BY <1>5, <2>1, <2>2, <2>4, ServedOnConnection
  <2>5. CASE c = d
    BY <1>1, <1>5, <2>1, <2>2, <2>3, <2>5 DEF OnConnection, Busy, EndsInv, ClosedIsDropped, OwnersKnown
  <2>6. QED
    BY <2>4, <2>5
<1>6. QED
  BY <1>3, <1>4, <1>5 DEF TakesAnswer

\* The request at the front of the queue is sent.
LEMMA SendRequestIsAgentStep ==
  ASSUME IInv, EndsInv, TalkerInv, NEW d \in Conns, sendRequest(d), NEW c \in Conns
  PROVE  OnConnection(c)
<1> DEFINE next == Head(m_requests[m_fdToUser[d]])
<1>1. loop = "send" /\ d \in todo
  BY DEF sendRequest
<1>2. next \in Ids
  BY <1>1 DEF TalkerInv, SendsReady, AreQueues
<1>3. CASE Crash
  BY <1>3, AllClosedOnConnection DEF Crash
<1>4. CASE Removed({d}) /\ UNCHANGED <<owner, toGui>>
  BY <1>4, RemovedOnConnection
<1>5. CASE /\ "gui" \in ends[d]
           /\ toGui' = [toGui EXCEPT ![d] = Append(@, Request(next))]
           /\ m_fdStatus' = [m_fdStatus EXCEPT ![d] = FALSE]
           /\ UNCHANGED <<m_fdToUser, ends, owner, toAgent>>
  <2> HIDE DEF next
  <2>1. /\ toGui'[d] = Append(toGui[d], Request(next))
        /\ \A x \in Conns : x # d => toAgent'[x] = toAgent[x] /\ toGui'[x] = toGui[x]
    BY <1>5 DEF TalkerInv, StreamsTyped
  <2>2. /\ DOMAIN m_fdStatus' = DOMAIN m_fdStatus
        /\ \A x \in DOMAIN m_fdStatus : x # d => m_fdStatus'[x] = m_fdStatus[x]
    BY <1>5
  <2>3. \E id \in Ids : Sent(d, Request(id))
    BY <1>2, <1>5, <2>1 DEF Sent
  <2>4. CASE c # d
    BY <1>5, <2>1, <2>2, <2>4, ServedOnConnection
  <2>5. CASE c = d
    BY <1>5, <2>3, <2>5 DEF OnConnection, Busy, EndsInv, ClosedIsDropped, OwnersKnown
  <2>6. QED
    BY <2>4, <2>5
<1>6. QED
  BY <1>3, <1>4, <1>5 DEF sendRequest

\* A connection that is closed by the failure is not in the maps yet.
LEMMA FailsIsAgentStep ==
  ASSUME IInv, EndsInv, Fails, NEW c \in Conns
  PROVE  OnConnection(c)
<1>1. UNCHANGED <<m_fdToUser, m_fdStatus>>
  BY DEF Fails, connectionVars
<1>2. CASE UNCHANGED socketVars
  BY <1>1, <1>2, QuietOnConnection DEF socketVars
<1>3. CASE loop = "accept" /\ AgentCloses({Head(backlog)}) /\ UNCHANGED <<owner, toGui>>
  <2>1. backlog # <<>> /\ backlog \in Seq(Conns) /\ IsInjective(backlog)
    BY <1>3 DEF IInv, LoopServes, MapsInv, BacklogFresh
  <2>2. Head(backlog) \in Range(backlog)
    BY <2>1, HeadAndTail
  <2>3. Head(backlog) \notin DOMAIN m_fdStatus
    BY <2>2 DEF IInv, MapsInv, BacklogFresh, ConnectionMaps
  <2>4. QED
    BY <1>1, <1>3, <2>3, ClosingOnConnection
<1>4. QED
  BY <1>2, <1>3 DEF Fails

-----------------------------------------------------------------------------
(* What the agent has taken.                                               *)

\* A failed thread reports errors only.
LEMMA TakenIsClicked ==
  ASSUME IInv, EndsInv, StreamsTyped, FromClicks, UNCHANGED daemonVars,
         \/ taken' = taken
         \/ \E d \in Conns : TakesAnswer(d)
         \/ Fails
  PROVE  taken \subseteq taken' /\ \A a \in taken' : Clicked(a.user, a.id, a.type)
<1>1. clicks' = clicks
  BY DEF daemonVars
<1>2. CASE taken' = taken
  BY <1>1, <1>2 DEF FromClicks, Clicked
<1>3. ASSUME NEW d \in Conns, TakesAnswer(d)
      PROVE  taken \subseteq taken' /\ \A a \in taken' : Clicked(a.user, a.id, a.type)
  <2> DEFINE m == Head(toAgent[d])
             a == [user |-> m_fdToUser[d], id |-> m.id, type |-> m.type]
  <2>1. loop = "recv" /\ d \in todo /\ toAgent[d] # <<>> /\ taken' = taken \cup {a}
    BY <1>3 DEF TakesAnswer
  <2>2. m_fdToUser[d] = owner[d]
    BY <2>1 DEF IInv, LoopServes, EndsInv, OwnersKnown
  <2>3. 1 \in DOMAIN toAgent[d] /\ m = toAgent[d][1]
    <3>1. toAgent[d] \in Seq(Responses)
      BY DEF StreamsTyped
    <3>2. QED
      BY <2>1, <3>1
  <2>4. QED
    BY <1>1, <2>1, <2>2, <2>3 DEF FromClicks, Clicked
<1>4. CASE Fails
  BY <1>1, <1>4 DEF Fails, FromClicks, Clicked
<1>5. QED
  BY <1>2, <1>3, <1>4

-----------------------------------------------------------------------------
(* A step of the agent keeps the invariants.                               *)

\* Every action of the talker is such a step.
AgentActs ==
  \/ \E u \in Users, id \in Ids : addRequest(u, id)
  \/ \E id \in Ids : removeRequest(id)
  \/ stop \/ Select \/ Stopped \/ newConnection \/ Fails
  \/ \E c \in Conns : Disconnected(c) \/ TakesStale(c) \/ TakesAnswer(c) \/ sendRequest(c)

LEMMA ActsAreAgentSteps ==
  ASSUME IInv, TInv, PInv, AgentActs, UNCHANGED daemonVars
  PROVE  AgentStep
<1>1. EndsInv /\ FromClicks /\ TalkerInv /\ StreamsTyped
  BY DEF PInv, TInv, TalkerInv
<1>2. SUFFICES /\ UNCHANGED owner
               /\ taken' = taken \/ (\E d \in Conns : TakesAnswer(d)) \/ Fails
               /\ \A c \in Conns : OnConnection(c)
  BY <1>1, TakenIsClicked DEF AgentStep
<1>3. CASE \E u \in Users, id \in Ids : addRequest(u, id)
  BY <1>1, <1>3, QuietOnConnection DEF addRequest, socketVars, connectionVars
<1>4. CASE \E id \in Ids : removeRequest(id)
  <2>1. UNCHANGED <<owner, taken>>
    BY <1>4 DEF removeRequest
  <2>2. QED
    BY <1>1, <1>4, <2>1, RemoveRequestIsAgentStep
<1>5. CASE stop
  BY <1>1, <1>5, QuietOnConnection DEF stop, socketVars, connectionVars
<1>6. CASE Select
  <2>1. UNCHANGED <<socketVars, connectionVars, taken>>
    BY <1>6 DEF Select
  <2>2. QED
    BY <1>1, <2>1, QuietOnConnection DEF socketVars, connectionVars
<1>7. CASE Stopped
  BY <1>1, <1>7, AllClosedOnConnection DEF Stopped, AllClosed
<1>8. CASE newConnection
  <2>1. UNCHANGED <<owner, taken>>
    BY <1>8 DEF newConnection
  <2>2. QED
    BY <1>1, <1>8, <2>1, NewConnectionIsAgentStep
<1>9. CASE Fails
  <2>1. UNCHANGED owner
    BY <1>9 DEF Fails, socketVars
  <2>2. QED
    BY <1>1, <1>9, <2>1, FailsIsAgentStep
<1>10. ASSUME NEW d \in Conns, Disconnected(d)
       PROVE  UNCHANGED <<owner, taken>> /\ \A c \in Conns : OnConnection(c)
  <2>1. UNCHANGED <<owner, taken>>
    BY <1>10 DEF Disconnected, Crash, AllClosed
  <2>2. QED
    BY <1>1, <1>10, <2>1, DisconnectedIsAgentStep
<1>11. ASSUME NEW d \in Conns, TakesStale(d)
       PROVE  UNCHANGED <<owner, taken>> /\ \A c \in Conns : OnConnection(c)
  <2>1. UNCHANGED <<owner, taken>>
    BY <1>11 DEF TakesStale
  <2>2. QED
    BY <1>1, <1>11, <2>1, TakesStaleIsAgentStep
<1>12. ASSUME NEW d \in Conns, TakesAnswer(d)
       PROVE  UNCHANGED owner /\ \A c \in Conns : OnConnection(c)
  <2>1. UNCHANGED owner
    BY <1>12 DEF TakesAnswer, Crash, AllClosed
  <2>2. QED
    BY <1>1, <1>12, <2>1, TakesAnswerIsAgentStep
<1>13. ASSUME NEW d \in Conns, sendRequest(d)
       PROVE  UNCHANGED <<owner, taken>> /\ \A c \in Conns : OnConnection(c)
  <2>1. UNCHANGED <<owner, taken>>
    BY <1>13 DEF sendRequest, Crash, AllClosed
  <2>2. QED
    BY <1>1, <1>13, <2>1, SendRequestIsAgentStep
<1>14. QED
  BY <1>3, <1>4, <1>5, <1>6, <1>7, <1>8, <1>9, <1>10, <1>11, <1>12, <1>13 DEF AgentActs

\* The last message of a stream after one more was sent.
LEMMA AppendedLast ==
  ASSUME NEW S, NEW q \in Seq(S), NEW x
  PROVE  LET t == Append(q, x) IN t # <<>> /\ t[Len(t)] = x
OBVIOUS

LEMMA AgentStepKeeps ==
  ASSUME IInv, IInv', TInv, PInv, AgentStep
  PROVE  PInv'
<1>1. /\ EndsInv /\ FromClicks /\ AnswersCome
      /\ toGui \in [Conns -> Seq(GuiMessages)] /\ toAgent \in [Conns -> Seq(Responses)]
      /\ DaemonTypeOK /\ owner \in [Conns -> Users]
  BY DEF PInv, TInv, TalkerInv, StreamsTyped, DaemonInv, IInv, MapsInv, SocketsTyped
<1>2. /\ owner' = owner /\ daemon' = daemon /\ sockfd' = sockfd /\ request' = request
      /\ type' = type /\ clicks' = clicks
      /\ \A c \in Conns : OnConnection(c)
  BY DEF AgentStep, daemonVars
<1>3. DaemonsConnected'
  <2>1. \A c \in Conns : "gui" \in ends'[c] <=> "gui" \in ends[c]
    BY <1>2 DEF OnConnection
  <2>2. QED
    BY <1>1, <1>2, <2>1 DEF EndsInv, DaemonsConnected, DaemonTypeOK
<1>4. ClosedIsDropped'
  <2>1. ASSUME NEW c \in Conns
        PROVE  /\ "agent" \notin ends'[c] => toAgent'[c] = <<>>
               /\ "gui" \notin ends'[c] => toGui'[c] = <<>>
    BY <1>1, <1>2 DEF OnConnection, Sent, EndsInv, ClosedIsDropped
  <2>2. QED
    BY <2>1 DEF ClosedIsDropped
<1>5. OwnersKnown'
  <2>1. DOMAIN m_fdToUser' \subseteq Conns
    BY DEF IInv, MapsInv, MapsTyped
  <2>2. QED
    BY <1>2, <2>1 DEF OnConnection, OwnersKnown
<1>6. FromClicks'
  <2>1. ASSUME NEW c \in Conns, NEW i \in DOMAIN toAgent'[c]
        PROVE  \E j \in DOMAIN toAgent[c] : toAgent'[c][i] = toAgent[c][j]
    <3>1. toAgent[c] \in Seq(Responses)
      BY <1>1
    <3>2. CASE toAgent'[c] = toAgent[c]
      BY <2>1, <3>2
    <3>3. CASE toAgent'[c] = <<>>
      BY <2>1, <3>3
    <3>4. CASE toAgent[c] # <<>> /\ toAgent'[c] = Tail(toAgent[c])
      <4>1. i + 1 \in DOMAIN toAgent[c] /\ toAgent'[c][i] = toAgent[c][i + 1]
        BY <2>1, <3>1, <3>4
      <4>2. QED
        BY <4>1
    <3>5. QED
      BY <1>2, <3>2, <3>3, <3>4 DEF OnConnection
  <2>2. \A a \in taken' : Clicked(a.user, a.id, a.type)
    BY DEF AgentStep
  <2>3. QED
    BY <1>1, <1>2, <2>1, <2>2 DEF FromClicks, Clicked
<1>7. AnswersCome'
  <2>1. ASSUME NEW c \in Conns, c \in DOMAIN m_fdStatus', ~m_fdStatus'[c], "gui" \in ends'[c]
        PROVE  IF toGui'[c] # <<>> THEN EndsInRequest(toGui'[c])
               ELSE \/ daemon[owner[c]] \in {"popup", "sending"}
                    \/ daemon[owner[c]] = "closing" /\ type[owner[c]] # "None"
                    \/ toAgent'[c] # <<>>
    <3>1. CASE \E id \in Ids : Sent(c, Request(id))
      <4>1. PICK id \in Ids : toGui'[c] = Append(toGui[c], Request(id))
        BY <3>1 DEF Sent
      <4>2. toGui'[c] # <<>> /\ toGui'[c][Len(toGui'[c])] = Request(id)
        BY <1>1, <4>1, AppendedLast
      <4>3. QED
        BY <4>2 DEF EndsInRequest, Request
    <3>2. CASE /\ c \in DOMAIN m_fdStatus /\ ~m_fdStatus[c]
               /\ toGui'[c] = toGui[c] /\ toAgent'[c] = toAgent[c]
      <4>1. "gui" \in ends[c] /\ AnswerComing(c)
        BY <1>1, <1>2, <2>1 DEF OnConnection, AnswersCome
      <4>2. QED
        BY <3>2, <4>1 DEF AnswerComing
    <3>3. QED
      BY <1>2, <2>1, <3>1, <3>2 DEF OnConnection, Busy
  <2>2. QED
    BY <1>2, <2>1 DEF AnswersCome, AnswerComing
<1>8. QED
  BY <1>3, <1>4, <1>5, <1>6, <1>7 DEF PInv, EndsInv

-----------------------------------------------------------------------------
(* Steps of a daemon.                                                      *)

SendsAnswer(u) ==
  /\ daemon[u] = "sending" /\ daemon'[u] = "acking"
  /\ "agent" \in ends[sockfd[u]]
  /\ toAgent'[sockfd[u]] = Append(toAgent[sockfd[u]], [id |-> request[u], type |-> type[u]])
  /\ request'[u] = request[u] /\ type'[u] = type[u]

\* What it reads: nothing, a byte, or a request, which it shows.
Takes(u, q) ==
  \/ /\ toGui'[sockfd[u]] = q
     /\ \/ daemon'[u] = "sending"
        \/ /\ daemon[u] \in {"popup", "closing"}
           /\ daemon'[u] = "closing" /\ type'[u] # "None"
        \/ daemon[u] = "closing" /\ type[u] = "None"
        \/ SendsAnswer(u)
  \/ /\ q # <<>> /\ toGui'[sockfd[u]] = AfterByte(q)
     /\ \/ daemon'[u] = "sending"
        \/ Head(q) \in {Ack, Dismissal}
        \/ AckSized \cup DismissSized # {}
  \/ /\ q # <<>> /\ toGui'[sockfd[u]] = Tail(q) /\ daemon'[u] = "popup"
     /\ Head(q).kind = "request"

\* A step after which the process still runs: it reads from its own connection or
\* sends an answer on it, and makes a setting when it reads an acknowledgement.
Runs(u) ==
  /\ daemon[u] # "down" /\ daemon'[u] # "down"
  /\ UNCHANGED <<ends, owner, sockfd>>
  /\ \A v \in Users : v # u => /\ daemon'[v] = daemon[v]
                               /\ type'[v] = type[v] /\ request'[v] = request[v]
  /\ \A c \in Conns : c # sockfd[u] => toGui'[c] = toGui[c] /\ toAgent'[c] = toAgent[c]
  /\ clicks \subseteq clicks'
  /\ type'[u] = "None" \/ type'[u] = "Error"
       \/ [user |-> u, id |-> request'[u], type |-> type'[u]] \in clicks'
  /\ toAgent'[sockfd[u]] = toAgent[sockfd[u]] \/ SendsAnswer(u)
  /\ daemon'[u] = "acking" => SendsAnswer(u)
  /\ Takes(u, toGui[sockfd[u]])
  /\ daemon'[u] = "popup" =>
       /\ toGui[sockfd[u]] # <<>> /\ toGui'[sockfd[u]] = Tail(toGui[sockfd[u]])
       /\ Head(toGui[sockfd[u]]).kind = "request"
       /\ request'[u] = Head(toGui[sockfd[u]]).id
  /\ IF daemon[u] = "acking"
     THEN /\ toGui[sockfd[u]] # <<>> /\ ReadsAs(toGui[sockfd[u]], Ack)
          /\ toGui'[sockfd[u]] = AfterByte(toGui[sockfd[u]])
          /\ toAgent'[sockfd[u]] = toAgent[sockfd[u]]
          /\ levels' \subseteq levels \cup {[user |-> u, id |-> request[u], type |-> type[u]]}
     ELSE levels' = levels

\* The process ends.
Leaves(u) == daemon[u] # "down" /\ Exits(u) /\ UNCHANGED <<clicks, levels>>

\* Reading a byte changes one stream only.
LEMMA ReadsByteOwn ==
  ASSUME StreamsTyped, DaemonTypeOK, NEW u \in Users, ReadsByte(u)
  PROVE  /\ UNCHANGED <<ends, owner, toAgent>>
         /\ toGui'[sockfd[u]] = AfterByte(toGui[sockfd[u]])
         /\ \A c \in Conns : c # sockfd[u] => toGui'[c] = toGui[c]
BY DEF ReadsByte, StreamsTyped, DaemonTypeOK

LEMMA GetRequestRuns ==
  ASSUME TInv, PInv, NEW u \in Users, GetRequest(u)
  PROVE  Runs(u)
<1>1. StreamsTyped /\ DaemonTypeOK
  BY DEF TInv, TalkerInv, DaemonInv
<1>2. /\ daemon[u] = "waiting" /\ toGui[sockfd[u]] # <<>>
      /\ Head(toGui[sockfd[u]]).kind = "request"
      /\ daemon' = [daemon EXCEPT ![u] = "popup"]
      /\ type' = [type EXCEPT ![u] = "None"]
      /\ \A v \in Users : v # u => request'[v] = request[v]
      /\ request'[u] = Head(toGui[sockfd[u]]).id
      /\ toGui' = [toGui EXCEPT ![sockfd[u]] = Tail(@)]
      /\ UNCHANGED <<ends, owner, toAgent, sockfd, clicks, levels>>
  BY <1>1 DEF GetRequest, HasMessage, Incoming, Reads, DaemonTypeOK
<1>3. /\ daemon'[u] = "popup" /\ type'[u] = "None"
      /\ \A v \in Users : v # u => daemon'[v] = daemon[v] /\ type'[v] = type[v]
      /\ toGui'[sockfd[u]] = Tail(toGui[sockfd[u]])
      /\ \A c \in Conns : c # sockfd[u] => toGui'[c] = toGui[c]
  BY <1>1, <1>2 DEF DaemonTypeOK, StreamsTyped
<1>4. Takes(u, toGui[sockfd[u]])
  BY <1>2, <1>3 DEF Takes
<1>5. QED
  BY <1>2, <1>3, <1>4 DEF Runs

LEMMA ClickRuns ==
  ASSUME TInv, PInv, NEW u \in Users, NEW t \in Clickable, Click(u, t)
  PROVE  Runs(u)
<1>1. DaemonTypeOK /\ t # "None"
  BY ClickableAssumption DEF TInv, DaemonInv
<1>2. /\ daemon[u] \in {"popup", "closing"}
      /\ UNCHANGED <<ends, owner, toGui, toAgent, sockfd, request, levels>>
      /\ clicks' = clicks \cup {[user |-> u, id |-> request[u], type |-> t]}
      /\ daemon'[u] = "closing" /\ type'[u] = t
      /\ \A v \in Users : v # u => daemon'[v] = daemon[v] /\ type'[v] = type[v]
  BY <1>1 DEF Click, socketVars, DaemonTypeOK
<1>3. Takes(u, toGui[sockfd[u]])
  BY <1>1, <1>2 DEF Takes
<1>4. QED
  BY <1>2, <1>3 DEF Runs

LEMMA DismissedRuns ==
  ASSUME TInv, PInv, NEW u \in Users, Dismissed(u)
  PROVE  Runs(u)
<1>1. StreamsTyped /\ DaemonTypeOK /\ FromClicks
  BY DEF TInv, TalkerInv, DaemonInv, PInv
<1>2. /\ daemon[u] \in {"popup", "closing"} /\ toGui[sockfd[u]] # <<>> /\ ReadsByte(u)
      /\ ReadsAs(toGui[sockfd[u]], Dismissal)
      /\ UNCHANGED <<sockfd, request, type, clicks, levels>>
      /\ daemon'[u] = "closing"
      /\ \A v \in Users : v # u => daemon'[v] = daemon[v]
  BY <1>1 DEF Dismissed, HasMessage, Incoming, DaemonTypeOK
<1>3. Takes(u, toGui[sockfd[u]])
  BY <1>1, <1>2, ReadsByteOwn DEF Takes, ReadsAs
<1>4. QED
  BY <1>1, <1>2, <1>3, ReadsByteOwn DEF Runs, FromClicks, Clicked

\* popupRun answers with an error.
LEMMA ErrorRuns ==
  ASSUME TInv, PInv, NEW u \in Users, daemon[u] \in {"popup", "closing"},
         daemon' = [daemon EXCEPT ![u] = "sending"],
         type' = [type EXCEPT ![u] = "Error"],
         UNCHANGED <<sockfd, request, clicks, levels>>,
         UNCHANGED socketVars \/ (HasMessage(u) /\ ReadsByte(u))
  PROVE  Runs(u)
<1>1. StreamsTyped /\ DaemonTypeOK
  BY DEF TInv, TalkerInv, DaemonInv
<1>2. /\ daemon'[u] = "sending" /\ type'[u] = "Error"
      /\ \A v \in Users : v # u => daemon'[v] = daemon[v] /\ type'[v] = type[v]
  BY <1>1 DEF DaemonTypeOK
<1>3. /\ UNCHANGED <<ends, owner, toAgent>>
      /\ \A c \in Conns : c # sockfd[u] => toGui'[c] = toGui[c]
      /\ Takes(u, toGui[sockfd[u]])
  <2>1. CASE UNCHANGED socketVars
    BY <1>2, <2>1 DEF socketVars, Takes
  <2>2. CASE HasMessage(u) /\ ReadsByte(u)
    BY <1>1, <1>2, <2>2, ReadsByteOwn DEF Takes, HasMessage, Incoming
  <2>3. QED
    BY <2>1, <2>2
<1>4. QED
  BY <1>2, <1>3 DEF Runs

LEMMA PopupEndsRuns ==
  ASSUME TInv, PInv, NEW u \in Users, PopupEnds(u)
  PROVE  Runs(u)
<1>1. DaemonTypeOK /\ FromClicks
  BY DEF TInv, DaemonInv, PInv
<1>2. /\ daemon[u] = "closing"
      /\ UNCHANGED <<ends, owner, toGui, toAgent, sockfd, clicks, levels>>
  BY DEF PopupEnds, socketVars
<1>3. CASE type[u] = "None"
  <2>1. /\ daemon'[u] = "waiting" /\ type'[u] = "None"
        /\ \A v \in Users : v # u => /\ daemon'[v] = daemon[v]
                                     /\ type'[v] = type[v] /\ request'[v] = request[v]
    BY <1>1, <1>3 DEF PopupEnds, Waiting, DaemonTypeOK
  <2>2. Takes(u, toGui[sockfd[u]])
    BY <1>2, <1>3 DEF Takes
  <2>3. QED
    BY <1>2, <2>1, <2>2 DEF Runs
<1>4. CASE type[u] # "None"
  <2>1. /\ daemon'[u] = "sending" /\ UNCHANGED <<request, type>>
        /\ \A v \in Users : v # u => daemon'[v] = daemon[v]
    BY <1>1, <1>4 DEF PopupEnds, DaemonTypeOK
  <2>2. Takes(u, toGui[sockfd[u]])
    BY <1>2, <2>1 DEF Takes
  <2>3. QED
    BY <1>1, <1>2, <2>1, <2>2 DEF Runs, FromClicks, Clicked
<1>5. QED
  BY <1>3, <1>4

LEMMA SendAnswerRuns ==
  ASSUME TInv, PInv, NEW u \in Users, SendAnswer(u)
  PROVE  Runs(u) \/ Leaves(u)
<1>1. StreamsTyped /\ DaemonTypeOK /\ FromClicks
  BY DEF TInv, TalkerInv, DaemonInv, PInv
<1>2. daemon[u] = "sending" /\ UNCHANGED <<clicks, levels>>
  BY DEF SendAnswer
<1>3. CASE "agent" \notin ends[sockfd[u]]
  BY <1>2, <1>3 DEF SendAnswer, Leaves
<1>4. CASE "agent" \in ends[sockfd[u]]
  <2>1. /\ toAgent' = [toAgent EXCEPT ![sockfd[u]] =
                         Append(@, [id |-> request[u], type |-> type[u]])]
        /\ daemon' = [daemon EXCEPT ![u] = "acking"]
        /\ UNCHANGED <<ends, owner, toGui, sockfd, request, type>>
    BY <1>4 DEF SendAnswer
  <2>2. /\ daemon'[u] = "acking" /\ \A v \in Users : v # u => daemon'[v] = daemon[v]
        /\ \A c \in Conns : c # sockfd[u] => toAgent'[c] = toAgent[c]
    BY <1>1, <2>1 DEF DaemonTypeOK, StreamsTyped
  <2>3. SendsAnswer(u)
    BY <1>1, <1>2, <1>4, <2>1, <2>2 DEF SendsAnswer, StreamsTyped, DaemonTypeOK
  <2>4. Takes(u, toGui[sockfd[u]])
    BY <2>1, <2>3 DEF Takes
  <2>5. QED
    BY <1>1, <1>2, <2>1, <2>2, <2>3, <2>4 DEF Runs, FromClicks, Clicked
<1>5. QED
  BY <1>3, <1>4

LEMMA GetAckRuns ==
  ASSUME TInv, PInv, NEW u \in Users, GetAck(u)
  PROVE  Runs(u) \/ Leaves(u)
<1>1. StreamsTyped /\ DaemonTypeOK
  BY DEF TInv, TalkerInv, DaemonInv
<1>2. /\ daemon[u] = "acking" /\ toGui[sockfd[u]] # <<>> /\ ReadsAs(toGui[sockfd[u]], Ack)
      /\ setSecurityLevel(u) /\ UNCHANGED clicks
  BY DEF GetAck, HasMessage, Incoming
<1>3. CASE type[u] = "Error"
  BY <1>2, <1>3 DEF GetAck, setSecurityLevel, Leaves
<1>4. CASE type[u] # "Error"
  <2>1. ReadsByte(u) /\ UNCHANGED sockfd /\ Waiting(u)
    BY <1>4 DEF GetAck
  <2>2. /\ daemon'[u] = "waiting" /\ type'[u] = "None"
        /\ \A v \in Users : v # u => /\ daemon'[v] = daemon[v]
                                     /\ type'[v] = type[v] /\ request'[v] = request[v]
    BY <1>1, <2>1 DEF Waiting, DaemonTypeOK
  <2>3. levels' \subseteq levels \cup {[user |-> u, id |-> request[u], type |-> type[u]]}
    BY <1>2 DEF setSecurityLevel
  <2>4. Takes(u, toGui[sockfd[u]])
    BY <1>1, <1>2, <2>1, ReadsByteOwn DEF Takes, ReadsAs
  <2>5. QED
    BY <1>1, <1>2, <2>1, <2>2, <2>3, <2>4, ReadsByteOwn DEF Runs
<1>5. QED
  BY <1>3, <1>4

\* Every step of a daemon that was started is of one of the two kinds.
LEMMA DaemonStepKinds ==
  ASSUME TInv, PInv, NEW u \in Users, DaemonStep(u)
  PROVE  UNCHANGED <<socketVars, daemonVars>> \/ Runs(u) \/ Leaves(u)
<1>1. CASE ConnectFails(u)
  BY <1>1 DEF ConnectFails
<1>2. CASE GetRequest(u) \/ Dismissed(u) \/ PopupEnds(u) \/ (\E t \in Clickable : Click(u, t))
  BY <1>2, GetRequestRuns, DismissedRuns, PopupEndsRuns, ClickRuns
<1>3. CASE SendAnswer(u) \/ GetAck(u)
  BY <1>3, SendAnswerRuns, GetAckRuns
<1>4. CASE SizeExceedsLimits(u) \/ ConnectionLost(u) \/ IncorrectAck(u) \/ Dies(u)
  BY <1>4 DEF SizeExceedsLimits, ConnectionLost, IncorrectAck, Dies, Leaves
<1>5. CASE SelectFails(u)
  BY <1>5, ErrorRuns DEF SelectFails
<1>6. CASE IncorrectDismissFlag(u)
  <2>1. daemon[u] \in {"popup", "closing"} /\ Throws(u) /\ UNCHANGED <<clicks, levels>>
    BY <1>6 DEF IncorrectDismissFlag
  <2>2. CASE Exits(u)
    BY <2>1, <2>2 DEF Leaves
  <2>3. CASE ~Exits(u)
    BY <2>1, <2>3, ErrorRuns DEF Throws
  <2>4. QED
    BY <2>2, <2>3
<1>7. QED
  BY <1>1, <1>2, <1>3, <1>4, <1>5, <1>6 DEF DaemonStep

-----------------------------------------------------------------------------
(* A step of a daemon keeps the invariants.                                *)

\* What is left of a stream after a byte was read from it.
LEMMA AfterByteLast ==
  ASSUME NEW q \in Seq(GuiMessages), q # <<>>, EndsInRequest(q)
  PROVE  AfterByte(q) # <<>> /\ EndsInRequest(AfterByte(q))
<1>1. Len(q) \in Nat /\ Len(q) >= 1 /\ Tail(q) \in Seq(GuiMessages) /\ Len(Tail(q)) = Len(q) - 1
      /\ \A i \in 1 .. Len(q) - 1 : Tail(q)[i] = q[i + 1]
  OBVIOUS
<1>2. CASE Head(q).kind \in {"request", "rest"}
  <2> DEFINE t == <<Rest>> \o Tail(q)
  <2>1. /\ t # <<>> /\ Len(t) = Len(q) /\ t[1] = Rest
        /\ \A i \in 2 .. Len(q) : t[i] = q[i]
    BY <1>1
  <2>2. AfterByte(q) = t
    BY <1>2 DEF AfterByte
  <2> HIDE DEF t
  <2>3. t[Len(t)].kind \in {"request", "rest"}
    BY <1>1, <2>1 DEF EndsInRequest, Rest
  <2>4. QED
    BY <2>1, <2>2, <2>3 DEF EndsInRequest
<1>3. CASE Head(q).kind \notin {"request", "rest"}
  <2>1. Len(q) # 1
    BY <1>1, <1>3 DEF EndsInRequest
  <2>2. Len(Tail(q)) >= 1 /\ Tail(q)[Len(q) - 1] = q[Len(q)]
    BY <1>1, <2>1
  <2>3. Tail(q) # <<>>
    BY <1>1, <2>2
  <2>4. EndsInRequest(Tail(q))
    BY <1>1, <2>2 DEF EndsInRequest
  <2>5. QED
    BY <1>3, <2>3, <2>4 DEF AfterByte
<1>4. QED
  BY <1>2, <1>3

LEMMA TailLast ==
  ASSUME NEW q \in Seq(GuiMessages), q # <<>>, EndsInRequest(q), Tail(q) # <<>>
  PROVE  EndsInRequest(Tail(q))
<1>1. Tail(q)[Len(Tail(q))] = q[Len(q)]
  OBVIOUS
<1>2. QED
  BY <1>1 DEF EndsInRequest

LEMMA RunsKeeps ==
  ASSUME IInv, TInv, PInv, NEW u \in Users, Runs(u), UNCHANGED talkerVars
  PROVE  PInv'
<1> DEFINE c == sockfd[u]
<1>1. /\ EndsInv /\ FromClicks /\ AnswersCome
      /\ toGui \in [Conns -> Seq(GuiMessages)] /\ toAgent \in [Conns -> Seq(Responses)]
      /\ DaemonTypeOK /\ HasAnswer /\ owner \in [Conns -> Users]
  BY DEF PInv, TInv, TalkerInv, StreamsTyped, DaemonInv, IInv, MapsInv, SocketsTyped
<1>2. /\ c \in Conns /\ owner[c] = u /\ "gui" \in ends[c]
      /\ \A d \in Conns : "gui" \in ends[d] /\ owner[d] = u => d = c
  BY <1>1 DEF Runs, EndsInv, DaemonsConnected, DaemonTypeOK
<1>3. /\ UNCHANGED <<m_fdToUser, m_fdStatus, taken>>
      /\ UNCHANGED <<ends, owner, sockfd>>
      /\ clicks \subseteq clicks'
  BY DEF Runs, talkerVars
<1>4. EndsInv'
  <2>1. DaemonsConnected'
    BY <1>1, <1>2, <1>3 DEF Runs, EndsInv, DaemonsConnected, DaemonTypeOK
  <2>2. ClosedIsDropped'
    BY <1>1, <1>2, <1>3 DEF Runs, SendsAnswer, EndsInv, ClosedIsDropped
  <2>3. OwnersKnown'
    BY <1>1, <1>3 DEF EndsInv, OwnersKnown
  <2>4. QED
    BY <2>1, <2>2, <2>3 DEF EndsInv
<1>5. FromClicks'
  <2>1. ASSUME NEW v \in Users
        PROVE  (type[v] = "None" \/ Clicked(v, request[v], type[v]))'
    BY <1>1, <1>3 DEF Runs, FromClicks, Clicked
  <2>2. ASSUME NEW d \in Conns, NEW i \in DOMAIN toAgent'[d]
        PROVE  Clicked(owner[d], toAgent[d][i].id, toAgent[d][i].type)'
    <3>1. CASE toAgent'[d] = toAgent[d]
      BY <1>1, <1>3, <2>2, <3>1 DEF FromClicks, Clicked
    <3>2. CASE d = c /\ SendsAnswer(u)
      <4>1. toAgent'[d] = Append(toAgent[d], [id |-> request[u], type |-> type[u]])
            /\ daemon[u] = "sending" /\ toAgent[d] \in Seq(Responses)
        BY <1>1, <3>2 DEF SendsAnswer
      <4>2. \/ i \in DOMAIN toAgent[d] /\ toAgent'[d][i] = toAgent[d][i]
            \/ toAgent'[d][i] = [id |-> request[u], type |-> type[u]]
        BY <2>2, <4>1
      <4>3. Clicked(u, request[u], type[u])
        BY <1>1, <4>1 DEF FromClicks, HasAnswer
      <4>4. QED
        BY <1>1, <1>2, <1>3, <3>2, <4>2, <4>3 DEF FromClicks, Clicked
    <3>3. QED
      BY <3>1, <3>2 DEF Runs
  <2>3. \A a \in taken' : Clicked(a.user, a.id, a.type)'
    BY <1>1, <1>3 DEF FromClicks, Clicked
  <2>4. QED
    BY <1>3, <2>1, <2>2, <2>3 DEF FromClicks, Clicked
<1>6. AnswersCome'
  <2> SUFFICES ASSUME NEW d \in Conns, d \in DOMAIN m_fdStatus, ~m_fdStatus[d], "gui" \in ends[d]
               PROVE  IF toGui'[d] # <<>> THEN EndsInRequest(toGui'[d])
                      ELSE \/ daemon'[owner[d]] \in {"popup", "sending"}
                           \/ daemon'[owner[d]] = "closing" /\ type'[owner[d]] # "None"
                           \/ toAgent'[d] # <<>>
    BY <1>3 DEF AnswersCome, AnswerComing
  <2>1. IF toGui[d] # <<>> THEN EndsInRequest(toGui[d])
        ELSE \/ daemon[owner[d]] \in {"popup", "sending"}
             \/ daemon[owner[d]] = "closing" /\ type[owner[d]] # "None"
             \/ toAgent[d] # <<>>
    BY <1>1 DEF AnswersCome, AnswerComing
  <2>2. CASE d # c
    <3>1. owner[d] \in Users /\ owner[d] # u
      BY <1>1, <1>2, <2>2
    <3>2. QED
      BY <2>1, <2>2, <3>1 DEF Runs
  <2>3. CASE d = c
    <3> DEFINE q == toGui[c]
    <3>1. q \in Seq(GuiMessages) /\ toAgent[c] \in Seq(Responses)
      BY <1>1, <1>2
    <3>2. CASE q # <<>> /\ toGui'[c] = AfterByte(q)
      BY <2>1, <2>3, <3>1, <3>2, AfterByteLast
    <3>3. CASE q # <<>> /\ toGui'[c] = Tail(q) /\ daemon'[u] = "popup"
      BY <1>2, <2>1, <2>3, <3>1, <3>3, TailLast
    <3>4. CASE toGui'[c] = q /\ SendsAnswer(u)
      <4> DEFINE a == [id |-> request[u], type |-> type[u]]
      <4>1. toAgent'[c] = Append(toAgent[c], a)
        BY <3>4 DEF SendsAnswer
      <4> HIDE DEF a
      <4>2. toAgent'[c] # <<>>
        BY <3>1, <4>1, AppendedLast
      <4>3. QED
        BY <2>1, <2>3, <3>4, <4>2
    <3>5. CASE toGui'[c] = q /\ ~SendsAnswer(u)
      <4>1. toAgent'[c] = toAgent[c]
        BY <3>5 DEF Runs
      <4>2. QED
        BY <1>2, <2>1, <2>3, <3>5, <4>1 DEF Runs, Takes
    <3>6. QED
      BY <3>2, <3>3, <3>4, <3>5 DEF Runs, Takes
  <2>4. QED
    BY <2>2, <2>3
<1>7. QED
  BY <1>4, <1>5, <1>6 DEF PInv

\* A process that ends closes its end of the connection.
LEMMA LeavesEffect ==
  ASSUME DaemonTypeOK, StreamsTyped, SocketsTyped, NEW u \in Users, Leaves(u)
  PROVE  /\ daemon[u] # "down" /\ daemon'[u] = "down" /\ type'[u] = "None"
         /\ \A v \in Users : v # u => /\ daemon'[v] = daemon[v] /\ sockfd'[v] = sockfd[v]
                                      /\ type'[v] = type[v] /\ request'[v] = request[v]
         /\ "gui" \notin ends'[sockfd[u]] /\ toGui'[sockfd[u]] = <<>>
         /\ "agent" \in ends'[sockfd[u]] <=> "agent" \in ends[sockfd[u]]
         /\ \A d \in Conns : d # sockfd[u] => ends'[d] = ends[d] /\ toGui'[d] = toGui[d]
         /\ UNCHANGED <<owner, toAgent, clicks, levels>>
BY DEF Leaves, Exits, GuiCloses, DaemonTypeOK, StreamsTyped, SocketsTyped

LEMMA LeavesKeeps ==
  ASSUME IInv, TInv, PInv, NEW u \in Users, Leaves(u), UNCHANGED talkerVars
  PROVE  PInv'
<1> DEFINE c == sockfd[u]
<1>1. /\ EndsInv /\ FromClicks /\ AnswersCome
      /\ StreamsTyped /\ DaemonTypeOK /\ SocketsTyped /\ owner \in [Conns -> Users]
  BY DEF PInv, TInv, TalkerInv, DaemonInv, IInv, MapsInv, SocketsTyped
<1>2. /\ c \in Conns /\ owner[c] = u
      /\ \A d \in Conns : "gui" \in ends[d] /\ owner[d] = u => d = c
      /\ \A v \in Users : v # u /\ daemon[v] # "down" => sockfd[v] # c /\ sockfd[v] \in Conns
  BY <1>1 DEF Leaves, EndsInv, DaemonsConnected, DaemonTypeOK
<1>3. UNCHANGED <<m_fdToUser, m_fdStatus, taken>>
  BY DEF talkerVars
<1>4. /\ daemon[u] # "down" /\ daemon'[u] = "down" /\ type'[u] = "None"
      /\ \A v \in Users : v # u => /\ daemon'[v] = daemon[v] /\ sockfd'[v] = sockfd[v]
                                   /\ type'[v] = type[v] /\ request'[v] = request[v]
      /\ "gui" \notin ends'[c] /\ toGui'[c] = <<>>
      /\ "agent" \in ends'[c] <=> "agent" \in ends[c]
      /\ \A d \in Conns : d # c => ends'[d] = ends[d] /\ toGui'[d] = toGui[d]
      /\ UNCHANGED <<owner, toAgent, clicks, levels>>
  BY <1>1, LeavesEffect
<1> HIDE DEF c
<1>5. EndsInv'
  <2>1. DaemonsConnected'
    BY <1>1, <1>2, <1>4 DEF EndsInv, DaemonsConnected
  <2>2. ClosedIsDropped'
    BY <1>1, <1>4 DEF EndsInv, ClosedIsDropped
  <2>3. OwnersKnown'
    BY <1>1, <1>3, <1>4 DEF EndsInv, OwnersKnown
  <2>4. QED
    BY <2>1, <2>2, <2>3 DEF EndsInv
<1>6. FromClicks'
  BY <1>1, <1>3, <1>4 DEF FromClicks, Clicked
<1>7. AnswersCome'
  <2> SUFFICES ASSUME NEW d \in Conns, d \in DOMAIN m_fdStatus, ~m_fdStatus[d], "gui" \in ends'[d]
               PROVE  IF toGui'[d] # <<>> THEN EndsInRequest(toGui'[d])
                      ELSE \/ daemon'[owner[d]] \in {"popup", "sending"}
                           \/ daemon'[owner[d]] = "closing" /\ type'[owner[d]] # "None"
                           \/ toAgent'[d] # <<>>
    BY <1>3, <1>4 DEF AnswersCome, AnswerComing
  <2>1. d # c /\ "gui" \in ends[d]
    BY <1>4
  <2>2. owner[d] \in Users /\ owner[d] # u
    BY <1>1, <1>2, <2>1
  <2>3. QED
    BY <1>1, <1>4, <2>1, <2>2 DEF AnswersCome, AnswerComing
<1>8. QED
  BY <1>5, <1>6, <1>7 DEF PInv

\* A daemon that is started takes a connection that nobody has.
LEMMA ConnectEffect ==
  ASSUME DaemonTypeOK, SocketsTyped, NEW u \in Users, Connect(u)
  PROVE  \E c \in Conns :
           /\ ends[c] = {} /\ ends'[c] = {"agent", "gui"} /\ owner'[c] = u
           /\ \A d \in Conns : d # c => ends'[d] = ends[d] /\ owner'[d] = owner[d]
           /\ daemon[u] = "down" /\ daemon'[u] = "waiting" /\ sockfd'[u] = c
           /\ \A v \in Users : v # u => daemon'[v] = daemon[v] /\ sockfd'[v] = sockfd[v]
           /\ UNCHANGED <<toGui, toAgent, request, type, clicks, levels>>
<1> DEFINE c == CHOOSE d \in Closed : TRUE
<1>1. c \in Conns /\ ends[c] = {}
  BY DEF Connect, Closed
<1>2. /\ Connected(c, u) /\ sockfd' = [sockfd EXCEPT ![u] = c]
      /\ daemon[u] = "down" /\ daemon' = [daemon EXCEPT ![u] = "waiting"]
      /\ UNCHANGED <<request, type, clicks, levels>>
  BY DEF Connect
<1> HIDE DEF c
<1>3. QED
  BY <1>1, <1>2 DEF Connected, DaemonTypeOK, SocketsTyped

LEMMA ConnectKeepsAnswers ==
  ASSUME IInv, TInv, PInv, NEW u \in Users, Connect(u), UNCHANGED talkerVars
  PROVE  PInv'
<1>1. /\ EndsInv /\ FromClicks /\ AnswersCome
      /\ DaemonTypeOK /\ SocketsTyped /\ owner \in [Conns -> Users]
  BY DEF PInv, TInv, DaemonInv, IInv, MapsInv, SocketsTyped
<1>2. PICK c \in Conns :
           /\ ends[c] = {} /\ ends'[c] = {"agent", "gui"} /\ owner'[c] = u
           /\ \A d \in Conns : d # c => ends'[d] = ends[d] /\ owner'[d] = owner[d]
           /\ daemon[u] = "down" /\ daemon'[u] = "waiting" /\ sockfd'[u] = c
           /\ \A v \in Users : v # u => daemon'[v] = daemon[v] /\ sockfd'[v] = sockfd[v]
           /\ UNCHANGED <<toGui, toAgent, request, type, clicks, levels>>
  BY <1>1, ConnectEffect
<1>3. UNCHANGED <<m_fdToUser, m_fdStatus, taken>>
  BY DEF talkerVars
<1>4. /\ toAgent[c] = <<>> /\ toGui[c] = <<>>
      /\ c \notin DOMAIN m_fdToUser /\ c \notin DOMAIN m_fdStatus
      /\ DOMAIN m_fdToUser \subseteq Conns
  BY <1>1, <1>2 DEF EndsInv, ClosedIsDropped, IInv, MapsInv, MapsTyped, ConnectionMaps
<1>5. EndsInv'
  <2>1. DaemonsConnected'
    <3>1. \A v \in Users : sockfd[v] \in Conns
      BY <1>1 DEF DaemonTypeOK
    <3>2. QED
      BY <1>1, <1>2, <3>1 DEF EndsInv, DaemonsConnected
  <2>2. ClosedIsDropped'
    BY <1>1, <1>2 DEF EndsInv, ClosedIsDropped
  <2>3. OwnersKnown'
    BY <1>1, <1>2, <1>3, <1>4 DEF EndsInv, OwnersKnown
  <2>4. QED
    BY <2>1, <2>2, <2>3 DEF EndsInv
<1>6. FromClicks'
  <2>1. ASSUME NEW d \in Conns, NEW i \in DOMAIN toAgent[d] PROVE owner'[d] = owner[d]
    <3>1. d # c
      BY <1>4, <2>1
    <3>2. QED
      BY <1>2, <3>1
  <2>2. QED
    BY <1>1, <1>2, <1>3, <2>1 DEF FromClicks, Clicked
<1>7. AnswersCome'
  <2> SUFFICES ASSUME NEW d \in Conns, d \in DOMAIN m_fdStatus, ~m_fdStatus[d], "gui" \in ends'[d]
               PROVE  IF toGui'[d] # <<>> THEN EndsInRequest(toGui'[d])
                      ELSE \/ daemon'[owner'[d]] \in {"popup", "sending"}
                           \/ daemon'[owner'[d]] = "closing" /\ type'[owner'[d]] # "None"
                           \/ toAgent'[d] # <<>>
    BY <1>3 DEF AnswersCome, AnswerComing
  <2>1. d # c /\ ends'[d] = ends[d] /\ owner'[d] = owner[d]
    BY <1>2, <1>4
  <2>2. owner[d] \in Users /\ daemon[owner[d]] # "down"
    BY <1>1, <2>1 DEF EndsInv, DaemonsConnected
  <2>3. owner[d] # u
    BY <1>2, <2>2
  <2>4. QED
    BY <1>1, <1>2, <2>1, <2>2, <2>3 DEF AnswersCome, AnswerComing
<1>8. QED
  BY <1>5, <1>6, <1>7 DEF PInv

-----------------------------------------------------------------------------
(* The invariants hold in every state, and the properties follow.          *)

LEMMA InitAnswers == ASSUME Init PROVE PInv
<1>1. /\ \A c \in Conns : ends[c] = {} /\ toGui[c] = <<>> /\ toAgent[c] = <<>>
      /\ \A u \in Users : daemon[u] = "down" /\ type[u] = "None"
      /\ DOMAIN m_fdToUser = {} /\ DOMAIN m_fdStatus = {} /\ taken = {}
  BY DEF Init, SocketsInit, TalkerInit, DaemonInit, EmptyMap
<1>2. EndsInv
  BY <1>1 DEF EndsInv, DaemonsConnected, ClosedIsDropped, OwnersKnown
<1>3. FromClicks
  BY <1>1 DEF FromClicks
<1>4. AnswersCome
  BY <1>1 DEF AnswersCome, AnswerComing
<1>5. QED
  BY <1>2, <1>3, <1>4 DEF PInv

LEMMA StepAnswers == ASSUME IInv, IInv', TInv, PInv, [Next]_vars PROVE PInv'
<1>1. CASE UNCHANGED vars
  <2>1. UNCHANGED socketVars /\ UNCHANGED talkerVars /\ UNCHANGED daemonVars
    BY <1>1 DEF vars
  <2>2. EndsInv'
    BY <2>1 DEF PInv, EndsInv, DaemonsConnected, ClosedIsDropped, OwnersKnown,
                socketVars, talkerVars, daemonVars
  <2>3. FromClicks' /\ AnswersCome'
    BY <2>1 DEF PInv, FromClicks, Clicked, AnswersCome, AnswerComing, EndsInRequest,
                socketVars, talkerVars, daemonVars
  <2>4. QED
    BY <2>2, <2>3 DEF PInv
<1>2. CASE AgentActs /\ UNCHANGED daemonVars
  BY <1>2, ActsAreAgentSteps, AgentStepKeeps
<1>3. CASE \E u \in Users : Connect(u) /\ UNCHANGED talkerVars
  BY <1>3, ConnectKeepsAnswers
<1>4. CASE UNCHANGED <<socketVars, daemonVars>> /\ UNCHANGED talkerVars
  BY <1>1, <1>4 DEF vars
<1>5. CASE \E u \in Users : DaemonStep(u) /\ UNCHANGED talkerVars
  BY <1>4, <1>5, DaemonStepKinds, RunsKeeps, LeavesKeeps
<1>6. QED
  BY <1>1, <1>2, <1>3, <1>5 DEF Next, AgentActs, DaemonStep

LEMMA AnswersInvariance == Spec => [](IInv /\ TInv /\ PInv)
<1>1. Init => IInv /\ TInv /\ PInv
  BY InitInv, InitTyped, InitAnswers
<1>2. IInv /\ TInv /\ PInv /\ [Next]_vars => (IInv /\ TInv /\ PInv)'
  BY StepInv, StepTyped, StepAnswers
<1>3. QED
  BY <1>1, <1>2, PTL DEF Spec

\* Whatever crosses, is lost or comes from a connection that was replaced: an answer
\* that processEvents hands to the agent is the button that this user pressed for
\* this request, or the daemon's error.
THEOREM TakenAnswersWereClicked == Spec => []AnswersWereClicked
<1>1. ASSUME IInv, TInv, PInv PROVE AnswersWereClicked
  <2> SUFFICES ASSUME NEW a \in taken, a.type # "Error" PROVE a \in clicks
    BY DEF AnswersWereClicked
  <2>1. a = [user |-> a.user, id |-> a.id, type |-> a.type]
    BY <1>1 DEF TInv, TalkerInv, TalkerTyped, Answers
  <2>2. [user |-> a.user, id |-> a.id, type |-> a.type] \in clicks
    BY <1>1 DEF PInv, FromClicks, Clicked
  <2>3. QED
    BY <2>1, <2>2
<1>2. QED
  BY <1>1, AnswersInvariance, PTL

\* sendRequest never marks a connection as busy for good: while the daemon at its
\* other end runs, the request, the popup or the answer is there.
THEOREM BusyIsAnswered == Spec => []NoStall
<1>1. ASSUME IInv, TInv, PInv PROVE NoStall
  <2> SUFFICES ASSUME NEW c \in DOMAIN m_fdStatus, ~m_fdStatus[c], "gui" \in ends[c]
               PROVE  \/ \E i \in DOMAIN toGui[c] : toGui[c][i].kind \in {"request", "rest"}
                      \/ daemon[m_fdToUser[c]] \in {"popup", "closing", "sending"}
                      \/ toAgent[c] # <<>>
    BY DEF NoStall
  <2>1. c \in DOMAIN m_fdToUser /\ c \in Conns
    BY <1>1 DEF IInv, MapsInv, MapsTyped, ConnectionMaps
  <2>2. m_fdToUser[c] = owner[c] /\ toGui[c] \in Seq(GuiMessages)
    BY <1>1, <2>1 DEF PInv, EndsInv, OwnersKnown, TInv, TalkerInv, StreamsTyped
  <2>3. AnswerComing(c)
    BY <1>1, <2>1 DEF PInv, AnswersCome
  <2>4. CASE toGui[c] # <<>>
    <3>1. Len(toGui[c]) \in DOMAIN toGui[c]
      BY <2>2, <2>4
    <3>2. QED
      BY <2>3, <2>4, <3>1 DEF AnswerComing, EndsInRequest
  <2>5. CASE toGui[c] = <<>>
    BY <2>2, <2>3, <2>5 DEF AnswerComing
  <2>6. QED
    BY <2>4, <2>5
<1>2. QED
  BY <1>1, AnswersInvariance, PTL
=============================================================================
