--------------------------- MODULE AskUserProtocol ---------------------------
(***************************************************************************)
(* The agent's NotificationTalker and the notification daemons of all      *)
(* users, over their sockets: requests, answers, acknowledgements and      *)
(* dismissals that cross, connections that are lost and made again.        *)
(***************************************************************************)
EXTENDS NotificationTalker, NotificationDaemon

vars == <<socketVars, talkerVars, daemonVars>>

Init == SocketsInit /\ TalkerInit /\ DaemonInit

Next ==
  \/ \E u \in Users, id \in Ids : addRequest(u, id) /\ UNCHANGED daemonVars
  \/ \E id \in Ids : removeRequest(id) /\ UNCHANGED daemonVars
  \/ stop /\ UNCHANGED daemonVars
  \/ Select /\ UNCHANGED daemonVars
  \/ Stopped /\ UNCHANGED daemonVars
  \/ newConnection /\ UNCHANGED daemonVars
  \/ \E c \in Conns : Disconnected(c) /\ UNCHANGED daemonVars
  \/ \E c \in Conns : TakesStale(c) /\ UNCHANGED daemonVars
  \/ \E c \in Conns : TakesAnswer(c) /\ UNCHANGED daemonVars
  \/ \E c \in Conns : sendRequest(c) /\ UNCHANGED daemonVars
  \/ Fails /\ UNCHANGED daemonVars
  \/ \E u \in Users : Connect(u) /\ UNCHANGED talkerVars
  \/ \E u \in Users : ConnectFails(u) /\ UNCHANGED talkerVars
  \/ \E u \in Users : GetRequest(u) /\ UNCHANGED talkerVars
  \/ \E u \in Users : SizeExceedsLimits(u) /\ UNCHANGED talkerVars
  \/ \E u \in Users : ConnectionLost(u) /\ UNCHANGED talkerVars
  \/ \E u \in Users, t \in Clickable : Click(u, t) /\ UNCHANGED talkerVars
  \/ \E u \in Users : Dismissed(u) /\ UNCHANGED talkerVars
  \/ \E u \in Users : IncorrectDismissFlag(u) /\ UNCHANGED talkerVars
  \/ \E u \in Users : SelectFails(u) /\ UNCHANGED talkerVars
  \/ \E u \in Users : PopupEnds(u) /\ UNCHANGED talkerVars
  \/ \E u \in Users : SendAnswer(u) /\ UNCHANGED talkerVars
  \/ \E u \in Users : GetAck(u) /\ UNCHANGED talkerVars
  \/ \E u \in Users : IncorrectAck(u) /\ UNCHANGED talkerVars
  \/ \E u \in Users : Dies(u) /\ UNCHANGED talkerVars

Spec == Init /\ [][Next]_vars

\* The threads run, systemd starts a daemon that is down, and the user presses
\* a button sooner or later.  No fairness of failures, cancels or the stop.
Fairness ==
  /\ WF_vars(TalkerProgress /\ UNCHANGED daemonVars)
  /\ \A u \in Users :
       /\ WF_vars(Connect(u) /\ UNCHANGED talkerVars)
       /\ WF_vars((\E t \in Clickable : daemon[u] = "popup" /\ Click(u, t)) /\ UNCHANGED talkerVars)
       /\ WF_vars((\/ GetRequest(u) \/ SizeExceedsLimits(u) \/ ConnectionLost(u) \/ PopupEnds(u)
                   \/ SendAnswer(u) \/ GetAck(u) \/ IncorrectAck(u))
                  /\ UNCHANGED talkerVars)

FairSpec == Spec /\ Fairness

\* The talker seen from the agent's main thread.
Service == INSTANCE NotificationService
             WITH phase <- IF loop \in {"stopped", "crashed"} THEN "stopped"
                           ELSE IF loop = "failed" THEN "failed" ELSE "running",
                  pending <- IF loop \in Over THEN {} ELSE Queued,
                  answers <- [id \in Ids |-> {a.type : a \in {b \in taken : b.id = id}}]

-----------------------------------------------------------------------------
\* Every variable keeps its type, and the queues and maps the shape the code
\* takes for granted: no id twice in a queue.
TypeOK ==
  /\ SocketsTypeOK /\ TalkerTypeOK /\ DaemonTypeOK
  /\ \A u \in DOMAIN m_requests : IsInjective(m_requests[u])

\* The three maps of the connections agree: m_fdToUser and m_userToFd are each
\* other's inverse, m_fdStatus has the same descriptors, and these are the
\* sockets the agent has open, the ones in the backlog aside.
ConnectionMaps ==
  /\ DOMAIN m_fdStatus = DOMAIN m_fdToUser
  /\ \A u \in DOMAIN m_userToFd :
       m_userToFd[u] \in DOMAIN m_fdToUser /\ m_fdToUser[m_userToFd[u]] = u
  /\ \A c \in DOMAIN m_fdToUser :
       m_fdToUser[c] \in DOMAIN m_userToFd /\ m_userToFd[m_fdToUser[c]] = c
  /\ {c \in Conns : "agent" \in ends[c]} = DOMAIN m_fdToUser \cup Range(backlog)

\* A connection marked as busy by sendRequest has an answer coming: the request,
\* the popup or the answer is there, or the daemon is gone and the end of the
\* stream will be seen.  Otherwise its user would never be asked again.
NoStall ==
  loop \notin Over =>
    \A c \in DOMAIN m_fdStatus :
      ~m_fdStatus[c] =>
        \/ "gui" \notin ends[c]
        \/ \E i \in DOMAIN toGui[c] : toGui[c][i].kind \in {"request", "rest"}
        \/ daemon[m_fdToUser[c]] \in {"popup", "closing", "sending"}
        \/ toAgent[c] # <<>>

\* A popup that no dismissal is on its way to shows the request at the front of
\* its user's queue.
PopupIsCurrent ==
  loop \notin Over =>
    \A u \in DOMAIN m_userToFd :
      LET c == m_userToFd[u]
      IN daemon[u] = "popup" /\ sockfd[u] = c /\ toGui[c] = <<>> =>
           IsFront(request[u], u)

\* A request the agent waits for is in a queue, whatever happens to the
\* connections: newConnection and remove never lose one.
NothingLost ==
  loop \notin {"stopped", "crashed"} =>
    \A id \in Ids : asked[id] = "asked" => id \in Queued

\* An answer handed to the agent is one that this user gave to this request, or
\* an error of the daemon.
AnswersWereClicked == \A a \in taken : a.type = "Error" \/ a \in clicks

\* A daemon makes a setting only of an answer that the agent has taken: not of
\* one that crossed a dismissal or met another request.
SettingsWereTaken == levels \subseteq taken

\* A daemon that waits for a request is at the beginning of one: however answers,
\* dismissals, acknowledgements and requests cross, no code is left in front of a
\* size, and a size loses its first byte only when that byte is a code.
AtRequestBoundary ==
  \A u \in Users :
    daemon[u] = "waiting" /\ HasMessage(u) =>
      \/ Head(Incoming(u)).kind = "request"
      \/ Head(Incoming(u)) = Rest /\ AckSized \cup DismissSized # {}

\* While the threads run and users answer, every request is answered, taken back
\* or reported as failed, once no request that the daemons refuse is in the
\* queues: deaths, refusals and reconnections delay it only.
RequestsAreAnswered ==
  <>[](Oversized \cap Queued = {}) =>
    \A id \in Ids :
      asked[id] = "asked" ~> asked[id] # "asked" \/ loop \in {"stopped", "crashed"}

\* However connections break and messages cross, the talker does for the agent what
\* NotificationService says: it answers only what it was asked and drops nothing.
ImplementsService == Service!ServiceSpec

\* A cancel leaves its request in a queue only when a user in front, in the order of the
\* map, has a queue without it: with one user, and with requests of the first user,
\* removeRequest does what it is called for.
CancelMissesOnlyBehindAnother ==
  [][\A id \in Ids :
       removeRequest(id) /\ id \in Queued' =>
         \E u, v \in DOMAIN m_requests :
           v < u /\ IsQueued(id, u) /\ ~IsQueued(id, v)]_vars

\* removeRequest removes the request, as test/daemon/notificationTalker.cpp
\* asserts of a queue of one user.
CancelRemoves == [][\A id \in Ids : removeRequest(id) => id \notin Queued']_vars
=============================================================================
