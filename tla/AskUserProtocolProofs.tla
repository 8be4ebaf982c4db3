----------------------- MODULE AskUserProtocolProofs ------------------------
(***************************************************************************)
(* The connections and the types of the agent and the notification         *)
(* daemons, for any users, connections, ids and bounds: the maps of the    *)
(* connections first, then queues, streams and daemons.                    *)
(***************************************************************************)
EXTENDS AskUserProtocol, SequenceTheorems, TLAPS

-----------------------------------------------------------------------------
(* Queues of pending connections.                                          *)

\* accept takes the head of the backlog, which is in it only once.
LEMMA HeadAndTail ==
  ASSUME NEW S, NEW s \in Seq(S), s # <<>>, IsInjective(s)
  PROVE  /\ Head(s) \in S
         /\ Tail(s) \in Seq(S)
         /\ IsInjective(Tail(s))
         /\ Range(s) = {Head(s)} \cup Range(Tail(s))
         /\ Head(s) \notin Range(Tail(s))
<1> DEFINE t == Tail(s)
<1>1. /\ s \in [1 .. Len(s) -> S] /\ Len(s) \in Nat /\ Len(s) >= 1
      /\ DOMAIN s = 1 .. Len(s)
  OBVIOUS
<1>2. /\ t \in Seq(S) /\ Len(t) = Len(s) - 1 /\ DOMAIN t = 1 .. Len(s) - 1
      /\ \A i \in 1 .. Len(s) - 1 : t[i] = s[i + 1]
  BY <1>1
<1>3. Head(s) = s[1] /\ 1 \in DOMAIN s
  BY <1>1
<1> HIDE DEF t
<1>4. \A i \in DOMAIN t : i + 1 \in DOMAIN s /\ i + 1 # 1 /\ t[i] = s[i + 1]
  BY <1>1, <1>2
<1>5. IsInjective(t)
  <2> SUFFICES ASSUME NEW i \in DOMAIN t, NEW j \in DOMAIN t, t[i] = t[j] PROVE i = j
    BY DEF IsInjective
  <2>1. s[i + 1] = s[j + 1] /\ i + 1 \in DOMAIN s /\ j + 1 \in DOMAIN s
    BY <1>4
  <2>2. i + 1 = j + 1 /\ i \in Int /\ j \in Int
    BY <2>1, <1>2 DEF IsInjective
  <2>3. QED
    BY <2>2
<1>6. \A i \in DOMAIN s : i = 1 \/ (i - 1 \in DOMAIN t /\ t[i - 1] = s[i])
  BY <1>1, <1>2
<1>7. Range(s) \subseteq {Head(s)} \cup Range(t)
  BY <1>3, <1>6 DEF Range
<1>8. Range(t) \subseteq Range(s) /\ Head(s) \in Range(s)
  BY <1>3, <1>4 DEF Range
<1>9. Head(s) \notin Range(t)
  BY <1>3, <1>4 DEF Range, IsInjective
<1>10. QED
  BY <1>1, <1>2, <1>3, <1>5, <1>7, <1>8, <1>9 DEF t

\* A new connection goes to the end of the backlog.
LEMMA AppendToSequence ==
  ASSUME NEW S, NEW s \in Seq(S), NEW x \in S, x \notin Range(s), IsInjective(s)
  PROVE  /\ Append(s, x) \in Seq(S)
         /\ IsInjective(Append(s, x))
         /\ Range(Append(s, x)) = Range(s) \cup {x}
         /\ Append(s, x) # <<>>
<1> DEFINE t == Append(s, x)
<1>1. DOMAIN s = 1 .. Len(s) /\ Len(s) \in Nat
  OBVIOUS
<1>2. /\ t \in Seq(S) /\ Len(t) = Len(s) + 1 /\ DOMAIN t = 1 .. Len(s) + 1 /\ t # <<>>
      /\ t[Len(s) + 1] = x /\ \A i \in 1 .. Len(s) : t[i] = s[i]
  BY <1>1
<1> HIDE DEF t
<1>3. \A i \in DOMAIN t : (i = Len(s) + 1 /\ t[i] = x) \/ (i \in DOMAIN s /\ t[i] = s[i])
  BY <1>1, <1>2
<1>4. \A i \in DOMAIN s : i \in DOMAIN t /\ t[i] = s[i]
  BY <1>1, <1>2
<1>5. \A i \in DOMAIN s : s[i] # x
  BY DEF Range
<1>6. IsInjective(t)
  BY <1>3, <1>5 DEF IsInjective
<1>7. Range(t) \subseteq Range(s) \cup {x}
  BY <1>3 DEF Range
<1>8. Range(s) \subseteq Range(t)
  BY <1>4 DEF Range
<1>9. x \in Range(t)
  BY <1>1, <1>2, Len(s) + 1 \in DOMAIN t DEF Range
<1>10. QED
  BY <1>2, <1>6, <1>7, <1>8, <1>9 DEF t

-----------------------------------------------------------------------------
(* The invariant.                                                          *)

\* The descriptors the agent has open.
AgentEnds == {c \in Conns : "agent" \in ends[c]}

MapsTyped ==
  /\ m_userToFd \in [DOMAIN m_userToFd -> Conns] /\ DOMAIN m_userToFd \subseteq Users
  /\ m_fdToUser \in [DOMAIN m_fdToUser -> Users] /\ DOMAIN m_fdToUser \subseteq Conns

SocketsTyped ==
  /\ ends \in [Conns -> SUBSET {"agent", "gui"}]
  /\ owner \in [Conns -> Users]

\* A connection is in the backlog once, and not among the accepted ones.
BacklogFresh ==
  /\ backlog \in Seq(Conns)
  /\ IsInjective(backlog)
  /\ Range(backlog) \cap DOMAIN m_fdToUser = {}

\* What the loop has yet to serve is connected.
LoopServes ==
  /\ loop = "accept" => backlog # <<>>
  /\ loop \in {"recv", "send"} => todo \subseteq DOMAIN m_fdToUser

MapsInv == MapsTyped /\ SocketsTyped /\ BacklogFresh /\ ConnectionMaps
IInv == MapsInv /\ LoopServes

\* Forgetting descriptors keeps the three maps in agreement.
LEMMA ForgetKeepsMaps ==
  ASSUME MapsInv, NEW cs, cs \subseteq DOMAIN m_fdToUser,
         m_userToFd' = Restrict(m_userToFd, DOMAIN m_userToFd \ {m_fdToUser[c] : c \in cs}),
         m_fdToUser' = Restrict(m_fdToUser, DOMAIN m_fdToUser \ cs),
         DOMAIN m_fdStatus' = DOMAIN m_fdStatus \ cs,
         AgentCloses(cs), UNCHANGED <<owner, backlog>>
  PROVE  MapsInv'
<1>1. /\ DOMAIN m_userToFd' = DOMAIN m_userToFd \ {m_fdToUser[c] : c \in cs}
      /\ \A u \in DOMAIN m_userToFd' : m_userToFd'[u] = m_userToFd[u]
  BY DEF Restrict
<1>2. /\ DOMAIN m_fdToUser' = DOMAIN m_fdToUser \ cs
      /\ \A c \in DOMAIN m_fdToUser' : m_fdToUser'[c] = m_fdToUser[c]
  BY DEF Restrict
<1>3. MapsTyped'
  BY DEF MapsInv, MapsTyped, Restrict
<1>4. SocketsTyped'
  BY DEF MapsInv, SocketsTyped, AgentCloses
<1>5. BacklogFresh'
  BY <1>2 DEF MapsInv, BacklogFresh
<1>6. AgentEnds' = AgentEnds \ cs
  BY DEF AgentEnds, AgentCloses, MapsInv, SocketsTyped
<1>7. (DOMAIN m_fdStatus = DOMAIN m_fdToUser)'
  BY <1>2 DEF MapsInv, ConnectionMaps
<1>8. ASSUME NEW u \in DOMAIN m_userToFd'
      PROVE  m_userToFd'[u] \in DOMAIN m_fdToUser' /\ m_fdToUser'[m_userToFd'[u]] = u
  <2>1. m_userToFd[u] \in DOMAIN m_fdToUser /\ m_fdToUser[m_userToFd[u]] = u
    BY <1>1, <1>8 DEF MapsInv, ConnectionMaps
  <2>2. m_userToFd[u] \notin cs
    BY <1>1, <1>8, <2>1
  <2>3. QED
    BY <1>1, <1>2, <1>8, <2>1, <2>2
<1>9. ASSUME NEW c \in DOMAIN m_fdToUser'
      PROVE  m_fdToUser'[c] \in DOMAIN m_userToFd' /\ m_userToFd'[m_fdToUser'[c]] = c
  <2>1. m_fdToUser[c] \in DOMAIN m_userToFd /\ m_userToFd[m_fdToUser[c]] = c /\ c \notin cs
    BY <1>2, <1>9 DEF MapsInv, ConnectionMaps
  <2>2. ASSUME NEW d \in cs, m_fdToUser[d] = m_fdToUser[c] PROVE FALSE
    BY <2>1, <2>2 DEF MapsInv, ConnectionMaps
  <2>3. QED
    BY <1>1, <1>2, <1>9, <2>1, <2>2
<1>10. AgentEnds' = DOMAIN m_fdToUser' \cup Range(backlog')
  BY <1>2, <1>6 DEF MapsInv, ConnectionMaps, BacklogFresh, AgentEnds
<1>11. QED
  BY <1>3, <1>4, <1>5, <1>7, <1>8, <1>9, <1>10 DEF MapsInv, ConnectionMaps, AgentEnds

\* remove, of one descriptor.
LEMMA RemovedKeepsMaps ==
  ASSUME MapsInv, NEW c \in DOMAIN m_fdToUser, Removed({c}), UNCHANGED <<owner, backlog>>
  PROVE  MapsInv' /\ DOMAIN m_fdToUser' = DOMAIN m_fdToUser \ {c}
<1>1. DOMAIN m_fdStatus' = DOMAIN m_fdStatus \ {c}
  BY DEF Removed, Restrict
<1>2. MapsInv'
  BY <1>1, ForgetKeepsMaps DEF Removed
<1>3. QED
  BY <1>2 DEF Removed, Restrict

\* clear, and a process that is gone.
LEMMA AllClosedKeeps ==
  ASSUME MapsInv, AllClosed, loop' \in {"stopped", "crashed"}
  PROVE  IInv'
<1>1. DOMAIN m_userToFd' = {} /\ DOMAIN m_fdToUser' = {} /\ DOMAIN m_fdStatus' = {}
  BY DEF AllClosed, EmptyMap
<1>2. MapsTyped'
  BY <1>1 DEF MapsTyped, AllClosed, EmptyMap
<1>3. SocketsTyped'
  BY DEF MapsInv, SocketsTyped, AllClosed, AgentCloses
<1>4. backlog' = <<>> /\ Range(backlog') = {}
  BY DEF AllClosed, Range
<1>5. BacklogFresh'
  BY <1>4 DEF BacklogFresh, IsInjective
<1>6. AgentEnds' = {}
  BY DEF AgentEnds, AllClosed, AgentCloses, MapsInv, SocketsTyped
<1>7. ConnectionMaps'
  BY <1>1, <1>4, <1>6 DEF ConnectionMaps, AgentEnds
<1>8. QED
  BY <1>2, <1>3, <1>5, <1>7 DEF IInv, MapsInv, LoopServes

\* The loop goes on with connected descriptors.
LEMMA ThenSendServes ==
  ASSUME NEW cs, ThenSend(cs), cs \subseteq DOMAIN m_fdToUser'
  PROVE  LoopServes'
  BY DEF ThenSend, LoopServes

LEMMA ThenRecvServes ==
  ASSUME NEW cs, NEW requests, ThenRecv(cs, requests), cs \subseteq DOMAIN m_fdToUser',
         DOMAIN m_fdStatus' = DOMAIN m_fdToUser'
  PROVE  LoopServes'
<1>1. CASE cs # {}
  BY <1>1 DEF ThenRecv, LoopServes
<1>2. CASE cs = {}
  <2>1. ThenSend(Sendable) /\ Sendable \subseteq DOMAIN m_fdToUser'
    BY <1>2 DEF ThenRecv, Sendable
  <2>2. QED
    BY <2>1, ThenSendServes
<1>3. QED
  BY <1>1, <1>2

\* What leaves the maps, the backlog and the agent's ends alone.
LEMMA MapsUnchanged ==
  ASSUME MapsInv, SocketsTyped', AgentEnds' = AgentEnds,
         UNCHANGED <<m_userToFd, m_fdToUser, backlog>>,
         DOMAIN m_fdStatus' = DOMAIN m_fdStatus
  PROVE  MapsInv'
<1>1. MapsTyped' /\ BacklogFresh'
  BY DEF MapsInv, MapsTyped, BacklogFresh
<1>2. ConnectionMaps'
  BY DEF MapsInv, ConnectionMaps, AgentEnds
<1>3. QED
  BY <1>1, <1>2 DEF MapsInv

\* newConnection gives the user of the pending connection a new descriptor.
LEMMA NewConnectionKeeps ==
  ASSUME IInv, newConnection
  PROVE  IInv'
<1> DEFINE c == Head(backlog)
           u == owner[c]
           old == {m_userToFd[v] : v \in {u} \cap DOMAIN m_userToFd}
<1>1. /\ c \in Conns /\ c \in Range(backlog) /\ c \notin Range(backlog')
      /\ backlog' \in Seq(Conns) /\ IsInjective(backlog')
      /\ Range(backlog) = {c} \cup Range(backlog')
  <2>1. loop = "accept" /\ backlog' = Tail(backlog)
    BY DEF newConnection
  <2>2. backlog # <<>> /\ backlog \in Seq(Conns) /\ IsInjective(backlog)
    BY <2>1 DEF IInv, LoopServes, MapsInv, BacklogFresh
  <2>3. QED
    BY <2>1, <2>2, HeadAndTail
<1>2. u \in Users
  BY <1>1 DEF IInv, MapsInv, SocketsTyped
<1>3. c \notin DOMAIN m_fdToUser
  BY <1>1 DEF IInv, MapsInv, BacklogFresh
<1>4. \A d : d \in old <=> d \in DOMAIN m_fdToUser /\ m_fdToUser[d] = u
  BY DEF IInv, MapsInv, ConnectionMaps
<1>5. /\ m_userToFd' = With(m_userToFd, u, c)
      /\ m_fdToUser' = With(Restrict(m_fdToUser, DOMAIN m_fdToUser \ old), c, u)
      /\ m_fdStatus' = With(Restrict(m_fdStatus, DOMAIN m_fdStatus \ old), c, TRUE)
      /\ AgentCloses(old)
      /\ owner' = owner
  BY DEF newConnection
<1> HIDE DEF c, u, old
<1>6. /\ DOMAIN m_userToFd' = DOMAIN m_userToFd \cup {u}
      /\ m_userToFd'[u] = c
      /\ \A v \in DOMAIN m_userToFd : v # u => m_userToFd'[v] = m_userToFd[v]
  BY <1>5 DEF With
<1>7. /\ DOMAIN m_fdToUser' = (DOMAIN m_fdToUser \ old) \cup {c}
      /\ m_fdToUser'[c] = u
      /\ \A d \in DOMAIN m_fdToUser \ old : d # c => m_fdToUser'[d] = m_fdToUser[d]
  BY <1>5 DEF With, Restrict
<1>8. DOMAIN m_fdStatus' = (DOMAIN m_fdStatus \ old) \cup {c}
  BY <1>5 DEF With, Restrict
<1>9. MapsTyped'
  <2>1. m_userToFd' = [v \in DOMAIN m_userToFd' |-> m_userToFd'[v]]
    BY <1>5 DEF With
  <2>2. m_fdToUser' = [d \in DOMAIN m_fdToUser' |-> m_fdToUser'[d]]
    BY <1>5 DEF With
  <2>3. \A v \in DOMAIN m_userToFd' : v \in Users /\ m_userToFd'[v] \in Conns
    BY <1>1, <1>2, <1>6 DEF IInv, MapsInv, MapsTyped
  <2>4. \A d \in DOMAIN m_fdToUser' : d \in Conns /\ m_fdToUser'[d] \in Users
    BY <1>1, <1>2, <1>7 DEF IInv, MapsInv, MapsTyped
  <2>5. QED
    BY <2>1, <2>2, <2>3, <2>4 DEF MapsTyped
<1>10. SocketsTyped'
  BY <1>5 DEF IInv, MapsInv, SocketsTyped, AgentCloses
<1>11. BacklogFresh'
  BY <1>1, <1>7 DEF IInv, MapsInv, BacklogFresh
<1>12. DOMAIN m_fdStatus' = DOMAIN m_fdToUser'
  BY <1>7, <1>8 DEF IInv, MapsInv, ConnectionMaps
<1>13. ASSUME NEW v \in DOMAIN m_userToFd'
       PROVE  m_userToFd'[v] \in DOMAIN m_fdToUser' /\ m_fdToUser'[m_userToFd'[v]] = v
  <2>1. CASE v = u
    BY <1>6, <1>7, <2>1
  <2>2. CASE v # u
    <3>1. v \in DOMAIN m_userToFd /\ m_userToFd'[v] = m_userToFd[v]
      BY <1>6, <1>13, <2>2
    <3>2. m_userToFd[v] \in DOMAIN m_fdToUser /\ m_fdToUser[m_userToFd[v]] = v
      BY <3>1 DEF IInv, MapsInv, ConnectionMaps
    <3>3. m_userToFd[v] \notin old /\ m_userToFd[v] # c
      BY <1>3, <1>4, <2>2, <3>2
    <3>4. QED
      BY <1>7, <3>1, <3>2, <3>3
  <2>3. QED
    BY <2>1, <2>2
<1>14. ASSUME NEW d \in DOMAIN m_fdToUser'
       PROVE  m_fdToUser'[d] \in DOMAIN m_userToFd' /\ m_userToFd'[m_fdToUser'[d]] = d
  <2>1. CASE d = c
    BY <1>6, <1>7, <2>1
  <2>2. CASE d # c
    <3>1. d \in DOMAIN m_fdToUser /\ d \notin old /\ m_fdToUser'[d] = m_fdToUser[d]
      BY <1>7, <1>14, <2>2
    <3>2. m_fdToUser[d] \in DOMAIN m_userToFd /\ m_userToFd[m_fdToUser[d]] = d
      BY <3>1 DEF IInv, MapsInv, ConnectionMaps
    <3>3. m_fdToUser[d] # u
      BY <1>4, <3>1
    <3>4. QED
      BY <1>6, <3>1, <3>2, <3>3
  <2>3. QED
    BY <2>1, <2>2
<1>15. AgentEnds' = AgentEnds \ old
  BY <1>5 DEF AgentEnds, AgentCloses, IInv, MapsInv, SocketsTyped
<1>16. AgentEnds' = DOMAIN m_fdToUser' \cup Range(backlog')
  <2>1. AgentEnds = DOMAIN m_fdToUser \cup Range(backlog)
    BY DEF IInv, MapsInv, ConnectionMaps, AgentEnds
  <2>2. Range(backlog) \cap old = {}
    BY <1>4 DEF IInv, MapsInv, BacklogFresh
  <2>3. QED
    BY <1>1, <1>7, <1>15, <2>1, <2>2
<1>17. MapsInv'
  BY <1>9, <1>10, <1>11, <1>12, <1>13, <1>14, <1>16 DEF MapsInv, ConnectionMaps, AgentEnds
<1>18. ThenRecv(todo \cap DOMAIN m_fdToUser', m_requests)
  BY DEF newConnection
<1>19. LoopServes'
  BY <1>12, <1>18, ThenRecvServes
<1>20. QED
  BY <1>17, <1>19 DEF IInv

\* removeRequest forgets a descriptor whose daemon does not get the dismissal.
LEMMA RemoveRequestKeeps ==
  ASSUME IInv, NEW id \in Ids, removeRequest(id)
  PROVE  IInv'
<1> DEFINE dismissed == {c \in ToDismiss(id) : "gui" \in ends[c]}
           broken == ToDismiss(id) \ dismissed
<1>1. broken \subseteq DOMAIN m_fdToUser
  BY DEF ToDismiss, IInv, MapsInv, ConnectionMaps
<1>2. /\ m_userToFd' = Restrict(m_userToFd,
                                DOMAIN m_userToFd \ {m_fdToUser[c] : c \in broken})
      /\ m_fdToUser' = Restrict(m_fdToUser, DOMAIN m_fdToUser \ broken)
      /\ DOMAIN m_fdStatus' = DOMAIN m_fdStatus \ broken
      /\ AgentCloses(broken)
      /\ UNCHANGED <<owner, backlog, loop>>
      /\ loop = "idle"
  BY DEF removeRequest
<1> HIDE DEF dismissed, broken
<1>3. MapsInv'
  BY <1>1, <1>2, ForgetKeepsMaps DEF IInv
<1>4. QED
  BY <1>2, <1>3 DEF IInv, LoopServes

\* select leaves the connections alone and finds connected descriptors only.
LEMMA SelectKeeps ==
  ASSUME IInv, Select
  PROVE  IInv'
<1> DEFINE ready == {c \in DOMAIN m_fdToUser : ReadableByAgent(c)}
<1>1. UNCHANGED <<socketVars, connectionVars>>
  BY DEF Select
<1>2. MapsInv'
  BY <1>1, MapsUnchanged
     DEF IInv, MapsInv, SocketsTyped, AgentEnds, socketVars, connectionVars
<1>3. DOMAIN m_fdStatus' = DOMAIN m_fdToUser' /\ ready \subseteq DOMAIN m_fdToUser'
  BY <1>1 DEF connectionVars, IInv, MapsInv, ConnectionMaps
<1>4. LoopServes'
  <2>1. CASE backlog # <<>>
    BY <1>1, <2>1 DEF Select, LoopServes, socketVars
  <2>2. CASE backlog = <<>>
    <3>1. ThenRecv(ready, m_requests)
      BY <2>2 DEF Select
    <3>2. QED
      BY <1>3, <3>1, ThenRecvServes
  <2>3. QED
    BY <2>1, <2>2
<1>5. QED
  BY <1>2, <1>4 DEF IInv

\* An iteration goes on over what is left of the connected descriptors.
LEMMA RestIsServed ==
  ASSUME IInv, loop \in {"recv", "send"}, NEW c \in todo,
         NEW cs, cs \subseteq todo \ {c}
  PROVE  cs \subseteq DOMAIN m_fdToUser \ {c} /\ c \in DOMAIN m_fdToUser
  BY DEF IInv, LoopServes

\* The end of the stream.
LEMMA DisconnectedKeeps ==
  ASSUME IInv, NEW c \in Conns, Disconnected(c)
  PROVE  IInv'
<1>1. loop = "recv" /\ c \in todo /\ c \in DOMAIN m_fdToUser
  BY DEF Disconnected, IInv, LoopServes
<1>2. CASE Crash
  BY <1>2, AllClosedKeeps DEF Crash, IInv
<1>3. CASE ~Crash
  <2>1. Removed({c}) /\ UNCHANGED <<owner, backlog>>
    BY <1>3 DEF Disconnected
  <2>2. PICK cs \in SUBSET (todo \ {c}) : ThenRecv(cs, m_requests)
    BY <1>3 DEF Disconnected
  <2>3. MapsInv' /\ DOMAIN m_fdToUser' = DOMAIN m_fdToUser \ {c}
    BY <1>1, <2>1, RemovedKeepsMaps DEF IInv
  <2>4. cs \subseteq DOMAIN m_fdToUser'
    BY <1>1, <2>2, <2>3, RestIsServed
  <2>5. DOMAIN m_fdStatus' = DOMAIN m_fdToUser'
    BY <2>3 DEF MapsInv, ConnectionMaps
  <2>6. QED
    BY <2>2, <2>3, <2>4, <2>5, ThenRecvServes DEF IInv
<1>4. QED
  BY <1>2, <1>3

\* A stale answer is dropped.
LEMMA TakesStaleKeeps ==
  ASSUME IInv, NEW c \in Conns, TakesStale(c)
  PROVE  IInv'
<1>1. loop = "recv" /\ c \in todo /\ todo \subseteq DOMAIN m_fdToUser
  BY DEF TakesStale, IInv, LoopServes
<1>2. /\ UNCHANGED <<ends, owner, backlog, m_userToFd, m_fdToUser>>
      /\ DOMAIN m_fdStatus' = DOMAIN m_fdStatus
  BY DEF TakesStale
<1>3. MapsInv'
  BY <1>2, MapsUnchanged DEF IInv, MapsInv, SocketsTyped, AgentEnds
<1>4. PICK requests : ThenRecv(todo \ {c}, requests)
  BY DEF TakesStale
<1>5. todo \ {c} \subseteq DOMAIN m_fdToUser' /\ DOMAIN m_fdStatus' = DOMAIN m_fdToUser'
  BY <1>1, <1>2, <1>3 DEF MapsInv, ConnectionMaps
<1>6. QED
  BY <1>3, <1>4, <1>5, ThenRecvServes DEF IInv

\* An answer is taken and acknowledged.
LEMMA TakesAnswerKeeps ==
  ASSUME IInv, NEW c \in Conns, TakesAnswer(c)
  PROVE  IInv'
<1> DEFINE rest == [m_requests EXCEPT ![m_fdToUser[c]] = Tail(@)]
<1>1. loop = "recv" /\ c \in todo /\ c \in DOMAIN m_fdToUser
  BY DEF TakesAnswer, IInv, LoopServes
<1>2. CASE Crash
  BY <1>2, AllClosedKeeps DEF Crash, IInv
<1>3. CASE "gui" \in ends[c]
  <2>1. /\ UNCHANGED <<ends, owner, backlog, m_userToFd, m_fdToUser>>
        /\ DOMAIN m_fdStatus' = DOMAIN m_fdStatus
        /\ ThenRecv(todo \ {c}, rest)
    BY <1>3 DEF TakesAnswer
  <2> HIDE DEF rest
  <2>2. MapsInv'
    BY <2>1, MapsUnchanged DEF IInv, MapsInv, SocketsTyped, AgentEnds
  <2>3. todo \ {c} \subseteq DOMAIN m_fdToUser' /\ DOMAIN m_fdStatus' = DOMAIN m_fdToUser'
    BY <1>1, <2>1, <2>2 DEF MapsInv, ConnectionMaps, IInv, LoopServes
  <2>4. QED
    BY <2>1, <2>2, <2>3, ThenRecvServes DEF IInv
<1>4. CASE "gui" \notin ends[c] /\ ~Crash
  <2>1. Removed({c}) /\ UNCHANGED <<owner, backlog>>
    BY <1>4 DEF TakesAnswer
  <2>2. PICK cs \in SUBSET (todo \ {c}) : ThenRecv(cs, rest)
    BY <1>4 DEF TakesAnswer
  <2> HIDE DEF rest
  <2>3. MapsInv' /\ DOMAIN m_fdToUser' = DOMAIN m_fdToUser \ {c}
    BY <1>1, <2>1, RemovedKeepsMaps DEF IInv
  <2>4. cs \subseteq DOMAIN m_fdToUser'
    BY <1>1, <2>2, <2>3, RestIsServed
  <2>5. DOMAIN m_fdStatus' = DOMAIN m_fdToUser'
    BY <2>3 DEF MapsInv, ConnectionMaps
  <2>6. QED
    BY <2>2, <2>3, <2>4, <2>5, ThenRecvServes DEF IInv
<1>5. QED
  BY <1>2, <1>3, <1>4

\* A request is sent.
LEMMA SendRequestKeeps ==
  ASSUME IInv, NEW c \in Conns, sendRequest(c)
  PROVE  IInv'
<1>1. loop = "send" /\ c \in todo /\ c \in DOMAIN m_fdToUser
  BY DEF sendRequest, IInv, LoopServes
<1>2. CASE Crash
  BY <1>2, AllClosedKeeps DEF Crash, IInv
<1>3. CASE "gui" \in ends[c]
  <2>1. /\ UNCHANGED <<ends, owner, backlog, m_userToFd, m_fdToUser>>
        /\ DOMAIN m_fdStatus' = DOMAIN m_fdStatus
        /\ ThenSend(todo \ {c})
    BY <1>3 DEF sendRequest
  <2>2. MapsInv'
    BY <2>1, MapsUnchanged DEF IInv, MapsInv, SocketsTyped, AgentEnds
  <2>3. todo \ {c} \subseteq DOMAIN m_fdToUser'
    BY <1>1, <2>1 DEF IInv, LoopServes
  <2>4. QED
    BY <2>1, <2>2, <2>3, ThenSendServes DEF IInv
<1>4. CASE "gui" \notin ends[c] /\ ~Crash
  <2>1. Removed({c}) /\ UNCHANGED <<owner, backlog>>
    BY <1>4 DEF sendRequest
  <2>2. PICK cs \in SUBSET (todo \ {c}) : ThenSend(cs)
    BY <1>4 DEF sendRequest
  <2>3. MapsInv' /\ DOMAIN m_fdToUser' = DOMAIN m_fdToUser \ {c}
    BY <1>1, <2>1, RemovedKeepsMaps DEF IInv
  <2>4. cs \subseteq DOMAIN m_fdToUser'
    BY <1>1, <2>2, <2>3, RestIsServed
  <2>5. QED
    BY <2>2, <2>3, <2>4, ThenSendServes DEF IInv
<1>5. QED
  BY <1>2, <1>3, <1>4

\* The loop fails; a connection whose credentials cannot be read is closed.
LEMMA FailsKeeps ==
  ASSUME IInv, Fails
  PROVE  IInv'
<1>1. loop' = "failed" /\ UNCHANGED connectionVars
  BY DEF Fails
<1>2. LoopServes'
  BY <1>1 DEF LoopServes
<1>3. CASE UNCHANGED socketVars
  BY <1>1, <1>2, <1>3, MapsUnchanged
     DEF IInv, MapsInv, SocketsTyped, AgentEnds, socketVars, connectionVars
<1>4. CASE ~UNCHANGED socketVars
  <2> DEFINE c == Head(backlog)
  <2>1. loop = "accept" /\ AgentCloses({c}) /\ backlog' = Tail(backlog) /\ owner' = owner
    BY <1>4 DEF Fails
  <2>2. backlog # <<>> /\ backlog \in Seq(Conns) /\ IsInjective(backlog)
    BY <2>1 DEF IInv, LoopServes, MapsInv, BacklogFresh
  <2>3. /\ c \in Conns /\ c \notin Range(backlog')
        /\ backlog' \in Seq(Conns) /\ IsInjective(backlog')
        /\ Range(backlog) = {c} \cup Range(backlog')
    BY <2>1, <2>2, HeadAndTail
  <2> HIDE DEF c
  <2>4. MapsTyped' /\ SocketsTyped' /\ BacklogFresh'
    BY <1>1, <2>1, <2>3
       DEF IInv, MapsInv, MapsTyped, SocketsTyped, BacklogFresh, connectionVars, AgentCloses
  <2>5. AgentEnds' = AgentEnds \ {c}
    BY <2>1 DEF AgentEnds, AgentCloses, IInv, MapsInv, SocketsTyped
  <2>6. AgentEnds = DOMAIN m_fdToUser \cup Range(backlog) /\ c \notin DOMAIN m_fdToUser
    BY <2>3 DEF IInv, MapsInv, ConnectionMaps, AgentEnds, BacklogFresh
  <2>7. AgentEnds' = DOMAIN m_fdToUser' \cup Range(backlog')
    BY <1>1, <2>3, <2>5, <2>6 DEF connectionVars
  <2>8. ConnectionMaps'
    BY <1>1, <2>7 DEF ConnectionMaps, AgentEnds, connectionVars, IInv, MapsInv
  <2>9. QED
    BY <1>2, <2>4, <2>8 DEF IInv, MapsInv
<1>5. QED
  BY <1>3, <1>4

\* A daemon connects: the connection was closed at both ends before.
LEMMA ConnectKeeps ==
  ASSUME IInv, NEW u \in Users, Connect(u), UNCHANGED talkerVars
  PROVE  IInv'
<1> DEFINE c == CHOOSE d \in Closed : TRUE
<1>1. c \in Conns /\ ends[c] = {}
  BY DEF Connect, Closed
<1>2. Connected(c, u)
  BY DEF Connect
<1> HIDE DEF c
<1>3. AgentEnds = DOMAIN m_fdToUser \cup Range(backlog)
  BY DEF IInv, MapsInv, ConnectionMaps, AgentEnds
<1>4. c \notin DOMAIN m_fdToUser /\ c \notin Range(backlog)
  BY <1>1, <1>3 DEF AgentEnds
<1>5. /\ backlog' \in Seq(Conns) /\ IsInjective(backlog') /\ backlog' # <<>>
      /\ Range(backlog') = Range(backlog) \cup {c}
  <2>1. backlog \in Seq(Conns) /\ IsInjective(backlog) /\ backlog' = Append(backlog, c)
    BY <1>2 DEF Connected, IInv, MapsInv, BacklogFresh
  <2>2. QED
    BY <1>1, <1>4, <2>1, AppendToSequence
<1>6. SocketsTyped' /\ AgentEnds' = AgentEnds \cup {c}
  BY <1>1, <1>2 DEF Connected, IInv, MapsInv, SocketsTyped, AgentEnds
<1>7. UNCHANGED <<m_userToFd, m_fdToUser, m_fdStatus, loop, todo>>
  BY DEF talkerVars
<1>8. MapsTyped' /\ BacklogFresh' /\ LoopServes'
  BY <1>4, <1>5, <1>7 DEF IInv, MapsInv, MapsTyped, BacklogFresh, LoopServes
<1>9. ConnectionMaps'
  BY <1>3, <1>5, <1>6, <1>7 DEF IInv, MapsInv, ConnectionMaps, AgentEnds
<1>10. QED
  BY <1>6, <1>8, <1>9 DEF IInv, MapsInv

\* No other step of a daemon touches the agent's end of a connection.
LEMMA DaemonKeeps ==
  ASSUME IInv, UNCHANGED talkerVars, UNCHANGED <<owner, backlog>>,
         ends' = ends \/ \E c : ends' = [ends EXCEPT ![c] = @ \ {"gui"}]
  PROVE  IInv'
<1>1. SocketsTyped' /\ AgentEnds' = AgentEnds
  BY DEF IInv, MapsInv, SocketsTyped, AgentEnds
<1>2. UNCHANGED <<m_userToFd, m_fdToUser, m_fdStatus, loop, todo>>
  BY DEF talkerVars
<1>3. MapsInv'
  BY <1>1, <1>2, MapsUnchanged DEF IInv
<1>4. QED
  BY <1>2, <1>3 DEF IInv, LoopServes

\* The steps of a daemon, the one that connects aside.
DaemonStep(u) ==
  \/ ConnectFails(u) \/ GetRequest(u) \/ SizeExceedsLimits(u) \/ ConnectionLost(u)
  \/ \E t \in Clickable : Click(u, t)
  \/ Dismissed(u) \/ IncorrectDismissFlag(u) \/ SelectFails(u) \/ PopupEnds(u)
  \/ SendAnswer(u) \/ GetAck(u) \/ IncorrectAck(u) \/ Dies(u)

\* They close the daemon's end, or none.
LEMMA DaemonStepEnds ==
  ASSUME NEW u \in Users, DaemonStep(u)
  PROVE  /\ UNCHANGED <<owner, backlog>>
         /\ ends' = ends \/ \E c : ends' = [ends EXCEPT ![c] = @ \ {"gui"}]
<1> DEFINE Kept == UNCHANGED <<owner, backlog, ends>>
           Left == Exits(u)
<1>1. Left => UNCHANGED <<owner, backlog>> /\ \E c : ends' = [ends EXCEPT ![c] = @ \ {"gui"}]
  BY DEF Exits, GuiCloses
<1>2. ConnectFails(u) \/ SelectFails(u) \/ PopupEnds(u) \/ (\E t \in Clickable : Click(u, t))
        => Kept
  BY DEF ConnectFails, SelectFails, PopupEnds, Click, socketVars
<1>3. GetRequest(u) \/ Dismissed(u) => Kept
  BY DEF GetRequest, Dismissed, Reads, ReadsByte
<1>4. SizeExceedsLimits(u) \/ ConnectionLost(u) \/ IncorrectAck(u) \/ Dies(u) => Left
  BY DEF SizeExceedsLimits, ConnectionLost, IncorrectAck, Dies
<1>5. IncorrectDismissFlag(u) => Kept \/ Left
  BY DEF IncorrectDismissFlag, Throws, ReadsByte, socketVars
<1>6. SendAnswer(u) => Kept \/ Left
  BY DEF SendAnswer
<1>7. GetAck(u) => Kept \/ Left
  BY DEF GetAck, ReadsByte
<1>8. QED
  BY <1>1, <1>2, <1>3, <1>4, <1>5, <1>6, <1>7 DEF DaemonStep

-----------------------------------------------------------------------------
(* The theorem.                                                            *)

\* At the start nothing is connected.
LEMMA InitInv == ASSUME Init PROVE IInv
<1>1. DOMAIN m_userToFd = {} /\ DOMAIN m_fdToUser = {} /\ DOMAIN m_fdStatus = {}
  BY DEF Init, TalkerInit, EmptyMap
<1>2. MapsTyped
  BY <1>1 DEF MapsTyped, Init, TalkerInit, EmptyMap
<1>3. Users # {} => owner \in [Conns -> Users]
  BY DEF Init, SocketsInit
<1>4. backlog = <<>> /\ Range(backlog) = {} /\ BacklogFresh
  BY DEF Init, SocketsInit, BacklogFresh, Range, IsInjective
<1>5. AgentEnds = {} /\ ends \in [Conns -> SUBSET {"agent", "gui"}]
  BY DEF AgentEnds, Init, SocketsInit
<1>6. ConnectionMaps
  BY <1>1, <1>4, <1>5 DEF ConnectionMaps, AgentEnds
<1>7. LoopServes
  BY DEF LoopServes, Init, TalkerInit
<1>8. QED
  BY <1>2, <1>3, <1>4, <1>5, <1>6, <1>7, UsersAssumption DEF IInv, MapsInv, SocketsTyped

\* Every step keeps the invariant.
LEMMA StepInv == ASSUME IInv, [Next]_vars PROVE IInv'
<1>1. CASE UNCHANGED vars
  BY <1>1, DaemonKeeps DEF vars, socketVars
<1>2. CASE \E u \in Users, id \in Ids : addRequest(u, id)
  <2>1. /\ UNCHANGED <<ends, owner, backlog, m_userToFd, m_fdToUser, m_fdStatus, loop, todo>>
    BY <1>2 DEF addRequest, socketVars, connectionVars
  <2>2. QED
    BY <2>1, MapsUnchanged DEF IInv, MapsInv, SocketsTyped, AgentEnds, LoopServes
<1>3. CASE \E id \in Ids : removeRequest(id)
  BY <1>3, RemoveRequestKeeps
<1>4. CASE stop
  <2>1. /\ UNCHANGED <<ends, owner, backlog, m_userToFd, m_fdToUser, m_fdStatus, loop, todo>>
    BY <1>4 DEF stop, socketVars, connectionVars
  <2>2. QED
    BY <2>1, MapsUnchanged DEF IInv, MapsInv, SocketsTyped, AgentEnds, LoopServes
<1>5. CASE Select
  BY <1>5, SelectKeeps
<1>6. CASE Stopped
  BY <1>6, AllClosedKeeps DEF Stopped, IInv
<1>7. CASE newConnection
  BY <1>7, NewConnectionKeeps
<1>8. CASE \E c \in Conns : Disconnected(c)
  BY <1>8, DisconnectedKeeps
<1>9. CASE \E c \in Conns : TakesStale(c)
  BY <1>9, TakesStaleKeeps
<1>10. CASE \E c \in Conns : TakesAnswer(c)
  BY <1>10, TakesAnswerKeeps
<1>11. CASE \E c \in Conns : sendRequest(c)
  BY <1>11, SendRequestKeeps
<1>12. CASE Fails
  BY <1>12, FailsKeeps
<1>13. CASE \E u \in Users : Connect(u) /\ UNCHANGED talkerVars
  BY <1>13, ConnectKeeps
<1>14. CASE \E u \in Users : DaemonStep(u) /\ UNCHANGED talkerVars
  BY <1>14, DaemonStepEnds, DaemonKeeps
<1>15. QED
  BY <1>1, <1>2, <1>3, <1>4, <1>5, <1>6, <1>7, <1>8, <1>9, <1>10, <1>11, <1>12, <1>13, <1>14
     DEF Next, DaemonStep

\* The invariant holds in every reachable state.
LEMMA Invariance == Spec => []IInv
<1>1. QED
  BY InitInv, StepInv, PTL DEF Spec

\* m_userToFd, m_fdToUser and m_fdStatus agree at every moment, and their
\* descriptors are exactly the connections the agent has open besides the
\* backlog: neither a replaced connection, nor a broken one, nor an invalidated
\* iterator leaks a descriptor or leaves one behind that is closed.
THEOREM ConnectionsAgree == Spec => []ConnectionMaps
<1>1. IInv => ConnectionMaps
  BY DEF IInv, MapsInv
<1>2. QED
  BY <1>1, Invariance, PTL

-----------------------------------------------------------------------------
(* The invariant of the types.                                             *)

\* Queues of distinct ids, one for each of some users.
AreQueues(requests) ==
  /\ DOMAIN requests \subseteq Users
  /\ \A u \in DOMAIN requests : requests[u] \in Seq(Ids) /\ IsInjective(requests[u])

TalkerTyped ==
  /\ loop \in {"idle", "accept", "recv", "send"} \cup Over
  /\ todo \subseteq Conns
  /\ m_fdStatus \in [DOMAIN m_fdStatus -> BOOLEAN]
  /\ m_stopflag \in BOOLEAN
  /\ asked \in [Ids -> {"free", "asked", "answered"}]
  /\ added \in 0 .. MaxAdd
  /\ taken \subseteq Answers

StreamsTyped ==
  /\ toGui \in [Conns -> Seq(GuiMessages)]
  /\ toAgent \in [Conns -> Seq(Responses)]
  /\ listening \in BOOLEAN

\* A daemon sends only what is an answer: a button or an error.
HasAnswer ==
  \A u \in Users : /\ type[u] \in Clickable \cup {"Error", "None"}
                   /\ daemon[u] = "sending" => type[u] # "None"

DaemonInv == DaemonTypeOK /\ HasAnswer

\* The send loop looks only at users whose queue has a request.
SendsReady ==
  loop = "send" =>
    \A c \in todo : /\ m_fdToUser[c] \in DOMAIN m_requests
                     /\ m_requests[m_fdToUser[c]] # <<>>

TalkerInv == AreQueues(m_requests) /\ TalkerTyped /\ StreamsTyped /\ SendsReady

TInv ==
  /\ TalkerInv
  /\ DaemonInv

\* With the invariant of the connections it is the type invariant.
LEMMA TypesFromInvariants == ASSUME IInv, TInv PROVE TypeOK
<1>1. SocketsTypeOK
  BY DEF IInv, MapsInv, SocketsTyped, BacklogFresh, TInv, TalkerInv, StreamsTyped,
         SocketsTypeOK
<1>2. /\ m_userToFd \in PartialFunctions(Users, Conns)
      /\ m_fdToUser \in PartialFunctions(Conns, Users)
  BY DEF IInv, MapsInv, MapsTyped, PartialFunctions
<1>3. DOMAIN m_fdStatus \subseteq Conns
  BY DEF IInv, MapsInv, MapsTyped, ConnectionMaps
<1>4. m_fdStatus \in PartialFunctions(Conns, BOOLEAN)
  BY <1>3 DEF TInv, TalkerInv, TalkerTyped, PartialFunctions
<1>5. TalkerTypeOK
  BY <1>2, <1>4 DEF TInv, TalkerInv, TalkerTyped, TalkerTypeOK, AreQueues
<1>6. QED
  BY <1>1, <1>5 DEF TypeOK, TInv, TalkerInv, DaemonInv, AreQueues

-----------------------------------------------------------------------------
(* The queues.                                                             *)

\* The queue of a user, which may be new.
LEMMA QueueOfType ==
  ASSUME AreQueues(m_requests), NEW u
  PROVE  QueueOf(u) \in Seq(Ids) /\ IsInjective(QueueOf(u))
<1>1. <<>> \in Seq(Ids) /\ IsInjective(<<>>)
  BY DEF IsInjective
<1>2. QED
  BY <1>1 DEF AreQueues, QueueOf

\* Erasing an element leaves the others, in a queue of distinct elements.
LEMMA ErasedProperties ==
  ASSUME NEW S, NEW queue \in Seq(S), IsInjective(queue), NEW id \in Range(queue)
  PROVE  /\ Erased(queue, id) \in Seq(S)
         /\ IsInjective(Erased(queue, id))
         /\ Range(Erased(queue, id)) = Range(queue) \ {id}
<1> DEFINE it == CHOOSE n \in DOMAIN queue : queue[n] = id
           t == [n \in 1 .. Len(queue) - 1 |-> IF n < it THEN queue[n] ELSE queue[n + 1]]
           place(n) == IF n < it THEN n ELSE n + 1
<1>1. /\ queue \in [1 .. Len(queue) -> S] /\ Len(queue) \in Nat
      /\ DOMAIN queue = 1 .. Len(queue)
  OBVIOUS
<1>2. it \in 1 .. Len(queue) /\ queue[it] = id
  BY <1>1 DEF Range
<1> HIDE DEF it
<1>3. \A n \in 1 .. Len(queue) - 1 : place(n) \in 1 .. Len(queue) /\ place(n) # it
                                     /\ t[n] = queue[place(n)]
  BY <1>1, <1>2
<1>4. \A m, n \in 1 .. Len(queue) - 1 : place(m) = place(n) => m = n
  BY <1>1, <1>2
<1>5. \A n \in 1 .. Len(queue) :
        n # it => \E m \in 1 .. Len(queue) - 1 : place(m) = n
  <2> SUFFICES ASSUME NEW n \in 1 .. Len(queue), n # it
               PROVE  \E m \in 1 .. Len(queue) - 1 : place(m) = n
    OBVIOUS
  <2>1. CASE n < it
    <3>1. n \in 1 .. Len(queue) - 1 /\ place(n) = n
      BY <1>1, <1>2, <2>1
    <3>2. QED
      BY <3>1
  <2>2. CASE n > it
    <3>1. n - 1 \in 1 .. Len(queue) - 1 /\ place(n - 1) = n
      BY <1>1, <1>2, <2>2
    <3>2. QED
      BY <3>1
  <2>3. QED
    BY <1>1, <1>2, <2>1, <2>2
<1>6. DOMAIN t = 1 .. Len(queue) - 1
  OBVIOUS
<1> HIDE DEF t, place
<1>7. t \in [1 .. Len(queue) - 1 -> S]
  <2>1. \A n \in 1 .. Len(queue) - 1 : t[n] \in S
    BY <1>1, <1>3
  <2>2. t = [n \in 1 .. Len(queue) - 1 |-> t[n]]
    BY DEF t
  <2>3. QED
    BY <2>1, <2>2
<1>8. t \in Seq(S)
  <2>1. Len(queue) - 1 \in Nat
    BY <1>1, <1>2
  <2>2. QED
    BY <1>7, <2>1
<1>9. IsInjective(t)
  <2>1. \A m, n \in DOMAIN t : t[m] = t[n] => m = n
    BY <1>1, <1>3, <1>4, <1>6 DEF IsInjective
  <2>2. QED
    BY <2>1 DEF IsInjective
<1>10. Range(t) \subseteq Range(queue) \ {id}
  BY <1>1, <1>2, <1>3, <1>6 DEF Range, IsInjective
<1>11. Range(queue) \ {id} \subseteq Range(t)
  BY <1>1, <1>2, <1>3, <1>5, <1>6 DEF Range
<1>12. Erased(queue, id) = t
  BY DEF Erased, t, it
<1>13. QED
  BY <1>8, <1>9, <1>10, <1>11, <1>12

\* push_back of an id that is not in the queue.
LEMMA AddedToQueue ==
  ASSUME AreQueues(m_requests), NEW u \in Users, NEW id \in Ids
  PROVE  AreQueues(With(m_requests, u, IF IsQueued(id, u) THEN m_requests[u]
                                                          ELSE Append(QueueOf(u), id)))
<1> DEFINE queue == IF IsQueued(id, u) THEN m_requests[u] ELSE Append(QueueOf(u), id)
<1>1. queue \in Seq(Ids) /\ IsInjective(queue)
  <2>1. CASE IsQueued(id, u)
    BY <2>1 DEF IsQueued, AreQueues
  <2>2. CASE ~IsQueued(id, u)
    <3>1. QueueOf(u) \in Seq(Ids) /\ IsInjective(QueueOf(u))
      BY QueueOfType
    <3>2. id \notin Range(QueueOf(u))
      BY <2>2 DEF IsQueued, QueueOf, Range
    <3>3. QED
      BY <2>2, <3>1, <3>2, AppendToSequence
  <2>3. QED
    BY <2>1, <2>2
<1> HIDE DEF queue
<1>2. AreQueues(With(m_requests, u, queue))
  <2> DEFINE more == With(m_requests, u, queue)
  <2>1. /\ DOMAIN more = DOMAIN m_requests \cup {u} /\ more[u] = queue
        /\ \A v \in DOMAIN m_requests : v # u => more[v] = m_requests[v]
    BY DEF With
  <2> HIDE DEF more
  <2>2. AreQueues(more)
    BY <1>1, <2>1 DEF AreQueues
  <2>3. QED
    BY <2>2 DEF more
<1>3. QED
  BY <1>2 DEF queue

\* pop_front of a queue that is not empty.
LEMMA HeadTaken ==
  ASSUME AreQueues(m_requests), NEW u, NEW id, IsFront(id, u)
  PROVE  /\ AreQueues([m_requests EXCEPT ![u] = Tail(@)])
         /\ u \in DOMAIN m_requests /\ id \in Ids
<1> DEFINE rest == [m_requests EXCEPT ![u] = Tail(@)]
<1>1. u \in DOMAIN m_requests /\ m_requests[u] # <<>> /\ id = Head(m_requests[u])
  BY DEF IsFront, QueueOf
<1>2. m_requests[u] \in Seq(Ids) /\ IsInjective(m_requests[u])
  BY <1>1 DEF AreQueues
<1>3. Tail(m_requests[u]) \in Seq(Ids) /\ IsInjective(Tail(m_requests[u])) /\ id \in Ids
  BY <1>1, <1>2, HeadAndTail
<1>4. /\ DOMAIN rest = DOMAIN m_requests
      /\ rest[u] = Tail(m_requests[u])
      /\ \A v \in DOMAIN m_requests : v # u => rest[v] = m_requests[v]
  BY <1>1
<1> HIDE DEF rest
<1>5. AreQueues(rest)
  BY <1>3, <1>4 DEF AreQueues
<1>6. QED
  BY <1>1, <1>3, <1>5 DEF rest

-----------------------------------------------------------------------------
(* The loop.                                                               *)

\* The next loop makes empty queues at most.
LEMMA ThenRecvQueues ==
  ASSUME NEW cs, NEW requests, ThenRecv(cs, requests), AreQueues(requests),
         DOMAIN m_userToFd' \subseteq Users
  PROVE  AreQueues(m_requests')
<1>1. CASE cs # {}
  BY <1>1 DEF ThenRecv
<1>2. CASE cs = {}
  <2>1. m_requests' = [u \in DOMAIN requests \cup DOMAIN m_userToFd' |->
                         IF u \in DOMAIN requests THEN requests[u] ELSE <<>>]
    BY <1>2 DEF ThenRecv
  <2>2. <<>> \in Seq(Ids) /\ IsInjective(<<>>)
    BY DEF IsInjective
  <2>3. QED
    BY <2>1, <2>2 DEF AreQueues
<1>3. QED
  BY <1>1, <1>2

LoopTyped ==
  /\ loop \in {"idle", "accept", "recv", "send"} \cup Over
  /\ todo \subseteq Conns
  /\ SendsReady

\* It goes on with descriptors whose users have a request.
LEMMA ThenRecvTyped ==
  ASSUME IInv', NEW cs, NEW requests, ThenRecv(cs, requests), cs \subseteq Conns
  PROVE  LoopTyped'
<1>1. CASE cs # {}
  BY <1>1 DEF ThenRecv, LoopTyped, SendsReady
<1>2. CASE cs = {}
  <2>1. /\ ThenSend(Sendable)
        /\ DOMAIN m_userToFd' \subseteq DOMAIN m_requests'
    BY <1>2 DEF ThenRecv
  <2>2. \A c \in Sendable : /\ c \in Conns /\ m_fdToUser'[c] \in DOMAIN m_userToFd'
                            /\ m_requests'[m_fdToUser'[c]] # <<>>
    BY DEF Sendable, IInv, MapsInv, MapsTyped, ConnectionMaps
  <2>3. CASE Sendable = {}
    BY <2>1, <2>3 DEF ThenSend, LoopTyped, SendsReady
  <2>4. CASE Sendable # {}
    <3>1. loop' = "send" /\ todo' = Sendable
      BY <2>1, <2>4 DEF ThenSend
    <3>2. QED
      BY <2>1, <2>2, <3>1 DEF LoopTyped, SendsReady
  <2>5. QED
    BY <2>3, <2>4
<1>3. QED
  BY <1>1, <1>2

-----------------------------------------------------------------------------
(* The streams.                                                            *)

LEMMA AgentClosesTyped ==
  ASSUME StreamsTyped, NEW cs, AgentCloses(cs)
  PROVE  toAgent' \in [Conns -> Seq(Responses)]
<1>1. <<>> \in Seq(Responses)
  OBVIOUS
<1>2. QED
  BY <1>1 DEF StreamsTyped, AgentCloses

LEMMA AppendTyped ==
  ASSUME NEW S, NEW streams \in [Conns -> Seq(S)], NEW c, NEW x \in S
  PROVE  [streams EXCEPT ![c] = Append(@, x)] \in [Conns -> Seq(S)]
<1>1. \A d \in Conns : Append(streams[d], x) \in Seq(S)
  OBVIOUS
<1>2. QED
  BY <1>1

LEMMA TailTyped ==
  ASSUME NEW S, NEW streams \in [Conns -> Seq(S)], NEW c,
         c \in Conns => streams[c] # <<>>
  PROVE  [streams EXCEPT ![c] = Tail(@)] \in [Conns -> Seq(S)]
<1>1. c \in Conns => Tail(streams[c]) \in Seq(S)
  OBVIOUS
<1>2. QED
  BY <1>1

\* What the agent and the daemons send.
LEMMA MessagesTyped ==
  /\ Ack \in GuiMessages /\ Dismissal \in GuiMessages /\ Rest \in GuiMessages
  /\ \A id \in Ids : Request(id) \in GuiMessages
BY DEF Ack, Dismissal, Rest, Request, GuiMessages

LEMMA AfterByteTyped ==
  ASSUME NEW q \in Seq(GuiMessages), q # <<>>
  PROVE  AfterByte(q) \in Seq(GuiMessages)
<1>1. Tail(q) \in Seq(GuiMessages)
  OBVIOUS
<1>2. <<Rest>> \in Seq(GuiMessages)
  BY MessagesTyped
<1>3. <<Rest>> \o Tail(q) \in Seq(GuiMessages)
  BY <1>1, <1>2
<1>4. QED
  BY <1>1, <1>3 DEF AfterByte

-----------------------------------------------------------------------------
(* The steps of the agent.                                                 *)

\* clear, and a process that is gone.
LEMMA AllClosedTyped ==
  ASSUME TalkerInv, AllClosed, loop' \in Over, todo' \subseteq Conns, m_stopflag' = m_stopflag,
         UNCHANGED m_requests, asked' \in [Ids -> {"free", "asked", "answered"}],
         added' = added, taken' \subseteq Answers
  PROVE  TalkerInv'
<1>1. m_fdStatus' \in [DOMAIN m_fdStatus' -> BOOLEAN]
  BY DEF AllClosed, EmptyMap
<1>2. StreamsTyped'
  BY AgentClosesTyped DEF AllClosed, TalkerInv, StreamsTyped
<1>3. SendsReady'
  BY DEF SendsReady, Over
<1>4. QED
  BY <1>1, <1>2, <1>3 DEF TalkerInv, TalkerTyped

\* What most steps of the loop leave alone.
LEMMA LoopStepTyped ==
  ASSUME TalkerInv, AreQueues(m_requests'), LoopTyped', StreamsTyped',
         m_fdStatus' \in [DOMAIN m_fdStatus' -> BOOLEAN],
         UNCHANGED <<m_stopflag, added>>,
         asked' \in [Ids -> {"free", "asked", "answered"}], taken' \subseteq Answers
  PROVE  TalkerInv'
BY DEF TalkerInv, TalkerTyped, LoopTyped

LEMMA StatusRestricted ==
  ASSUME NEW status, status \in [DOMAIN status -> BOOLEAN], NEW cs
  PROVE  LET rest == Restrict(status, DOMAIN status \ cs)
         IN  rest \in [DOMAIN rest -> BOOLEAN]
BY DEF Restrict

LEMMA AddRequestTyped ==
  ASSUME TalkerInv, NEW u \in Users, NEW id \in Ids, addRequest(u, id)
  PROVE  TalkerInv'
<1>1. AreQueues(m_requests')
  BY AddedToQueue DEF addRequest, TalkerInv
<1>2. /\ UNCHANGED <<socketVars, m_fdStatus, loop, todo, m_stopflag, taken>>
      /\ asked' \in [Ids -> {"free", "asked", "answered"}]
  BY DEF addRequest, connectionVars, TalkerInv, TalkerTyped
<1>3. added' \in 0 .. MaxAdd
  BY MaxAddAssumption DEF addRequest, TalkerInv, TalkerTyped
<1>4. SendsReady'
  BY DEF addRequest, SendsReady
<1>5. QED
  BY <1>1, <1>2, <1>3, <1>4 DEF TalkerInv, TalkerTyped, StreamsTyped, socketVars

LEMMA RemoveRequestTyped ==
  ASSUME TalkerInv, NEW id \in Ids, removeRequest(id)
  PROVE  TalkerInv'
<1> DEFINE dismissed == {c \in ToDismiss(id) : "gui" \in ends[c]}
           broken == ToDismiss(id) \ dismissed
<1>1. /\ m_requests' = [u \in DOMAIN m_requests |->
                         IF u \in Reached(id) THEN Erased(m_requests[u], id)
                                              ELSE m_requests[u]]
      /\ toGui' = [c \in Conns |-> IF c \in dismissed THEN Append(toGui[c], Dismissal)
                                                      ELSE toGui[c]]
      /\ m_fdStatus' = [c \in DOMAIN m_fdStatus \ broken |->
                          m_fdStatus[c] \/ c \in dismissed]
      /\ AgentCloses(broken)
      /\ asked' = [asked EXCEPT ![id] = "free"]
      /\ UNCHANGED <<listening, loop, todo, m_stopflag, added, taken>>
  BY DEF removeRequest
<1> HIDE DEF dismissed, broken
<1>2. AreQueues(m_requests')
  <2>1. ASSUME NEW u \in DOMAIN m_requests, u \in Reached(id)
        PROVE  Erased(m_requests[u], id) \in Seq(Ids) /\ IsInjective(Erased(m_requests[u], id))
    <3>1. u <= u
      <4>1. u \in Nat
        BY UsersAssumption DEF TalkerInv, AreQueues
      <4>2. QED
        BY <4>1
    <3>2. id \in Range(m_requests[u])
      BY <2>1, <3>1 DEF Reached, IsQueued
    <3>3. m_requests[u] \in Seq(Ids) /\ IsInjective(m_requests[u])
      BY DEF TalkerInv, AreQueues
    <3>4. QED
      BY <3>2, <3>3, ErasedProperties
  <2>2. QED
    BY <1>1, <2>1 DEF TalkerInv, AreQueues
<1>3. StreamsTyped'
  <2>1. \A c \in Conns : Append(toGui[c], Dismissal) \in Seq(GuiMessages)
    BY MessagesTyped DEF TalkerInv, StreamsTyped
  <2>2. toGui' \in [Conns -> Seq(GuiMessages)]
    BY <1>1, <2>1 DEF TalkerInv, StreamsTyped
  <2>3. QED
    BY <1>1, <2>2, AgentClosesTyped DEF TalkerInv, StreamsTyped
<1>4. m_fdStatus' \in [DOMAIN m_fdStatus' -> BOOLEAN]
  BY <1>1 DEF TalkerInv, TalkerTyped
<1>5. asked' \in [Ids -> {"free", "asked", "answered"}] /\ LoopTyped'
  <2>1. SendsReady'
    BY DEF removeRequest, SendsReady
  <2>2. QED
    BY <1>1, <2>1 DEF TalkerInv, TalkerTyped, LoopTyped
<1>6. taken' \subseteq Answers
  BY <1>1 DEF TalkerInv, TalkerTyped
<1>7. QED
  BY <1>1, <1>2, <1>3, <1>4, <1>5, <1>6, LoopStepTyped

\* The descriptors and the users the maps have after a step.
LEMMA DomainsTyped ==
  ASSUME IInv
  PROVE  /\ DOMAIN m_userToFd \subseteq Users /\ DOMAIN m_fdToUser \subseteq Conns
         /\ DOMAIN m_fdStatus \subseteq Conns
BY DEF IInv, MapsInv, MapsTyped, ConnectionMaps

LEMMA DomainsTypedNext ==
  ASSUME IInv'
  PROVE  /\ DOMAIN m_userToFd' \subseteq Users /\ DOMAIN m_fdToUser' \subseteq Conns
         /\ DOMAIN m_fdStatus' \subseteq Conns
BY DEF IInv, MapsInv, MapsTyped, ConnectionMaps

LEMMA SelectTyped ==
  ASSUME IInv, IInv', TalkerInv, Select
  PROVE  TalkerInv'
<1> DEFINE ready == {c \in DOMAIN m_fdToUser : ReadableByAgent(c)}
<1>1. /\ UNCHANGED <<socketVars, connectionVars, m_stopflag, agentVars, taken>>
      /\ \/ loop' = "accept" /\ todo' = ready /\ UNCHANGED m_requests
         \/ ThenRecv(ready, m_requests)
  BY DEF Select
<1>2. ready \subseteq Conns
  BY DomainsTyped
<1> HIDE DEF ready
<1>3. AreQueues(m_requests')
  BY <1>1, ThenRecvQueues, DomainsTypedNext DEF TalkerInv
<1>4. LoopTyped'
  <2>1. CASE ThenRecv(ready, m_requests)
    BY <1>2, <2>1, ThenRecvTyped, DomainsTypedNext
  <2>2. CASE loop' = "accept" /\ todo' = ready
    BY <1>2, <2>2 DEF LoopTyped, SendsReady
  <2>3. QED
    BY <1>1, <2>1, <2>2
<1>5. StreamsTyped' /\ m_fdStatus' \in [DOMAIN m_fdStatus' -> BOOLEAN]
  BY <1>1 DEF TalkerInv, TalkerTyped, StreamsTyped, socketVars, connectionVars
<1>6. /\ UNCHANGED <<m_stopflag, added>> /\ taken' \subseteq Answers
      /\ asked' \in [Ids -> {"free", "asked", "answered"}]
  BY <1>1 DEF TalkerInv, TalkerTyped, agentVars
<1>7. QED
  BY <1>3, <1>4, <1>5, <1>6, LoopStepTyped

LEMMA NewConnectionTyped ==
  ASSUME IInv, IInv', TalkerInv, newConnection
  PROVE  TalkerInv'
<1> DEFINE c == Head(backlog)
           old == {m_userToFd[v] : v \in {owner[c]} \cap DOMAIN m_userToFd}
           cs == todo \cap DOMAIN m_fdToUser'
<1>1. /\ m_fdStatus' = With(Restrict(m_fdStatus, DOMAIN m_fdStatus \ old), c, TRUE)
      /\ AgentCloses(old)
      /\ ThenRecv(cs, m_requests)
      /\ UNCHANGED <<toGui, listening, m_stopflag, agentVars, taken>>
  BY DEF newConnection
<1>2. cs \subseteq Conns
  BY DomainsTypedNext
<1> HIDE DEF c, old, cs
<1>3. AreQueues(m_requests') /\ LoopTyped'
  BY <1>1, <1>2, ThenRecvQueues, ThenRecvTyped, DomainsTypedNext DEF TalkerInv
<1>4. StreamsTyped'
  BY <1>1, AgentClosesTyped DEF TalkerInv, StreamsTyped
<1>5. m_fdStatus' \in [DOMAIN m_fdStatus' -> BOOLEAN]
  BY <1>1 DEF With, Restrict, TalkerInv, TalkerTyped
<1>6. /\ UNCHANGED <<m_stopflag, added>> /\ taken' \subseteq Answers
      /\ asked' \in [Ids -> {"free", "asked", "answered"}]
  BY <1>1 DEF TalkerInv, TalkerTyped, agentVars
<1>7. QED
  BY <1>3, <1>4, <1>5, <1>6, LoopStepTyped

\* remove, before the loop goes on.
LEMMA RemovedTyped ==
  ASSUME TalkerInv, NEW cs, Removed(cs), UNCHANGED <<toGui, listening>>
  PROVE  StreamsTyped' /\ m_fdStatus' \in [DOMAIN m_fdStatus' -> BOOLEAN]
<1>1. StreamsTyped'
  BY AgentClosesTyped DEF TalkerInv, StreamsTyped, Removed
<1>2. m_fdStatus' \in [DOMAIN m_fdStatus' -> BOOLEAN]
  BY StatusRestricted DEF TalkerInv, TalkerTyped, Removed
<1>3. QED
  BY <1>1, <1>2

LEMMA DisconnectedTyped ==
  ASSUME IInv, IInv', TalkerInv, NEW c \in Conns, Disconnected(c)
  PROVE  TalkerInv'
<1>1. /\ UNCHANGED <<m_stopflag, added>> /\ taken' \subseteq Answers
      /\ asked' \in [Ids -> {"free", "asked", "answered"}]
  BY DEF Disconnected, TalkerInv, TalkerTyped, agentVars
<1>2. CASE Crash
  BY <1>1, <1>2, AllClosedTyped DEF Crash, Over
<1>3. CASE ~Crash
  <2>1. Removed({c}) /\ UNCHANGED <<toGui, listening>>
    BY <1>3 DEF Disconnected
  <2>2. PICK cs \in SUBSET (todo \ {c}) : ThenRecv(cs, m_requests)
    BY <1>3 DEF Disconnected
  <2>3. cs \subseteq Conns
    BY DEF TalkerInv, TalkerTyped
  <2>4. AreQueues(m_requests') /\ LoopTyped'
    BY <2>2, <2>3, ThenRecvQueues, ThenRecvTyped, DomainsTypedNext DEF TalkerInv
  <2>5. QED
    BY <1>1, <2>1, <2>4, RemovedTyped, LoopStepTyped
<1>4. QED
  BY <1>2, <1>3

LEMMA TakesStaleTyped ==
  ASSUME IInv, IInv', TalkerInv, NEW c \in Conns, TakesStale(c)
  PROVE  TalkerInv'
<1> DEFINE u == m_fdToUser[c]
           requests == With(m_requests, u, QueueOf(u))
<1>1. /\ loop = "recv" /\ c \in todo /\ toAgent[c] # <<>>
      /\ toAgent' = [toAgent EXCEPT ![c] = Tail(@)]
      /\ m_fdStatus' = [m_fdStatus EXCEPT ![c] = TRUE]
      /\ ThenRecv(todo \ {c}, requests)
      /\ UNCHANGED <<toGui, listening, m_stopflag, agentVars, taken>>
  BY DEF TakesStale
<1>2. u \in Users
  BY <1>1 DEF IInv, LoopServes, MapsInv, MapsTyped
<1>3. AreQueues(requests)
  <2>1. QueueOf(u) \in Seq(Ids) /\ IsInjective(QueueOf(u))
    BY QueueOfType DEF TalkerInv
  <2>2. /\ DOMAIN requests = DOMAIN m_requests \cup {u} /\ requests[u] = QueueOf(u)
        /\ \A v \in DOMAIN m_requests : v # u => requests[v] = m_requests[v]
    BY DEF With
  <2> HIDE DEF u, requests
  <2>3. QED
    BY <1>2, <2>1, <2>2 DEF TalkerInv, AreQueues
<1> HIDE DEF u, requests
<1>4. todo \ {c} \subseteq Conns
  BY DEF TalkerInv, TalkerTyped
<1>5. AreQueues(m_requests') /\ LoopTyped'
  BY <1>1, <1>3, <1>4, ThenRecvQueues, ThenRecvTyped, DomainsTypedNext
<1>6. StreamsTyped'
  BY <1>1, TailTyped DEF TalkerInv, StreamsTyped
<1>7. m_fdStatus' \in [DOMAIN m_fdStatus' -> BOOLEAN]
  BY <1>1 DEF TalkerInv, TalkerTyped
<1>8. /\ UNCHANGED <<m_stopflag, added>> /\ taken' \subseteq Answers
      /\ asked' \in [Ids -> {"free", "asked", "answered"}]
  BY <1>1 DEF TalkerInv, TalkerTyped, agentVars
<1>9. QED
  BY <1>5, <1>6, <1>7, <1>8, LoopStepTyped

LEMMA TakesAnswerTyped ==
  ASSUME IInv, IInv', TalkerInv, NEW c \in Conns, TakesAnswer(c)
  PROVE  TalkerInv'
<1> DEFINE u == m_fdToUser[c]
           m == Head(toAgent[c])
           rest == [m_requests EXCEPT ![u] = Tail(@)]
<1>1. /\ loop = "recv" /\ c \in todo /\ toAgent[c] # <<>> /\ IsFront(m.id, u)
      /\ taken' = taken \cup {[user |-> u, id |-> m.id, type |-> m.type]}
      /\ asked' = [asked EXCEPT ![m.id] = IF @ = "asked" THEN "answered" ELSE @]
      /\ UNCHANGED <<m_stopflag, added>>
  BY DEF TakesAnswer
<1>2. u \in Users /\ m \in Responses
  BY <1>1 DEF IInv, LoopServes, MapsInv, MapsTyped, TalkerInv, StreamsTyped
<1>3. AreQueues(rest)
  BY <1>1, HeadTaken DEF TalkerInv
<1>4. taken' \subseteq Answers
  <2>1. [user |-> u, id |-> m.id, type |-> m.type] \in Answers
    BY <1>2 DEF Responses, Answers
  <2>2. QED
    BY <1>1, <2>1 DEF TalkerInv, TalkerTyped
<1>5. asked' \in [Ids -> {"free", "asked", "answered"}]
  BY <1>1 DEF TalkerInv, TalkerTyped
<1>6. CASE Crash
  BY <1>1, <1>4, <1>5, <1>6, AllClosedTyped DEF Crash, Over
<1>7. CASE "gui" \in ends[c]
  <2>1. /\ toGui' = [toGui EXCEPT ![c] = Append(@, Ack)]
        /\ toAgent' = [toAgent EXCEPT ![c] = Tail(@)]
        /\ m_fdStatus' = [m_fdStatus EXCEPT ![c] = TRUE]
        /\ UNCHANGED listening
        /\ ThenRecv(todo \ {c}, rest)
    BY <1>7 DEF TakesAnswer
  <2> HIDE DEF u, m, rest
  <2>2. todo \ {c} \subseteq Conns
    BY DEF TalkerInv, TalkerTyped
  <2>3. AreQueues(m_requests') /\ LoopTyped'
    BY <1>3, <2>1, <2>2, ThenRecvQueues, ThenRecvTyped, DomainsTypedNext
  <2>4. StreamsTyped'
    <3>1. toAgent' \in [Conns -> Seq(Responses)]
      BY <1>1, <2>1, TailTyped DEF TalkerInv, StreamsTyped
    <3>2. toGui' \in [Conns -> Seq(GuiMessages)]
      BY <2>1, AppendTyped, MessagesTyped DEF TalkerInv, StreamsTyped
    <3>3. QED
      BY <2>1, <3>1, <3>2 DEF TalkerInv, StreamsTyped
  <2>5. m_fdStatus' \in [DOMAIN m_fdStatus' -> BOOLEAN]
    BY <2>1 DEF TalkerInv, TalkerTyped
  <2>6. QED
    BY <1>1, <1>4, <1>5, <2>3, <2>4, <2>5, LoopStepTyped
<1>8. CASE "gui" \notin ends[c] /\ ~Crash
  <2>1. Removed({c}) /\ UNCHANGED <<toGui, listening>>
    BY <1>8 DEF TakesAnswer
  <2>2. PICK cs \in SUBSET (todo \ {c}) : ThenRecv(cs, rest)
    BY <1>8 DEF TakesAnswer
  <2> HIDE DEF u, m, rest
  <2>3. cs \subseteq Conns
    BY DEF TalkerInv, TalkerTyped
  <2>4. AreQueues(m_requests') /\ LoopTyped'
    BY <1>3, <2>2, <2>3, ThenRecvQueues, ThenRecvTyped, DomainsTypedNext
  <2>5. QED
    BY <1>1, <1>4, <1>5, <2>1, <2>4, RemovedTyped, LoopStepTyped
<1>9. QED
  BY <1>6, <1>7, <1>8

\* The send loop goes on, over the same queues.
LEMMA ThenSendTyped ==
  ASSUME TalkerInv, loop = "send", NEW cs, cs \subseteq todo, ThenSend(cs),
         UNCHANGED m_requests, \A c \in cs : m_fdToUser'[c] = m_fdToUser[c]
  PROVE  LoopTyped'
BY DEF ThenSend, LoopTyped, SendsReady, TalkerInv, TalkerTyped

LEMMA SendRequestTyped ==
  ASSUME IInv, IInv', TalkerInv, NEW c \in Conns, sendRequest(c)
  PROVE  TalkerInv'
<1>1. loop = "send" /\ c \in todo /\ UNCHANGED <<m_stopflag, agentVars, taken>>
  BY DEF sendRequest
<1>2. /\ UNCHANGED <<m_stopflag, added>> /\ taken' \subseteq Answers
      /\ asked' \in [Ids -> {"free", "asked", "answered"}]
  BY <1>1 DEF TalkerInv, TalkerTyped, agentVars
<1>3. CASE Crash
  BY <1>2, <1>3, AllClosedTyped DEF Crash, Over
<1>4. CASE "gui" \in ends[c]
  <2> DEFINE next == Head(m_requests[m_fdToUser[c]])
  <2>1. /\ toGui' = [toGui EXCEPT ![c] = Append(@, Request(next))]
        /\ m_fdStatus' = [m_fdStatus EXCEPT ![c] = FALSE]
        /\ ThenSend(todo \ {c})
        /\ UNCHANGED <<toAgent, listening, m_requests, m_fdToUser>>
    BY <1>4 DEF sendRequest
  <2>2. next \in Ids
    BY <1>1 DEF TalkerInv, SendsReady, AreQueues
  <2> HIDE DEF next
  <2>3. LoopTyped'
    BY <1>1, <2>1, ThenSendTyped
  <2>4. StreamsTyped'
    <3>1. toGui' \in [Conns -> Seq(GuiMessages)]
      BY <2>1, <2>2, AppendTyped, MessagesTyped DEF TalkerInv, StreamsTyped
    <3>2. QED
      BY <2>1, <3>1 DEF TalkerInv, StreamsTyped
  <2>5. m_fdStatus' \in [DOMAIN m_fdStatus' -> BOOLEAN]
    BY <2>1 DEF TalkerInv, TalkerTyped
  <2>6. QED
    BY <1>2, <2>1, <2>3, <2>4, <2>5, LoopStepTyped DEF TalkerInv
<1>5. CASE "gui" \notin ends[c] /\ ~Crash
  <2>1. Removed({c}) /\ UNCHANGED <<toGui, listening, m_requests>>
    BY <1>5 DEF sendRequest
  <2>2. PICK cs \in SUBSET (todo \ {c}) : ThenSend(cs)
    BY <1>5 DEF sendRequest
  <2>3. \A d \in cs : d \in DOMAIN m_fdToUser' /\ m_fdToUser'[d] = m_fdToUser[d]
    BY <1>1, <2>1 DEF Removed, Restrict, IInv, LoopServes
  <2>4. LoopTyped'
    BY <1>1, <2>1, <2>2, <2>3, ThenSendTyped
  <2>5. QED
    BY <1>2, <2>1, <2>4, RemovedTyped, LoopStepTyped DEF TalkerInv
<1>6. QED
  BY <1>3, <1>4, <1>5

LEMMA FailsTyped ==
  ASSUME TalkerInv, Fails
  PROVE  TalkerInv'
<1>1. /\ loop' = "failed" /\ todo' = {}
      /\ asked' = [id \in Ids |-> IF id \in Queued /\ asked[id] = "asked" THEN "answered"
                                                                       ELSE asked[id]]
      /\ UNCHANGED <<connectionVars, m_requests, m_stopflag, added>>
  BY DEF Fails
<1>2. taken' \subseteq Answers
  BY DEF Fails, TalkerInv, TalkerTyped
<1>3. LoopTyped'
  BY <1>1 DEF LoopTyped, SendsReady, Over
<1>4. StreamsTyped'
  <2>1. CASE UNCHANGED socketVars
    BY <2>1 DEF TalkerInv, StreamsTyped, socketVars
  <2>2. CASE AgentCloses({Head(backlog)}) /\ UNCHANGED <<toGui, listening>>
    BY <2>2, AgentClosesTyped DEF TalkerInv, StreamsTyped
  <2>3. QED
    BY <2>1, <2>2 DEF Fails
<1>5. asked' \in [Ids -> {"free", "asked", "answered"}]
  BY <1>1 DEF TalkerInv, TalkerTyped
<1>6. QED
  BY <1>1, <1>2, <1>3, <1>4, <1>5, LoopStepTyped DEF connectionVars, TalkerInv, TalkerTyped

LEMMA StopTyped ==
  ASSUME TalkerInv, stop
  PROVE  TalkerInv'
<1>1. /\ m_stopflag' = TRUE
      /\ UNCHANGED <<socketVars, connectionVars, loop, todo, m_requests, agentVars, taken>>
  BY DEF stop
<1>2. SendsReady'
  BY <1>1 DEF TalkerInv, SendsReady, connectionVars
<1>3. StreamsTyped'
  BY <1>1 DEF TalkerInv, StreamsTyped, socketVars
<1>4. TalkerTyped'
  BY <1>1 DEF TalkerInv, TalkerTyped, connectionVars, agentVars
<1>5. QED
  BY <1>1, <1>2, <1>3, <1>4 DEF TalkerInv

LEMMA StoppedTyped ==
  ASSUME TalkerInv, Stopped
  PROVE  TalkerInv'
<1>1. /\ loop' \in Over /\ AllClosed
      /\ UNCHANGED <<todo, m_requests, m_stopflag, asked, added, taken>>
  BY DEF Stopped, Over, agentVars
<1>2. /\ todo' \subseteq Conns /\ taken' \subseteq Answers
      /\ asked' \in [Ids -> {"free", "asked", "answered"}]
  BY <1>1 DEF TalkerInv, TalkerTyped
<1>3. QED
  BY <1>1, <1>2, AllClosedTyped

-----------------------------------------------------------------------------
(* The steps of the daemons.                                               *)

LEMMA WaitingTyped ==
  ASSUME DaemonInv, NEW u \in Users, Waiting(u), UNCHANGED <<sockfd, errors, clicks>>,
         levels' \subseteq Decisions
  PROVE  DaemonInv'
<1>1. (CHOOSE id \in Ids : TRUE) \in Ids
  BY InstanceAssumption
<1>2. DaemonTypeOK'
  BY <1>1 DEF DaemonInv, DaemonTypeOK, Waiting
<1>3. HasAnswer'
  BY DEF DaemonInv, DaemonTypeOK, HasAnswer, Waiting
<1>4. QED
  BY <1>2, <1>3 DEF DaemonInv

LEMMA ExitsTyped ==
  ASSUME StreamsTyped, DaemonInv, NEW u \in Users, Exits(u), UNCHANGED clicks,
         errors' \in 0 .. MaxErrors, levels' \subseteq Decisions
  PROVE  StreamsTyped' /\ DaemonInv'
<1>1. (CHOOSE id \in Ids : TRUE) \in Ids /\ (CHOOSE c \in Conns : TRUE) \in Conns
  BY InstanceAssumption
<1>2. DaemonTypeOK'
  BY <1>1 DEF DaemonInv, DaemonTypeOK, Exits
<1>3. HasAnswer'
  BY DEF DaemonInv, DaemonTypeOK, HasAnswer, Exits
<1>4. StreamsTyped'
  <2>1. <<>> \in Seq(GuiMessages)
    OBVIOUS
  <2>2. QED
    BY <2>1 DEF StreamsTyped, Exits, GuiCloses
<1>5. QED
  BY <1>2, <1>3, <1>4 DEF DaemonInv

LEMMA ReadsTyped ==
  ASSUME StreamsTyped, NEW u \in Users, HasMessage(u), Reads(u)
  PROVE  StreamsTyped'
<1>1. toGui' \in [Conns -> Seq(GuiMessages)]
  BY TailTyped DEF StreamsTyped, HasMessage, Incoming, Reads
<1>2. QED
  BY <1>1 DEF StreamsTyped, Reads

LEMMA ReadsByteTyped ==
  ASSUME StreamsTyped, DaemonInv, NEW u \in Users, HasMessage(u), ReadsByte(u)
  PROVE  StreamsTyped'
<1>1. sockfd[u] \in Conns /\ toGui[sockfd[u]] \in Seq(GuiMessages)
  BY DEF DaemonInv, DaemonTypeOK, StreamsTyped
<1>2. AfterByte(toGui[sockfd[u]]) \in Seq(GuiMessages)
  BY <1>1, AfterByteTyped DEF HasMessage, Incoming
<1>3. toGui' \in [Conns -> Seq(GuiMessages)]
  BY <1>1, <1>2 DEF StreamsTyped, ReadsByte
<1>4. QED
  BY <1>3 DEF StreamsTyped, ReadsByte

LEMMA ConnectTyped ==
  ASSUME StreamsTyped, DaemonInv, NEW u \in Users, Connect(u)
  PROVE  StreamsTyped' /\ DaemonInv'
<1>1. (CHOOSE d \in Closed : TRUE) \in Conns
  BY DEF Connect, Closed
<1>2. DaemonTypeOK'
  BY <1>1 DEF DaemonInv, DaemonTypeOK, Connect
<1>3. HasAnswer'
  BY DEF DaemonInv, DaemonTypeOK, HasAnswer, Connect
<1>4. StreamsTyped'
  BY DEF StreamsTyped, Connect, Connected
<1>5. QED
  BY <1>2, <1>3, <1>4 DEF DaemonInv

LEMMA GetRequestTyped ==
  ASSUME StreamsTyped, DaemonInv, NEW u \in Users, GetRequest(u)
  PROVE  StreamsTyped' /\ DaemonInv'
<1>1. Head(Incoming(u)) \in GuiMessages
  BY DEF GetRequest, HasMessage, Incoming, StreamsTyped, DaemonInv, DaemonTypeOK
<1>2. Head(Incoming(u)).id \in Ids
  BY <1>1 DEF GetRequest, GuiMessages
<1>3. DaemonTypeOK'
  BY <1>2 DEF DaemonInv, DaemonTypeOK, GetRequest
<1>4. HasAnswer'
  BY DEF DaemonInv, DaemonTypeOK, HasAnswer, GetRequest
<1>5. StreamsTyped'
  BY ReadsTyped DEF GetRequest
<1>6. QED
  BY <1>3, <1>4, <1>5 DEF DaemonInv

\* A button is pressed.
LEMMA ClickTyped ==
  ASSUME StreamsTyped, DaemonInv, NEW u \in Users, NEW t \in Clickable, Click(u, t)
  PROVE  StreamsTyped' /\ DaemonInv'
<1>1. t \in NResponse /\ t # "None" /\ [user |-> u, id |-> request[u], type |-> t] \in Decisions
  BY ClickableAssumption DEF NResponse, Decisions, DaemonInv, DaemonTypeOK
<1>2. DaemonTypeOK'
  BY <1>1 DEF DaemonInv, DaemonTypeOK, Click
<1>3. HasAnswer'
  BY <1>1 DEF DaemonInv, DaemonTypeOK, HasAnswer, Click
<1>4. StreamsTyped'
  BY DEF StreamsTyped, Click, socketVars
<1>5. QED
  BY <1>2, <1>3, <1>4 DEF DaemonInv

\* An error takes the place of an answer.
LEMMA ErrorTyped ==
  ASSUME DaemonInv, NEW u \in Users, daemon' = [daemon EXCEPT ![u] = "sending"],
         type' = [type EXCEPT ![u] = "Error"], UNCHANGED <<sockfd, request, clicks, levels>>,
         errors' \in 0 .. MaxErrors
  PROVE  DaemonInv'
<1>1. DaemonTypeOK'
  BY DEF DaemonInv, DaemonTypeOK, NResponse
<1>2. HasAnswer'
  BY DEF DaemonInv, DaemonTypeOK, HasAnswer
<1>3. QED
  BY <1>1, <1>2 DEF DaemonInv

LEMMA PopupTyped ==
  ASSUME StreamsTyped, DaemonInv, NEW u \in Users,
         Dismissed(u) \/ IncorrectDismissFlag(u) \/ SelectFails(u) \/ PopupEnds(u)
  PROVE  StreamsTyped' /\ DaemonInv'
<1>1. errors \in 0 .. MaxErrors /\ levels \subseteq Decisions
  BY DEF DaemonInv, DaemonTypeOK
<1>2. CASE Dismissed(u)
  <2>1. DaemonTypeOK' /\ HasAnswer'
    BY <1>2 DEF DaemonInv, DaemonTypeOK, HasAnswer, Dismissed
  <2>2. QED
    BY <1>2, <2>1, ReadsByteTyped DEF Dismissed, DaemonInv
<1>3. CASE IncorrectDismissFlag(u)
  <2>1. UNCHANGED <<errors, clicks, levels>> /\ Throws(u)
    BY <1>3 DEF IncorrectDismissFlag
  <2>2. CASE Exits(u)
    BY <1>1, <2>1, <2>2, ExitsTyped
  <2>3. CASE ~Exits(u)
    <3>1. /\ DaemonInv'
          /\ IF HasMessage(u) THEN ReadsByte(u) ELSE UNCHANGED socketVars
      BY <1>1, <2>1, <2>3, ErrorTyped DEF Throws
    <3>2. CASE HasMessage(u)
      BY <3>1, <3>2, ReadsByteTyped
    <3>3. CASE ~HasMessage(u)
      BY <3>1, <3>3 DEF StreamsTyped, socketVars
    <3>4. QED
      BY <3>2, <3>3
  <2>4. QED
    BY <2>2, <2>3
<1>4. CASE SelectFails(u)
  <2>1. errors' \in 0 .. MaxErrors
    <3>1. errors \in Nat /\ errors < MaxErrors /\ errors' = errors + 1
      BY <1>1, <1>4 DEF SelectFails
    <3>2. QED
      BY <3>1, MaxErrorsAssumption
  <2>2. DaemonInv'
    BY <1>4, <2>1, ErrorTyped DEF SelectFails
  <2>3. QED
    BY <1>4, <2>2 DEF SelectFails, StreamsTyped, socketVars
<1>5. CASE PopupEnds(u)
  <2>1. StreamsTyped'
    BY <1>5 DEF PopupEnds, StreamsTyped, socketVars
  <2>2. CASE type[u] = "None"
    BY <1>1, <1>5, <2>1, <2>2, WaitingTyped DEF PopupEnds
  <2>3. CASE type[u] # "None"
    <3>1. /\ daemon' = [daemon EXCEPT ![u] = "sending"]
          /\ UNCHANGED <<sockfd, request, type, errors, clicks, levels>>
      BY <1>5, <2>3 DEF PopupEnds
    <3>2. DaemonTypeOK'
      BY <3>1 DEF DaemonInv, DaemonTypeOK
    <3>3. HasAnswer'
      BY <2>3, <3>1 DEF DaemonInv, DaemonTypeOK, HasAnswer
    <3>4. QED
      BY <2>1, <3>2, <3>3 DEF DaemonInv
  <2>4. QED
    BY <2>2, <2>3
<1>6. QED
  BY <1>2, <1>3, <1>4, <1>5

LEMMA SendAnswerTyped ==
  ASSUME StreamsTyped, DaemonInv, NEW u \in Users, SendAnswer(u)
  PROVE  StreamsTyped' /\ DaemonInv'
<1>1. /\ errors' \in 0 .. MaxErrors /\ levels' \subseteq Decisions
      /\ UNCHANGED <<errors, clicks, levels>>
  BY DEF SendAnswer, DaemonInv, DaemonTypeOK
<1>2. CASE "agent" \in ends[sockfd[u]]
  <2> DEFINE answer == [id |-> request[u], type |-> type[u]]
  <2>1. /\ toAgent' = [toAgent EXCEPT ![sockfd[u]] = Append(@, answer)]
        /\ daemon' = [daemon EXCEPT ![u] = "acking"]
        /\ UNCHANGED <<toGui, listening, sockfd, request, type>>
    BY <1>2 DEF SendAnswer
  <2>2. answer \in Responses
    BY DEF SendAnswer, DaemonInv, DaemonTypeOK, HasAnswer, Responses
  <2> HIDE DEF answer
  <2>3. toAgent' \in [Conns -> Seq(Responses)]
    BY <2>1, <2>2, AppendTyped DEF StreamsTyped
  <2>4. DaemonTypeOK' /\ HasAnswer'
    BY <1>1, <2>1 DEF DaemonInv, DaemonTypeOK, HasAnswer
  <2>5. QED
    BY <2>1, <2>3, <2>4 DEF StreamsTyped, DaemonInv
<1>3. CASE "agent" \notin ends[sockfd[u]]
  BY <1>1, <1>3, ExitsTyped DEF SendAnswer
<1>4. QED
  BY <1>2, <1>3

\* A setting is made of a button that was pressed.
LEMMA GetAckTyped ==
  ASSUME StreamsTyped, DaemonInv, NEW u \in Users, GetAck(u)
  PROVE  StreamsTyped' /\ DaemonInv'
<1>1. levels' \subseteq Decisions
  <2>1. CASE UNCHANGED levels
    BY <2>1 DEF DaemonInv, DaemonTypeOK
  <2>2. CASE levels' # levels
    <3>1. /\ type[u] \in {"Allow", "Never"}
          /\ levels' = levels \cup {[user |-> u, id |-> request[u], type |-> type[u]]}
      BY <2>2 DEF GetAck, setSecurityLevel
    <3>2. type[u] \in Clickable
      BY <3>1 DEF DaemonInv, HasAnswer
    <3>3. QED
      BY <3>1, <3>2 DEF Decisions, DaemonInv, DaemonTypeOK
  <2>3. QED
    BY <2>1, <2>2
<1>2. UNCHANGED <<errors, clicks>> /\ errors \in 0 .. MaxErrors /\ HasMessage(u)
  BY DEF GetAck, DaemonInv, DaemonTypeOK
<1>3. CASE Exits(u)
  BY <1>1, <1>2, <1>3, ExitsTyped
<1>4. CASE ~Exits(u)
  <2>1. Waiting(u) /\ ReadsByte(u) /\ UNCHANGED sockfd
    BY <1>4 DEF GetAck
  <2>2. QED
    BY <1>1, <1>2, <2>1, WaitingTyped, ReadsByteTyped
<1>5. QED
  BY <1>3, <1>4

\* The steps that only end the process.
LEMMA LeavesTyped ==
  ASSUME StreamsTyped, DaemonInv, NEW u \in Users,
         SizeExceedsLimits(u) \/ ConnectionLost(u) \/ IncorrectAck(u) \/ Dies(u)
  PROVE  StreamsTyped' /\ DaemonInv'
<1>1. Exits(u) /\ UNCHANGED <<clicks, levels>> /\ (errors' = errors \/ Dies(u))
  BY DEF SizeExceedsLimits, ConnectionLost, IncorrectAck, Dies
<1>2. errors \in Nat /\ errors <= MaxErrors /\ levels \subseteq Decisions
  BY MaxErrorsAssumption DEF DaemonInv, DaemonTypeOK
<1>3. errors' \in 0 .. MaxErrors
  <2>1. CASE errors' = errors
    BY <1>2, <2>1
  <2>2. CASE Dies(u)
    <3>1. errors < MaxErrors /\ errors' = errors + 1
      BY <2>2 DEF Dies
    <3>2. QED
      BY <1>2, <3>1, MaxErrorsAssumption
  <2>3. QED
    BY <1>1, <2>1, <2>2
<1>4. QED
  BY <1>1, <1>2, <1>3, ExitsTyped

LEMMA DaemonStepTyped ==
  ASSUME StreamsTyped, DaemonInv, NEW u \in Users, DaemonStep(u)
  PROVE  StreamsTyped' /\ DaemonInv'
<1>1. CASE ConnectFails(u)
  BY <1>1 DEF ConnectFails, socketVars, daemonVars, StreamsTyped, DaemonInv, DaemonTypeOK,
              HasAnswer
<1>2. QED
  BY <1>1, GetRequestTyped, LeavesTyped, ClickTyped, PopupTyped, SendAnswerTyped, GetAckTyped
     DEF DaemonStep

-----------------------------------------------------------------------------
(* The theorem.                                                            *)

LEMMA InitTyped == ASSUME Init PROVE TInv
<1>1. /\ (CHOOSE id \in Ids : TRUE) \in Ids /\ (CHOOSE c \in Conns : TRUE) \in Conns
      /\ <<>> \in Seq(GuiMessages) /\ <<>> \in Seq(Responses)
  BY InstanceAssumption
<1>2. AreQueues(m_requests)
  BY DEF Init, TalkerInit, EmptyMap, AreQueues
<1>3. TalkerTyped /\ SendsReady
  <2>1. /\ loop = "idle" /\ todo = {} /\ m_fdStatus = [x \in {} |-> x] /\ m_stopflag = FALSE
        /\ asked = [id \in Ids |-> "free"] /\ added = 0 /\ taken = {}
    BY DEF Init, TalkerInit, EmptyMap
  <2>2. m_fdStatus \in [DOMAIN m_fdStatus -> BOOLEAN]
    BY <2>1
  <2>3. added \in 0 .. MaxAdd
    BY <2>1, MaxAddAssumption
  <2>4. QED
    BY <2>1, <2>2, <2>3 DEF TalkerTyped, SendsReady
<1>4. StreamsTyped
  BY <1>1 DEF Init, SocketsInit, StreamsTyped
<1>5. DaemonInv
  BY <1>1, MaxErrorsAssumption DEF Init, DaemonInit, DaemonInv, DaemonTypeOK, HasAnswer
<1>6. QED
  BY <1>2, <1>3, <1>4, <1>5 DEF TInv, TalkerInv

\* Every step keeps the types.
LEMMA StepTyped == ASSUME IInv, IInv', TInv, [Next]_vars PROVE TInv'
<1>1. TalkerInv /\ DaemonInv /\ StreamsTyped
  BY DEF TInv, TalkerInv
<1>2. CASE UNCHANGED vars
  <2>1. UNCHANGED socketVars /\ UNCHANGED talkerVars /\ UNCHANGED daemonVars
    BY <1>2 DEF vars
  <2>2. AreQueues(m_requests') /\ TalkerTyped' /\ StreamsTyped' /\ SendsReady'
    BY <1>1, <2>1 DEF TalkerInv, TalkerTyped, StreamsTyped, SendsReady, socketVars, talkerVars
  <2>3. DaemonInv'
    BY <1>1, <2>1 DEF DaemonInv, DaemonTypeOK, HasAnswer, daemonVars
  <2>4. QED
    BY <2>2, <2>3 DEF TInv, TalkerInv
<1>3. CASE UNCHANGED daemonVars /\ TalkerInv'
  BY <1>1, <1>3 DEF TInv, DaemonInv, DaemonTypeOK, HasAnswer, daemonVars
<1>4. CASE UNCHANGED talkerVars /\ StreamsTyped' /\ DaemonInv'
  <2>1. AreQueues(m_requests') /\ TalkerTyped' /\ SendsReady'
    BY <1>1, <1>4 DEF TalkerInv, TalkerTyped, SendsReady, talkerVars
  <2>2. QED
    BY <1>4, <2>1 DEF TInv, TalkerInv
<1>5. CASE \E u \in Users, id \in Ids : addRequest(u, id) /\ UNCHANGED daemonVars
  BY <1>1, <1>3, <1>5, AddRequestTyped
<1>6. CASE \E id \in Ids : removeRequest(id) /\ UNCHANGED daemonVars
  BY <1>1, <1>3, <1>6, RemoveRequestTyped
<1>7. CASE (stop \/ Select \/ Stopped \/ newConnection \/ Fails) /\ UNCHANGED daemonVars
  BY <1>1, <1>3, <1>7, StopTyped, SelectTyped, StoppedTyped, NewConnectionTyped, FailsTyped
<1>8. CASE \E c \in Conns : /\ \/ Disconnected(c) \/ TakesStale(c)
                               \/ TakesAnswer(c) \/ sendRequest(c)
                            /\ UNCHANGED daemonVars
  BY <1>1, <1>3, <1>8, DisconnectedTyped, TakesStaleTyped, TakesAnswerTyped, SendRequestTyped
<1>9. CASE \E u \in Users : Connect(u) /\ UNCHANGED talkerVars
  BY <1>1, <1>4, <1>9, ConnectTyped
<1>10. CASE \E u \in Users : DaemonStep(u) /\ UNCHANGED talkerVars
  BY <1>1, <1>4, <1>10, DaemonStepTyped
<1>11. QED
  BY <1>2, <1>5, <1>6, <1>7, <1>8, <1>9, <1>10 DEF Next, DaemonStep

\* Both invariants together.
LEMMA TypedInvariance == Spec => [](IInv /\ TInv)
<1>1. IInv /\ TInv /\ [Next]_vars => IInv' /\ TInv'
  BY StepInv, StepTyped
<1>2. QED
  BY <1>1, InitInv, InitTyped, PTL DEF Spec

\* Whatever the users, the connections and the ids are: every message on a
\* connection is one of the protocol, no id is in a queue twice, a daemon answers
\* with a button or an error, and the maps of the talker have users and
\* connections only.
THEOREM ProtocolTypeCorrect == Spec => []TypeOK
<1>1. QED
  BY TypedInvariance, TypesFromInvariants, PTL

-----------------------------------------------------------------------------
(* What a cancel removes.                                                  *)

\* Where removeRequest gets to a user it takes the id out of the queue; where it does
\* not, an earlier user's queue has not got it.
LEMMA CancelStep ==
  ASSUME AreQueues(m_requests), DOMAIN m_requests \subseteq Nat,
         NEW id \in Ids, removeRequest(id), id \in Queued'
  PROVE  \E u, v \in DOMAIN m_requests : v < u /\ IsQueued(id, u) /\ ~IsQueued(id, v)
<1>1. /\ DOMAIN m_requests' = DOMAIN m_requests
      /\ \A u \in DOMAIN m_requests :
           m_requests'[u] = IF u \in Reached(id) THEN Erased(m_requests[u], id)
                                                 ELSE m_requests[u]
  BY DEF removeRequest
<1>2. PICK u \in DOMAIN m_requests : id \in Range(m_requests'[u])
  BY <1>1 DEF Queued, IsQueued
<1>3. u \notin Reached(id)
  <2>1. SUFFICES ASSUME u \in Reached(id) PROVE FALSE
    OBVIOUS
  <2>2. id \in Range(m_requests[u])
    BY <2>1, <1>2 DEF Reached, IsQueued
  <2>3. m_requests[u] \in Seq(Ids) /\ IsInjective(m_requests[u])
    BY <1>2 DEF AreQueues
  <2>4. Range(m_requests'[u]) = Range(m_requests[u]) \ {id}
    BY <1>1, <1>2, <2>1, <2>2, <2>3, ErasedProperties
  <2>5. QED
    BY <1>2, <2>4
<1>4. IsQueued(id, u)
  BY <1>1, <1>2, <1>3 DEF IsQueued
<1>5. PICK v \in DOMAIN m_requests : v <= u /\ ~IsQueued(id, v)
  BY <1>2, <1>3 DEF Reached
<1>6. v < u
  BY <1>4, <1>5
<1>7. QED
  BY <1>4, <1>5, <1>6

\* However queues and connections came about, a cancel misses its request only behind
\* a user that has no use of it.
THEOREM CancelIsExact == Spec => CancelMissesOnlyBehindAnother
<1>1. IInv /\ TInv /\ [Next]_vars =>
        [\A id \in Ids :
           removeRequest(id) /\ id \in Queued' =>
             \E u, v \in DOMAIN m_requests :
               v < u /\ IsQueued(id, u) /\ ~IsQueued(id, v)]_vars
  <2>1. TInv => AreQueues(m_requests) /\ DOMAIN m_requests \subseteq Nat
    BY UsersAssumption DEF TInv, TalkerInv, AreQueues
  <2>2. QED
    BY <2>1, CancelStep
<1>2. QED
  BY <1>1, TypedInvariance, PTL DEF Spec, CancelMissesOnlyBehindAnother

\* With one user a cancel always removes its request, as the tests of the talker,
\* which have one user, expect.
THEOREM CancelRemovesForOne ==
  ASSUME NEW user, Users = {user}
  PROVE  Spec => CancelRemoves
<1>1. IInv /\ TInv /\ [Next]_vars =>
        [\A id \in Ids : removeRequest(id) => id \notin Queued']_vars
  <2>1. TInv => AreQueues(m_requests) /\ DOMAIN m_requests \subseteq {user}
                  /\ DOMAIN m_requests \subseteq Nat
    BY UsersAssumption DEF TInv, TalkerInv, AreQueues
  <2>2. user \in Nat /\ ~(user < user)
    BY UsersAssumption
  <2>3. SUFFICES ASSUME IInv, TInv, NEW id \in Ids, removeRequest(id), id \in Queued'
                 PROVE  FALSE
    OBVIOUS
  <2>4. PICK u, v \in DOMAIN m_requests : v < u
    BY <2>1, <2>3, CancelStep
  <2>5. u = user /\ v = user
    BY <2>1, <2>3, <2>4
  <2>6. QED
    BY <2>2, <2>4, <2>5
<1>2. QED
  BY <1>1, TypedInvariance, PTL DEF Spec, CancelRemoves
=============================================================================
