--------------------- MODULE AskUserProtocolOrderProofs ---------------------
(***************************************************************************)
(* In which order the messages to a daemon come, which have no frame: a    *)
(* dismissal only behind a request or to a daemon that has one in hand, an *)
(* acknowledgement only to a daemon whose answer was taken.  A stream that *)
(* has lost the first byte of a request is torn: its daemon reads nothing  *)
(* from it any more and ends.  From this order follow what becomes a       *)
(* setting, where a daemon starts to read, and that a popup shows the      *)
(* request at the front.                                                   *)
(***************************************************************************)
EXTENDS AskUserProtocolAnswerProofs

-----------------------------------------------------------------------------
(* Acknowledgements.                                                       *)

Torn(q) == q # <<>> /\ Head(q) = Rest

AcksIn(q) == {i \in DOMAIN q : q[i] = Ack}

\* An acknowledgement is on its way only to a daemon that waits for it, it is the
\* only one, and the agent has taken the daemon's answer; an answer is on its way
\* only from such a daemon.
AckFollows(u) ==
  /\ AcksIn(toGui[sockfd[u]]) # {} =>
       /\ daemon[u] = "acking" /\ toAgent[sockfd[u]] = <<>>
       /\ [user |-> u, id |-> request[u], type |-> type[u]] \in taken
       /\ \A i, j \in AcksIn(toGui[sockfd[u]]) : i = j
  /\ toAgent[sockfd[u]] # <<>> =>
       /\ daemon[u] = "acking"
       /\ toAgent[sockfd[u]] = <<[id |-> request[u], type |-> type[u]]>>

InOrder(u) == Torn(toGui[sockfd[u]]) \/ AckFollows(u)

AckInv == \A u \in Users : daemon[u] # "down" => InOrder(u)

LEMMA AppendedAcks ==
  ASSUME NEW q \in Seq(GuiMessages), NEW x
  PROVE  /\ x # Ack => AcksIn(Append(q, x)) = AcksIn(q)
         /\ x = Ack /\ AcksIn(q) = {} => AcksIn(Append(q, x)) = {Len(q) + 1}
<1>1. /\ Len(q) \in Nat /\ DOMAIN q = 1 .. Len(q)
      /\ DOMAIN Append(q, x) = 1 .. Len(q) + 1
      /\ Append(q, x)[Len(q) + 1] = x
      /\ \A i \in 1 .. Len(q) : Append(q, x)[i] = q[i]
  OBVIOUS
<1>2. QED
  BY <1>1 DEF AcksIn

LEMMA RestIsNoAck == Rest # Ack
BY DEF Rest, Ack

\* Reading a byte or a message brings no acknowledgement, and reads the one at the front.
LEMMA ReadAcks ==
  ASSUME NEW q \in Seq(GuiMessages), q # <<>>
  PROVE  /\ AcksIn(q) = {} => AcksIn(AfterByte(q)) = {} /\ AcksIn(Tail(q)) = {}
         /\ Head(q) = Ack /\ (\A i, j \in AcksIn(q) : i = j) => AcksIn(AfterByte(q)) = {}
<1>1. /\ Len(q) \in Nat /\ Len(q) >= 1 /\ DOMAIN q = 1 .. Len(q) /\ Head(q) = q[1]
      /\ DOMAIN Tail(q) = 1 .. Len(q) - 1
      /\ \A i \in 1 .. Len(q) - 1 : Tail(q)[i] = q[i + 1]
  OBVIOUS
<1> DEFINE t == <<Rest>> \o Tail(q)
<1>2. /\ DOMAIN t = 1 .. Len(q) /\ t[1] = Rest
      /\ \A i \in 2 .. Len(q) : t[i] = q[i]
  BY <1>1
<1>3. AfterByte(q) = IF Head(q).kind \in {"request", "rest"} THEN t ELSE Tail(q)
  BY DEF AfterByte
<1> HIDE DEF t
<1>4. AcksIn(q) = {} => AcksIn(t) = {}
  BY <1>1, <1>2, RestIsNoAck DEF AcksIn
<1>5. AcksIn(q) = {} => AcksIn(Tail(q)) = {}
  BY <1>1 DEF AcksIn
<1>6. Head(q) = Ack /\ (\A i, j \in AcksIn(q) : i = j) => AcksIn(Tail(q)) = {}
  <2> SUFFICES ASSUME q[1] = Ack, \A i, j \in AcksIn(q) : i = j, NEW i \in AcksIn(Tail(q))
               PROVE  FALSE
    BY <1>1
  <2>1. i \in 1 .. Len(q) - 1 /\ q[i + 1] = Ack
    BY <1>1 DEF AcksIn
  <2>2. 1 \in AcksIn(q) /\ i + 1 \in AcksIn(q)
    BY <1>1, <2>1 DEF AcksIn
  <2>3. QED
    BY <2>1, <2>2
<1>7. Head(q) = Ack => Head(q).kind \notin {"request", "rest"}
  BY DEF Ack
<1>8. QED
  BY <1>3, <1>4, <1>5, <1>6, <1>7

\* A torn stream stays torn, whatever is sent and however many bytes are read.
LEMMA TornStays ==
  ASSUME NEW q \in Seq(GuiMessages), Torn(q)
  PROVE  Torn(AfterByte(q)) /\ \A x : Torn(Append(q, x))
<1>1. Len(q) \in Nat /\ Len(q) >= 1 /\ q[1] = Rest
  BY DEF Torn
<1>2. AfterByte(q) = <<Rest>> \o Tail(q)
  BY DEF Torn, AfterByte, Rest
<1>3. Head(<<Rest>> \o Tail(q)) = Rest /\ <<Rest>> \o Tail(q) # <<>>
  OBVIOUS
<1>4. ASSUME NEW x PROVE Torn(Append(q, x))
  <2>1. Append(q, x)[1] = q[1] /\ Len(Append(q, x)) = Len(q) + 1
    BY <1>1
  <2>2. Head(Append(q, x)) = Append(q, x)[1] /\ Append(q, x) # <<>>
    BY <1>1, <2>1
  <2>3. QED
    BY <1>1, <2>1, <2>2 DEF Torn
<1>5. QED
  BY <1>2, <1>3, <1>4 DEF Torn

\* Reading the first byte of a request tears the stream.
LEMMA RequestTears ==
  ASSUME NEW q \in Seq(GuiMessages), q # <<>>, Head(q).kind = "request"
  PROVE  Torn(AfterByte(q))
<1>1. AfterByte(q) = <<Rest>> \o Tail(q)
  BY DEF AfterByte
<1>2. Head(<<Rest>> \o Tail(q)) = Rest /\ <<Rest>> \o Tail(q) # <<>>
  OBVIOUS
<1>3. QED
  BY <1>1, <1>2 DEF Torn

LEMMA OtherMessages == Dismissal # Ack /\ \A id \in Ids : Request(id) # Ack
BY DEF Dismissal, Request, Ack

\* The agent acknowledges what it has taken, and that was the only answer.
LEMMA AgentStepKeepsAcks ==
  ASSUME IInv, TInv, PInv, AckInv, AgentStep
  PROVE  AckInv'
<1>1. /\ EndsInv /\ DaemonTypeOK
      /\ toGui \in [Conns -> Seq(GuiMessages)] /\ toAgent \in [Conns -> Seq(Responses)]
  BY DEF PInv, TInv, TalkerInv, StreamsTyped, DaemonInv
<1>2. /\ taken \subseteq taken' /\ \A c \in Conns : OnConnection(c)
      /\ owner' = owner /\ daemon' = daemon /\ sockfd' = sockfd /\ request' = request
      /\ type' = type /\ levels' = levels
  BY DEF AgentStep, daemonVars
<1>3. ASSUME NEW u \in Users, daemon[u] # "down"
      PROVE  InOrder(u)'
  <2> DEFINE c == sockfd[u]
             r == [id |-> request[u], type |-> type[u]]
             a == [user |-> u, id |-> request[u], type |-> type[u]]
  <2>1. /\ c \in Conns /\ owner[c] = u
        /\ toGui[c] \in Seq(GuiMessages) /\ toAgent[c] \in Seq(Responses)
    BY <1>1, <1>3 DEF EndsInv, DaemonsConnected, DaemonTypeOK
  <2>0. CASE Torn(toGui[c])
    <3>1. toGui'[c] = toGui[c] \/ \E x : toGui'[c] = Append(toGui[c], x)
      BY <1>2, <2>1 DEF OnConnection, Sent
    <3>2. Torn(toGui'[c])
      BY <2>0, <2>1, <3>1, TornStays
    <3>3. QED
      BY <1>2, <3>2 DEF InOrder, Torn, Rest
  <2> SUFFICES ASSUME ~Torn(toGui[c]) PROVE AckFollows(u)'
    BY <2>0 DEF InOrder
  <2>2. /\ AcksIn(toGui[c]) # {} => /\ daemon[u] = "acking" /\ toAgent[c] = <<>> /\ a \in taken
                                    /\ \A i, j \in AcksIn(toGui[c]) : i = j
        /\ toAgent[c] # <<>> => daemon[u] = "acking" /\ toAgent[c] = <<r>>
    BY <1>3 DEF AckInv, InOrder, AckFollows
  <2>3. \/ toAgent'[c] \in {toAgent[c], <<>>}
        \/ toAgent[c] # <<>> /\ toAgent'[c] = Tail(toAgent[c])
    BY <1>2, <2>1 DEF OnConnection
  <2>4. \/ AcksIn(toGui'[c]) = AcksIn(toGui[c])
        \/ toGui'[c] = Append(toGui[c], Ack) /\ FirstTaken(c)
    <3>1. CASE toGui'[c] = toGui[c]
      BY <3>1
    <3>2. CASE Sent(c, Dismissal) \/ \E id \in Ids : Sent(c, Request(id))
      BY <2>1, <3>2, AppendedAcks, OtherMessages DEF Sent
    <3>3. CASE Sent(c, Ack) /\ FirstTaken(c)
      BY <3>3 DEF Sent
    <3>4. QED
      BY <1>2, <2>1, <3>1, <3>2, <3>3 DEF OnConnection
  <2> SUFFICES /\ AcksIn(toGui'[c]) # {} =>
                    /\ daemon[u] = "acking" /\ toAgent'[c] = <<>> /\ a \in taken'
                    /\ \A i, j \in AcksIn(toGui'[c]) : i = j
               /\ toAgent'[c] # <<>> => daemon[u] = "acking" /\ toAgent'[c] = <<r>>
    BY <1>2 DEF AckFollows, AcksIn, Ack
  <2>5. r.id = request[u] /\ r.type = type[u]
    OBVIOUS
  <2>6. a = [user |-> owner[c], id |-> r.id, type |-> r.type]
    BY <2>1
  <2> HIDE DEF c, r, a
  <2>7. toAgent[c] # <<>> => Head(toAgent[c]) = r /\ Tail(toAgent[c]) = <<>>
    <3>1. Head(<<r>>) = r /\ Tail(<<r>>) = <<>>
      OBVIOUS
    <3>2. QED
      BY <2>2, <3>1
  <2>8. CASE AcksIn(toGui'[c]) = AcksIn(toGui[c])
    BY <1>2, <2>2, <2>3, <2>7, <2>8
  <2>9. CASE toGui'[c] = Append(toGui[c], Ack) /\ FirstTaken(c)
    <3>1. toAgent[c] # <<>> /\ toAgent'[c] = <<>> /\ a \in taken'
      BY <2>6, <2>7, <2>9 DEF FirstTaken
    <3>2. daemon[u] = "acking" /\ AcksIn(toGui[c]) = {}
      BY <2>2, <3>1
    <3>3. AcksIn(toGui'[c]) = {Len(toGui[c]) + 1}
      BY <2>1, <2>9, <3>2, AppendedAcks
    <3>4. QED
      BY <3>1, <3>2, <3>3
  <2>10. QED
    BY <2>4, <2>8, <2>9
<1>4. QED
  BY <1>2, <1>3 DEF AckInv

\* What another daemon has on its connection does not change.
LEMMA OthersKeepAcks ==
  ASSUME NEW v \in Users, sockfd[v] \in Conns, daemon[v] # "down" => InOrder(v),
         daemon'[v] = daemon[v],
         daemon[v] # "down" =>
           /\ sockfd'[v] = sockfd[v] /\ request'[v] = request[v] /\ type'[v] = type[v]
           /\ toGui'[sockfd[v]] = toGui[sockfd[v]]
           /\ toAgent'[sockfd[v]] = toAgent[sockfd[v]],
         taken' = taken
  PROVE  (daemon[v] # "down" => InOrder(v))'
<1> SUFFICES ASSUME daemon[v] # "down" PROVE InOrder(v)'
  OBVIOUS
<1>1. /\ AcksIn(toGui[sockfd[v]])' = AcksIn(toGui[sockfd[v]])
      /\ Torn(toGui[sockfd[v]])' = Torn(toGui[sockfd[v]])
  BY DEF AcksIn, Ack, Torn, Rest
<1>2. QED
  BY <1>1 DEF InOrder, AckFollows

LEMMA RunsKeepsAcks ==
  ASSUME IInv, TInv, PInv, AckInv, NEW u \in Users, Runs(u), UNCHANGED talkerVars
  PROVE  AckInv'
<1> DEFINE c == sockfd[u]
           q == toGui[c]
           r == [id |-> request[u], type |-> type[u]]
           a == [user |-> u, id |-> request[u], type |-> type[u]]
<1>1. /\ EndsInv /\ DaemonTypeOK
      /\ toGui \in [Conns -> Seq(GuiMessages)] /\ toAgent \in [Conns -> Seq(Responses)]
  BY DEF PInv, TInv, TalkerInv, StreamsTyped, DaemonInv
<1>2. /\ c \in Conns /\ q \in Seq(GuiMessages) /\ toAgent[c] \in Seq(Responses)
      /\ daemon[u] # "down" /\ daemon'[u] # "down" /\ sockfd' = sockfd
      /\ \A v \in Users : v # u /\ daemon[v] # "down" => sockfd[v] # c
      /\ \A v \in Users : sockfd[v] \in Conns
  <2>1. daemon[u] # "down" /\ daemon'[u] # "down" /\ sockfd' = sockfd
    BY DEF Runs
  <2>2. \A v \in Users : sockfd[v] \in Conns
    BY <1>1 DEF DaemonTypeOK
  <2>3. \A v \in Users : v # u /\ daemon[v] # "down" => sockfd[v] # c
    BY <1>1, <2>1 DEF EndsInv, DaemonsConnected
  <2>4. QED
    BY <1>1, <2>1, <2>2, <2>3
<1>3. taken' = taken
  BY DEF talkerVars
<1>4. ASSUME NEW v \in Users, v # u
      PROVE  (daemon[v] # "down" => InOrder(v))'
  BY <1>2, <1>3, <1>4, OthersKeepAcks DEF Runs, AckInv
<1> SUFFICES InOrder(u)'
  BY <1>4 DEF AckInv
<1>5. ASSUME Torn(toGui'[c]) PROVE InOrder(u)'
  BY <1>2, <1>5 DEF InOrder, Torn, Rest
<1>6. CASE Torn(q)
  <2>1. Head(q).kind # "request"
    BY <1>6 DEF Torn, Rest
  <2>2. toGui'[c] = q \/ toGui'[c] = AfterByte(q)
    BY <2>1 DEF Runs, Takes
  <2>3. QED
    BY <1>2, <1>5, <1>6, <2>2, TornStays
<1> SUFFICES ASSUME ~Torn(q) PROVE InOrder(u)'
  BY <1>6
<1>7. /\ AcksIn(q) # {} => /\ daemon[u] = "acking" /\ toAgent[c] = <<>> /\ a \in taken
                           /\ \A i, j \in AcksIn(q) : i = j
      /\ toAgent[c] # <<>> => daemon[u] = "acking" /\ toAgent[c] = <<r>>
  BY <1>2 DEF AckInv, InOrder, AckFollows
<1>8. CASE daemon[u] = "acking"
  <2>1. q # <<>> /\ ReadsAs(q, Ack) /\ toGui'[c] = AfterByte(q) /\ toAgent'[c] = toAgent[c]
    BY <1>8 DEF Runs
  <2>2. CASE Head(q).kind = "request"
    BY <1>2, <1>5, <2>1, <2>2, RequestTears
  <2>3. CASE Head(q) = Ack
    <3>1. 1 \in AcksIn(q)
      BY <1>2, <2>1, <2>3 DEF AcksIn
    <3>2. toAgent[c] = <<>> /\ AcksIn(AfterByte(q)) = {}
      BY <1>2, <1>7, <2>1, <2>3, <3>1, ReadAcks
    <3>3. AcksIn(toGui[sockfd[u]])' = {} /\ toAgent'[sockfd'[u]] = <<>>
      BY <1>2, <2>1, <3>2 DEF AcksIn, Ack
    <3>4. QED
      BY <3>3 DEF InOrder, AckFollows
  <2>4. QED
    BY <2>1, <2>2, <2>3 DEF ReadsAs
<1>9. CASE daemon[u] # "acking"
  <2>1. AcksIn(q) = {} /\ toAgent[c] = <<>>
    BY <1>7, <1>9
  <2>2. toGui'[c] = q \/ (q # <<>> /\ toGui'[c] \in {AfterByte(q), Tail(q)})
    BY DEF Runs, Takes
  <2>3. AcksIn(toGui'[c]) = {}
    BY <1>2, <2>1, <2>2, ReadAcks
  <2>4. AcksIn(toGui[sockfd[u]])' = {}
    BY <1>2, <2>3 DEF AcksIn, Ack
  <2>5. \/ toAgent'[c] = <<>>
        \/ /\ daemon'[u] = "acking" /\ request'[u] = request[u] /\ type'[u] = type[u]
           /\ toAgent'[c] = <<r>>
    <3>1. Append(<<>>, r) = <<r>>
      OBVIOUS
    <3>2. CASE SendsAnswer(u)
      BY <2>1, <3>1, <3>2 DEF SendsAnswer
    <3>3. CASE toAgent'[c] = toAgent[c]
      BY <2>1, <3>3
    <3>4. QED
      BY <3>2, <3>3 DEF Runs
  <2>6. QED
    BY <1>2, <2>4, <2>5 DEF InOrder, AckFollows
<1>10. QED
  BY <1>8, <1>9

LEMMA LeavesKeepsAcks ==
  ASSUME IInv, TInv, PInv, AckInv, NEW u \in Users, Leaves(u), UNCHANGED talkerVars
  PROVE  AckInv'
<1>1. /\ EndsInv /\ StreamsTyped /\ DaemonTypeOK /\ SocketsTyped
  BY DEF PInv, TInv, TalkerInv, DaemonInv, IInv, MapsInv
<1>2. \A v \in Users : v # u /\ daemon[v] # "down" => sockfd[v] # sockfd[u]
  BY <1>1 DEF Leaves, EndsInv, DaemonsConnected
<1>3. /\ \A v \in Users : sockfd[v] \in Conns
      /\ taken' = taken
  BY <1>1 DEF DaemonTypeOK, talkerVars
<1>4. /\ daemon'[u] = "down"
      /\ \A v \in Users : v # u => /\ daemon'[v] = daemon[v] /\ sockfd'[v] = sockfd[v]
                                   /\ type'[v] = type[v] /\ request'[v] = request[v]
      /\ \A d \in Conns : d # sockfd[u] => toGui'[d] = toGui[d]
      /\ toAgent' = toAgent
  BY <1>1, LeavesEffect
<1>5. ASSUME NEW v \in Users, v # u
      PROVE  (daemon[v] # "down" => InOrder(v))'
  BY <1>2, <1>3, <1>4, <1>5, OthersKeepAcks DEF AckInv
<1>6. QED
  BY <1>4, <1>5 DEF AckInv

LEMMA ConnectKeepsAcks ==
  ASSUME IInv, TInv, PInv, AckInv, NEW u \in Users, Connect(u), UNCHANGED talkerVars
  PROVE  AckInv'
<1>1. EndsInv /\ DaemonTypeOK /\ SocketsTyped
  BY DEF PInv, TInv, DaemonInv, IInv, MapsInv
<1>2. PICK c \in Conns :
           /\ ends[c] = {} /\ ends'[c] = {"agent", "gui"} /\ owner'[c] = u
           /\ \A d \in Conns : d # c => ends'[d] = ends[d] /\ owner'[d] = owner[d]
           /\ daemon[u] = "down" /\ daemon'[u] = "waiting" /\ sockfd'[u] = c
           /\ \A v \in Users : v # u => daemon'[v] = daemon[v] /\ sockfd'[v] = sockfd[v]
           /\ UNCHANGED <<toGui, toAgent, request, type, clicks, levels>>
  BY <1>1, ConnectEffect
<1>3. /\ \A v \in Users : sockfd[v] \in Conns
      /\ taken' = taken /\ toGui[c] = <<>> /\ toAgent[c] = <<>>
  BY <1>1, <1>2 DEF DaemonTypeOK, talkerVars, EndsInv, ClosedIsDropped
<1>4. ASSUME NEW v \in Users, v # u
      PROVE  (daemon[v] # "down" => InOrder(v))'
  BY <1>2, <1>3, <1>4, OthersKeepAcks DEF AckInv
<1>5. InOrder(u)'
  <2>1. AcksIn(toGui[sockfd[u]])' = {} /\ toAgent'[sockfd'[u]] = <<>>
    BY <1>2, <1>3 DEF AcksIn
  <2>2. QED
    BY <2>1 DEF InOrder, AckFollows
<1>6. QED
  BY <1>4, <1>5 DEF AckInv

LEMMA InitAcks == ASSUME Init PROVE AckInv
BY DEF Init, DaemonInit, AckInv

LEMMA StepAcks ==
  ASSUME IInv, TInv, PInv, AckInv, [Next]_vars
  PROVE  AckInv'
<1>1. CASE UNCHANGED <<socketVars, daemonVars>> /\ UNCHANGED talkerVars
  <2>1. taken' = taken /\ toGui' = toGui /\ toAgent' = toAgent
        /\ daemon' = daemon /\ sockfd' = sockfd /\ request' = request /\ type' = type
    BY <1>1 DEF socketVars, daemonVars, talkerVars
  <2>2. ASSUME NEW v \in Users PROVE (daemon[v] # "down" => InOrder(v))'
    BY <2>1, OthersKeepAcks DEF AckInv, TInv, DaemonInv, DaemonTypeOK
  <2>3. QED
    BY <2>2 DEF AckInv
<1>2. CASE AgentActs /\ UNCHANGED daemonVars
  BY <1>2, ActsAreAgentSteps, AgentStepKeepsAcks
<1>3. CASE \E u \in Users : Connect(u) /\ UNCHANGED talkerVars
  BY <1>3, ConnectKeepsAcks
<1>4. CASE \E u \in Users : DaemonStep(u) /\ UNCHANGED talkerVars
  BY <1>1, <1>4, DaemonStepKinds, RunsKeepsAcks, LeavesKeepsAcks
<1>5. QED
  BY <1>1, <1>2, <1>3, <1>4 DEF Next, AgentActs, DaemonStep, vars

LEMMA StepSettings ==
  ASSUME AckSized = {}, IInv, TInv, PInv, AckInv, SettingsWereTaken, [Next]_vars
  PROVE  SettingsWereTaken'
<1>1. CASE UNCHANGED <<levels, taken>>
  BY <1>1 DEF SettingsWereTaken
<1>2. CASE AgentActs /\ UNCHANGED daemonVars
  <2>1. taken \subseteq taken' /\ levels' = levels
    BY <1>2, ActsAreAgentSteps DEF AgentStep, daemonVars
  <2>2. QED
    BY <2>1 DEF SettingsWereTaken
<1>3. ASSUME NEW u \in Users, Connect(u), UNCHANGED talkerVars PROVE SettingsWereTaken'
  BY <1>1, <1>3 DEF Connect, talkerVars
<1>4. ASSUME NEW u \in Users, DaemonStep(u), UNCHANGED talkerVars PROVE SettingsWereTaken'
  <2>1. taken' = taken
    BY <1>4 DEF talkerVars
  <2>2. CASE UNCHANGED <<socketVars, daemonVars>>
    BY <1>1, <2>1, <2>2 DEF daemonVars
  <2>3. CASE Leaves(u)
    BY <1>1, <2>1, <2>3 DEF Leaves
  <2>4. CASE Runs(u)
    <3> DEFINE q == toGui[sockfd[u]]
               a == [user |-> u, id |-> request[u], type |-> type[u]]
    <3>1. CASE daemon[u] # "acking"
      BY <1>1, <2>1, <2>4, <3>1 DEF Runs
    <3>2. CASE daemon[u] = "acking"
      <4>1. q # <<>> /\ ReadsAs(q, Ack) /\ levels' \subseteq levels \cup {a}
        BY <2>4, <3>2 DEF Runs
      <4>2. Head(q) = Ack
        BY <4>1 DEF ReadsAs
      <4>3. AckFollows(u)
        BY <3>2, <4>2 DEF AckInv, InOrder, Torn, Ack, Rest
      <4>4. 1 \in AcksIn(q)
        <5>1. q \in Seq(GuiMessages)
          BY DEF TInv, TalkerInv, StreamsTyped, DaemonInv, DaemonTypeOK
        <5>2. QED
          BY <4>1, <4>2, <5>1 DEF AcksIn
      <4>5. a \in taken
        BY <4>3, <4>4 DEF AckFollows
      <4>6. QED
        BY <2>1, <4>1, <4>5 DEF SettingsWereTaken
    <3>3. QED
      BY <3>1, <3>2
  <2>5. QED
    BY <1>4, <2>2, <2>3, <2>4, DaemonStepKinds
<1>5. CASE UNCHANGED vars
  BY <1>1, <1>5 DEF vars, daemonVars, talkerVars
<1>6. QED
  BY <1>2, <1>3, <1>4, <1>5 DEF Next, AgentActs, DaemonStep

LEMMA AcksInvariance == Spec => []AckInv
<1>1. IInv /\ TInv /\ PInv /\ AckInv /\ [Next]_vars => AckInv'
  BY StepAcks
<1>2. QED
  BY <1>1, InitAcks, AnswersInvariance, PTL DEF Spec

\* When no size looks like an acknowledgement, a daemon makes a setting only of an
\* answer that the agent has taken: the byte it waits for is sent after the answer
\* was taken and is the only one of its kind, whatever else crosses it.
THEOREM OnlyTakenBecomesSetting ==
  ASSUME AckSized = {}
  PROVE  Spec => []SettingsWereTaken
<1>1. IInv /\ TInv /\ PInv /\ AckInv /\ SettingsWereTaken /\ [Next]_vars => SettingsWereTaken'
  BY StepSettings
<1>2. Init => SettingsWereTaken
  BY DEF Init, DaemonInit, SettingsWereTaken
<1>3. QED
  BY <1>1, <1>2, AnswersInvariance, AcksInvariance, PTL DEF Spec

-----------------------------------------------------------------------------
(* Where the boundaries of the requests are.                               *)

\* A dismissal follows the request it is for, or what is left of it; only the first
\* request of a stream is ever torn.
WellOrdered(q) ==
  \A i \in 2 .. Len(q) :
    q[i] # Rest /\ (q[i] = Dismissal => q[i - 1].kind \in {"request", "rest"})

HasInHand(u) ==
  daemon[u] \in {"popup", "sending", "acking"} \/ (daemon[u] = "closing" /\ type[u] # "None")

BoundaryKept(u) ==
  /\ WellOrdered(toGui[sockfd[u]])
  /\ toGui[sockfd[u]] # <<>> /\ Head(toGui[sockfd[u]]) = Dismissal => HasInHand(u)
  /\ Torn(toGui[sockfd[u]]) =>
       daemon[u] \in {"sending", "acking"} \/ AckSized \cup DismissSized # {}

StreamInv == \A u \in Users : daemon[u] # "down" => BoundaryKept(u)

LEMMA RestIsRest == Rest.kind = "rest" /\ Rest # Dismissal /\ Ack # Dismissal
BY DEF Rest, Dismissal, Ack

LEMMA AppendedOrder ==
  ASSUME NEW q \in Seq(GuiMessages), WellOrdered(q), NEW x, x # Rest,
         x = Dismissal /\ q # <<>> => EndsInRequest(q)
  PROVE  WellOrdered(Append(q, x))
<1>1. /\ Len(q) \in Nat /\ Len(Append(q, x)) = Len(q) + 1
      /\ Append(q, x)[Len(q) + 1] = x
      /\ \A i \in 1 .. Len(q) : Append(q, x)[i] = q[i]
      /\ q # <<>> <=> Len(q) # 0
  OBVIOUS
<1> SUFFICES ASSUME NEW i \in 2 .. Len(q) + 1
             PROVE  /\ Append(q, x)[i] # Rest
                    /\ Append(q, x)[i] = Dismissal =>
                         Append(q, x)[i - 1].kind \in {"request", "rest"}
  BY <1>1 DEF WellOrdered
<1>2. CASE i \in 2 .. Len(q)
  <2>1. Append(q, x)[i] = q[i] /\ Append(q, x)[i - 1] = q[i - 1]
    BY <1>1, <1>2
  <2>2. QED
    BY <1>2, <2>1 DEF WellOrdered
<1>3. CASE i = Len(q) + 1
  <2>1. q # <<>> /\ Append(q, x)[i] = x /\ Append(q, x)[i - 1] = q[Len(q)]
    BY <1>1, <1>3
  <2>2. QED
    BY <2>1 DEF EndsInRequest
<1>4. QED
  BY <1>1, <1>2, <1>3

LEMMA TailOrder ==
  ASSUME NEW q \in Seq(GuiMessages), q # <<>>, WellOrdered(q)
  PROVE  /\ WellOrdered(Tail(q))
         /\ ~Torn(Tail(q))
         /\ Tail(q) # <<>> /\ Head(Tail(q)) = Dismissal => Head(q).kind \in {"request", "rest"}
<1>1. /\ Len(q) \in Nat /\ Len(q) >= 1 /\ Len(Tail(q)) = Len(q) - 1 /\ Head(q) = q[1]
      /\ \A i \in 1 .. Len(q) - 1 : Tail(q)[i] = q[i + 1]
  OBVIOUS
<1>2. WellOrdered(Tail(q))
  <2> SUFFICES ASSUME NEW i \in 2 .. Len(q) - 1
               PROVE  /\ Tail(q)[i] # Rest
                      /\ Tail(q)[i] = Dismissal => Tail(q)[i - 1].kind \in {"request", "rest"}
    BY <1>1 DEF WellOrdered
  <2>1. /\ Tail(q)[i] = q[i + 1] /\ Tail(q)[i - 1] = q[i]
        /\ i + 1 \in 2 .. Len(q) /\ (i + 1) - 1 = i
    BY <1>1
  <2>2. QED
    BY <2>1 DEF WellOrdered
<1>3. ASSUME Tail(q) # <<>>
      PROVE  Head(Tail(q)) # Rest /\ (Head(Tail(q)) = Dismissal => q[1].kind \in {"request", "rest"})
  <2>1. Head(Tail(q)) = q[2] /\ 2 \in 2 .. Len(q) /\ 2 - 1 = 1
    BY <1>1, <1>3
  <2>2. QED
    BY <2>1 DEF WellOrdered
<1>4. QED
  BY <1>1, <1>2, <1>3 DEF Torn

\* Behind the byte that is read there is no dismissal, and the stream is torn only
\* by the byte of a request.
LEMMA AfterByteOrder ==
  ASSUME NEW q \in Seq(GuiMessages), q # <<>>, WellOrdered(q)
  PROVE  /\ WellOrdered(AfterByte(q))
         /\ AfterByte(q) # <<>> => Head(AfterByte(q)) # Dismissal
         /\ Torn(AfterByte(q)) => Head(q).kind \in {"request", "rest"}
<1>1. CASE Head(q).kind \in {"request", "rest"}
  <2> DEFINE t == <<Rest>> \o Tail(q)
  <2>1. /\ Len(t) = Len(q) /\ t[1] = Rest /\ Head(t) = Rest
        /\ \A i \in 2 .. Len(q) : t[i] = q[i]
        /\ Len(q) \in Nat /\ Head(q) = q[1]
    OBVIOUS
  <2>2. AfterByte(q) = t
    BY <1>1 DEF AfterByte
  <2> HIDE DEF t
  <2>3. ASSUME NEW i \in 2 .. Len(q)
        PROVE  t[i] # Rest /\ (t[i] = Dismissal => t[i - 1].kind \in {"request", "rest"})
    <3>1. CASE i = 2
      BY <2>1, <2>3, <3>1, RestIsRest DEF WellOrdered
    <3>2. CASE i # 2
      <4>1. i \in 2 .. Len(q) /\ i - 1 \in 2 .. Len(q)
        BY <2>1, <3>2
      <4>2. QED
        BY <2>1, <4>1 DEF WellOrdered
    <3>3. QED
      BY <3>1, <3>2
  <2>4. QED
    BY <1>1, <2>1, <2>2, <2>3, RestIsRest DEF WellOrdered
<1>2. CASE Head(q).kind \notin {"request", "rest"}
  BY <1>2, TailOrder DEF AfterByte
<1>3. QED
  BY <1>1, <1>2

\* The agent dismisses only what is on its way to a popup or in one.
LEMMA AgentStepKeepsStreams ==
  ASSUME IInv, TInv, PInv, AckInv, StreamInv, AgentStep
  PROVE  StreamInv'
<1>1. /\ EndsInv /\ DaemonTypeOK /\ AnswersCome
      /\ toGui \in [Conns -> Seq(GuiMessages)]
  BY DEF PInv, TInv, TalkerInv, StreamsTyped, DaemonInv
<1>2. /\ \A c \in Conns : OnConnection(c)
      /\ daemon' = daemon /\ sockfd' = sockfd /\ type' = type
  BY DEF AgentStep, daemonVars
<1>3. ASSUME NEW u \in Users, daemon[u] # "down"
      PROVE  BoundaryKept(u)'
  <2> DEFINE c == sockfd[u]
             q == toGui[c]
  <2>1. /\ c \in Conns /\ owner[c] = u /\ "gui" \in ends[c] /\ q \in Seq(GuiMessages)
    BY <1>1, <1>3 DEF EndsInv, DaemonsConnected, DaemonTypeOK
  <2>2. WellOrdered(q) /\ (q # <<>> /\ Head(q) = Dismissal => HasInHand(u))
        /\ (Torn(q) => daemon[u] \in {"sending", "acking"} \/ AckSized \cup DismissSized # {})
    BY <1>3 DEF StreamInv, BoundaryKept
  <2>3. CASE toGui'[c] = q
    BY <1>2, <2>2, <2>3 DEF BoundaryKept, WellOrdered, HasInHand, Torn, Rest, Dismissal
  <2>4. ASSUME NEW x, toGui'[c] = Append(q, x), x # Rest,
               x = Dismissal /\ q # <<>> => EndsInRequest(q),
               x = Dismissal /\ q = <<>> => HasInHand(u)
        PROVE  BoundaryKept(u)'
    <3> DEFINE t == Append(q, x)
    <3>1. WellOrdered(t)
      BY <2>1, <2>2, <2>4, AppendedOrder
    <3>2. /\ Len(t) = Len(q) + 1 /\ Head(t) = t[1]
          /\ q # <<>> => Head(t) = Head(q)
          /\ q = <<>> => Head(t) = x
      BY <2>1
    <3>3. t # <<>> /\ Head(t) = Dismissal => HasInHand(u)
      BY <2>2, <2>4, <3>2
    <3>4. Torn(t) => daemon[u] \in {"sending", "acking"} \/ AckSized \cup DismissSized # {}
      BY <2>2, <2>4, <3>2 DEF Torn
    <3>5. toGui'[c] = t
      BY <2>4
    <3> HIDE DEF t
    <3>6. QED
      BY <1>2, <3>1, <3>3, <3>4, <3>5
      DEF BoundaryKept, WellOrdered, HasInHand, Torn, Rest, Dismissal
  <2>5. CASE Sent(c, Dismissal) /\ Busy(c)
    <3>1. AnswerComing(c)
      BY <1>1, <2>1 DEF AnswersCome
    <3>2. q # <<>> => EndsInRequest(q)
      BY <2>1, <2>5, <3>1 DEF AnswerComing, Busy
    <3>3. q = <<>> => HasInHand(u)
      <4>1. q = <<>> /\ toAgent[c] # <<>> => daemon[u] = "acking"
        BY <1>3 DEF AckInv, InOrder, AckFollows, Torn
      <4>2. QED
        BY <2>1, <2>5, <3>1, <4>1 DEF AnswerComing, Busy, HasInHand
    <3>4. toGui'[c] = Append(q, Dismissal) /\ Dismissal # Rest
      BY <2>5, RestIsRest DEF Sent
    <3>5. QED
      BY <2>4, <3>2, <3>3, <3>4
  <2>6. CASE \E id \in Ids : Sent(c, Request(id))
    <3>1. PICK id \in Ids : Sent(c, Request(id))
      BY <2>6
    <3>2. Request(id) # Rest /\ Request(id) # Dismissal
      BY DEF Request, Rest, Dismissal
    <3>3. QED
      BY <2>4, <3>1, <3>2 DEF Sent
  <2>7. CASE Sent(c, Ack)
    <3>1. Ack # Rest /\ Ack # Dismissal
      BY DEF Ack, Rest, Dismissal
    <3>2. QED
      BY <2>4, <2>7, <3>1 DEF Sent
  <2>8. QED
    BY <1>2, <2>1, <2>3, <2>5, <2>6, <2>7 DEF OnConnection
<1>4. QED
  BY <1>2, <1>3 DEF StreamInv

LEMMA OthersKeepStreams ==
  ASSUME NEW v \in Users, daemon[v] # "down" => BoundaryKept(v),
         daemon'[v] = daemon[v],
         daemon[v] # "down" =>
           /\ sockfd'[v] = sockfd[v] /\ type'[v] = type[v]
           /\ toGui'[sockfd[v]] = toGui[sockfd[v]]
  PROVE  (daemon[v] # "down" => BoundaryKept(v))'
BY DEF BoundaryKept, WellOrdered, HasInHand, Torn, Rest, Dismissal

\* A daemon never leaves a dismissal behind that it has not a popup for.
LEMMA RunsKeepsStreams ==
  ASSUME IInv, TInv, PInv, StreamInv, NEW u \in Users, Runs(u)
  PROVE  StreamInv'
<1> DEFINE c == sockfd[u]
           q == toGui[c]
<1>1. EndsInv /\ DaemonTypeOK /\ toGui \in [Conns -> Seq(GuiMessages)]
  BY DEF PInv, TInv, TalkerInv, StreamsTyped, DaemonInv
<1>2. daemon[u] # "down" /\ daemon'[u] # "down" /\ sockfd' = sockfd
  BY DEF Runs
<1>3. /\ c \in Conns /\ q \in Seq(GuiMessages)
      /\ \A v \in Users : sockfd[v] \in Conns
      /\ \A v \in Users : v # u /\ daemon[v] # "down" => sockfd[v] # c
  BY <1>1, <1>2 DEF EndsInv, DaemonsConnected, DaemonTypeOK
<1>4. ASSUME NEW v \in Users, v # u
      PROVE  (daemon[v] # "down" => BoundaryKept(v))'
  BY <1>2, <1>3, <1>4, OthersKeepStreams DEF Runs, StreamInv
<1>5. /\ WellOrdered(q)
      /\ q # <<>> /\ Head(q) = Dismissal => HasInHand(u)
      /\ Torn(q) => daemon[u] \in {"sending", "acking"} \/ AckSized \cup DismissSized # {}
  BY <1>2 DEF StreamInv, BoundaryKept
<1> SUFFICES BoundaryKept(u)'
  BY <1>4 DEF StreamInv
<1>6. ASSUME NEW t, toGui'[c] = t, WellOrdered(t),
             t # <<>> /\ Head(t) = Dismissal =>
               \/ daemon'[u] \in {"popup", "sending", "acking"}
               \/ daemon'[u] = "closing" /\ type'[u] # "None",
             Torn(t) => daemon'[u] \in {"sending", "acking"} \/ AckSized \cup DismissSized # {}
      PROVE  BoundaryKept(u)'
  BY <1>2, <1>6 DEF BoundaryKept, WellOrdered, HasInHand, Torn, Rest, Dismissal
<1>7. CASE /\ toGui'[c] = q
           /\ \/ daemon'[u] = "sending"
              \/ daemon[u] \in {"popup", "closing"} /\ daemon'[u] = "closing" /\ type'[u] # "None"
              \/ daemon[u] = "closing" /\ type[u] = "None"
              \/ daemon[u] = "sending" /\ daemon'[u] = "acking"
  <2>1. q # <<>> /\ Head(q) = Dismissal =>
          \/ daemon'[u] \in {"popup", "sending", "acking"}
          \/ daemon'[u] = "closing" /\ type'[u] # "None"
    BY <1>5, <1>7 DEF HasInHand
  <2>2. Torn(q) => daemon'[u] \in {"sending", "acking"} \/ AckSized \cup DismissSized # {}
    BY <1>5, <1>7
  <2>3. QED
    BY <1>5, <1>6, <1>7, <2>1, <2>2
<1>8. CASE /\ q # <<>> /\ toGui'[c] = AfterByte(q)
           /\ \/ daemon'[u] = "sending"
              \/ Head(q) \in {Ack, Dismissal}
              \/ AckSized \cup DismissSized # {}
  <2>1. Head(q) \in {Ack, Dismissal} => Head(q).kind \notin {"request", "rest"}
    BY DEF Ack, Dismissal
  <2>2. /\ WellOrdered(AfterByte(q))
        /\ AfterByte(q) # <<>> => Head(AfterByte(q)) # Dismissal
        /\ Torn(AfterByte(q)) => daemon'[u] = "sending" \/ AckSized \cup DismissSized # {}
    BY <1>3, <1>5, <1>8, <2>1, AfterByteOrder
  <2>3. QED
    BY <1>6, <1>8, <2>2
<1>9. CASE q # <<>> /\ toGui'[c] = Tail(q) /\ daemon'[u] = "popup"
  <2>1. WellOrdered(Tail(q)) /\ ~Torn(Tail(q))
    BY <1>3, <1>5, <1>9, TailOrder
  <2>2. QED
    BY <1>6, <1>9, <2>1
<1>10. QED
  BY <1>7, <1>8, <1>9 DEF Runs, Takes, SendsAnswer

LEMMA LeavesKeepsStreams ==
  ASSUME IInv, TInv, PInv, StreamInv, NEW u \in Users, Leaves(u)
  PROVE  StreamInv'
<1>1. /\ EndsInv /\ StreamsTyped /\ DaemonTypeOK /\ SocketsTyped
  BY DEF PInv, TInv, TalkerInv, DaemonInv, IInv, MapsInv
<1>2. /\ \A v \in Users : v # u /\ daemon[v] # "down" => sockfd[v] # sockfd[u]
      /\ \A v \in Users : sockfd[v] \in Conns
  BY <1>1 DEF Leaves, EndsInv, DaemonsConnected, DaemonTypeOK
<1>3. /\ daemon'[u] = "down"
      /\ \A v \in Users : v # u => /\ daemon'[v] = daemon[v] /\ sockfd'[v] = sockfd[v]
                                   /\ type'[v] = type[v]
      /\ \A d \in Conns : d # sockfd[u] => toGui'[d] = toGui[d]
  BY <1>1, LeavesEffect
<1>4. ASSUME NEW v \in Users, v # u
      PROVE  (daemon[v] # "down" => BoundaryKept(v))'
  BY <1>2, <1>3, <1>4, OthersKeepStreams DEF StreamInv
<1>5. QED
  BY <1>3, <1>4 DEF StreamInv

LEMMA ConnectKeepsStreams ==
  ASSUME IInv, TInv, PInv, StreamInv, NEW u \in Users, Connect(u)
  PROVE  StreamInv'
<1>1. EndsInv /\ DaemonTypeOK /\ SocketsTyped
  BY DEF PInv, TInv, DaemonInv, IInv, MapsInv
<1>2. PICK c \in Conns :
           /\ ends[c] = {} /\ ends'[c] = {"agent", "gui"} /\ owner'[c] = u
           /\ \A d \in Conns : d # c => ends'[d] = ends[d] /\ owner'[d] = owner[d]
           /\ daemon[u] = "down" /\ daemon'[u] = "waiting" /\ sockfd'[u] = c
           /\ \A v \in Users : v # u => daemon'[v] = daemon[v] /\ sockfd'[v] = sockfd[v]
           /\ UNCHANGED <<toGui, toAgent, request, type, clicks, levels>>
  BY <1>1, ConnectEffect
<1>3. toGui[c] = <<>> /\ toGui' = toGui /\ type' = type
  BY <1>1, <1>2 DEF EndsInv, ClosedIsDropped
<1>4. ASSUME NEW v \in Users, v # u
      PROVE  (daemon[v] # "down" => BoundaryKept(v))'
  BY <1>2, <1>3, <1>4, OthersKeepStreams DEF StreamInv
<1>5. BoundaryKept(u)'
  <2>1. Len(<<>>) = 0
    OBVIOUS
  <2>2. toGui'[sockfd'[u]] = <<>>
    BY <1>2, <1>3
  <2>3. QED
    BY <2>1, <2>2 DEF BoundaryKept, WellOrdered, Torn
<1>6. QED
  BY <1>4, <1>5 DEF StreamInv

LEMMA StepStreams ==
  ASSUME IInv, TInv, PInv, AckInv, StreamInv, [Next]_vars
  PROVE  StreamInv'
<1>1. CASE UNCHANGED <<socketVars, daemonVars>>
  <2>1. toGui' = toGui /\ daemon' = daemon /\ sockfd' = sockfd /\ type' = type
    BY <1>1 DEF socketVars, daemonVars
  <2>2. ASSUME NEW v \in Users PROVE (daemon[v] # "down" => BoundaryKept(v))'
    BY <2>1, OthersKeepStreams DEF StreamInv
  <2>3. QED
    BY <2>2 DEF StreamInv
<1>2. CASE AgentActs /\ UNCHANGED daemonVars
  BY <1>2, ActsAreAgentSteps, AgentStepKeepsStreams
<1>3. CASE \E u \in Users : Connect(u) /\ UNCHANGED talkerVars
  BY <1>3, ConnectKeepsStreams
<1>4. CASE \E u \in Users : DaemonStep(u) /\ UNCHANGED talkerVars
  BY <1>1, <1>4, DaemonStepKinds, RunsKeepsStreams, LeavesKeepsStreams
<1>5. QED
  BY <1>1, <1>2, <1>3, <1>4 DEF Next, AgentActs, DaemonStep, vars

LEMMA StreamsInvariance == Spec => []StreamInv
<1>1. Init => StreamInv
  BY DEF Init, DaemonInit, StreamInv
<1>2. IInv /\ TInv /\ PInv /\ AckInv /\ StreamInv /\ [Next]_vars => StreamInv'
  BY StepStreams
<1>3. QED
  BY <1>1, <1>2, AnswersInvariance, AcksInvariance, PTL DEF Spec

\* However answers, dismissals, acknowledgements and requests cross, the daemon's
\* run loop starts to read at the size of a request: shouldDismiss and the read of
\* the acknowledgement take every byte that is theirs, and no other unless the size
\* of a request looks like one.
THEOREM RequestsKeepTheirBoundary == Spec => []AtRequestBoundary
<1>1. ASSUME TInv, AckInv, StreamInv PROVE AtRequestBoundary
  <2> SUFFICES ASSUME NEW u \in Users, daemon[u] = "waiting", toGui[sockfd[u]] # <<>>,
                      Head(toGui[sockfd[u]]).kind # "request"
               PROVE  /\ Head(toGui[sockfd[u]]) = Rest
                      /\ AckSized \cup DismissSized # {}
    BY DEF AtRequestBoundary, HasMessage, Incoming
  <2> DEFINE q == toGui[sockfd[u]]
  <2>1. q \in Seq(GuiMessages)
    BY <1>1 DEF TInv, TalkerInv, StreamsTyped, DaemonInv, DaemonTypeOK
  <2>2. BoundaryKept(u) /\ InOrder(u)
    BY <1>1 DEF StreamInv, AckInv
  <2>3. Head(q) \in GuiMessages /\ Head(q) = q[1] /\ 1 \in DOMAIN q
    BY <2>1
  <2>4. Head(q) \in {Ack, Dismissal, Rest}
    BY <2>3 DEF GuiMessages, Ack, Dismissal, Rest
  <2>5. Head(q) # Dismissal
    BY <2>2 DEF BoundaryKept, HasInHand
  <2>6. CASE Torn(q)
    BY <2>2, <2>6 DEF BoundaryKept, Torn
  <2>7. CASE ~Torn(q)
    <3>1. Head(q) # Ack
      BY <2>2, <2>3, <2>7 DEF InOrder, AckFollows, AcksIn
    <3>2. QED
      BY <2>4, <2>5, <2>7, <3>1 DEF Torn
  <2>8. QED
    BY <2>6, <2>7
<1>2. QED
  BY <1>1, AnswersInvariance, AcksInvariance, StreamsInvariance, PTL

-----------------------------------------------------------------------------
(* What the popups show.                                                   *)

LastOf(q) == q[Len(q)]

\* The daemon is going to end: it waits for an acknowledgement that will not come.
Unacknowledged(c) ==
  daemon[owner[c]] = "acking" /\ toAgent[c] = <<>> /\ AcksIn(toGui[c]) = {}

\* A request that was sent last and is not taken back is the one at the front.
IsCurrent(c) ==
  \/ Torn(toGui[c]) \/ Unacknowledged(c)
  \/ /\ toGui[c] # <<>> /\ LastOf(toGui[c]).kind = "request" =>
          Busy(c) /\ IsFront(LastOf(toGui[c]).id, owner[c])
     /\ toGui[c] = <<>> /\ daemon[owner[c]] = "popup" =>
          Busy(c) /\ IsFront(request[owner[c]], owner[c])

\* Nothing was sent on a connection that is not accepted yet.
BacklogUnused ==
  \A c \in Range(backlog) :
    toGui[c] = <<>> /\ ("gui" \in ends[c] => daemon[owner[c]] # "popup")

CurrentInv ==
  /\ BacklogUnused
  /\ loop \notin Over =>
       \A c \in DOMAIN m_fdStatus : "gui" \in ends[c] => IsCurrent(c)

\* What a step of the agent that does not end the loop may do to one connection:
\* accept it, leave it and the front of a queue that it waits for, send something,
\* or take an answer.
FrontOn(c) ==
  c \in DOMAIN m_fdStatus' /\ "gui" \in ends[c] =>
    \/ c \in Range(backlog) /\ toGui'[c] = toGui[c]
    \/ /\ c \in DOMAIN m_fdStatus /\ toGui'[c] = toGui[c] /\ toAgent'[c] = toAgent[c]
       /\ m_fdStatus'[c] = m_fdStatus[c]
       /\ \A id : Busy(c) /\ IsFront(id, owner[c]) => IsFront(id, owner[c])'
    \/ /\ c \in DOMAIN m_fdStatus /\ toAgent'[c] = toAgent[c]
       /\ \/ toGui'[c] = Append(toGui[c], Dismissal)
          \/ \E id \in Ids : /\ toGui'[c] = Append(toGui[c], Request(id))
                             /\ Busy(c)' /\ IsFront(id, owner[c])'
    \/ /\ c \in DOMAIN m_fdStatus /\ toAgent[c] # <<>> /\ toAgent'[c] = Tail(toAgent[c])
       /\ toGui'[c] \in {toGui[c], Append(toGui[c], Ack)}

FrontStep ==
  /\ loop' \notin Over => loop \notin Over /\ \A c \in Conns : FrontOn(c)
  /\ \A c \in Range(backlog') : c \in Range(backlog) /\ toGui'[c] = toGui[c]

LEMMA KeptFront ==
  ASSUME NEW c \in DOMAIN m_fdStatus, owner' = owner,
         toGui'[c] = toGui[c], toAgent'[c] = toAgent[c],
         m_fdStatus'[c] = m_fdStatus[c],
         QueueOf(owner[c])' = QueueOf(owner[c])
  PROVE  FrontOn(c)
BY DEF FrontOn, IsFront

\* The queues when the loop goes on.
LEMMA QueuesAfter ==
  ASSUME NEW cs, NEW requests, ThenRecv(cs, requests), NEW u
  PROVE  QueueOf(u)' = IF u \in DOMAIN requests THEN requests[u] ELSE <<>>
<1>1. CASE cs # {}
  BY <1>1 DEF ThenRecv, QueueOf
<1>2. CASE cs = {}
  BY <1>2 DEF ThenRecv, QueueOf
<1>3. QED
  BY <1>1, <1>2

LEMMA SameQueuesAfter ==
  ASSUME NEW cs, ThenRecv(cs, m_requests), NEW u
  PROVE  QueueOf(u)' = QueueOf(u)
BY QueuesAfter DEF QueueOf

\* Erasing an id that is not at the front.
LEMMA ErasedFront ==
  ASSUME NEW S, NEW queue \in Seq(S), NEW id \in Range(queue), queue # <<>>, Head(queue) # id
  PROVE  Erased(queue, id) # <<>> /\ Head(Erased(queue, id)) = Head(queue)
<1> DEFINE it == CHOOSE n \in DOMAIN queue : queue[n] = id
<1>1. DOMAIN queue = 1 .. Len(queue) /\ Len(queue) \in Nat /\ Head(queue) = queue[1]
  OBVIOUS
<1>2. it \in 1 .. Len(queue) /\ queue[it] = id
  BY <1>1 DEF Range
<1>3. it > 1 /\ Len(queue) - 1 >= 1 /\ Len(queue) - 1 \in Nat
  BY <1>1, <1>2
<1> DEFINE t == [n \in 1 .. Len(queue) - 1 |-> IF n < it THEN queue[n] ELSE queue[n + 1]]
<1>4. Erased(queue, id) = t
  BY DEF Erased
<1> HIDE DEF it
<1>5. DOMAIN t = 1 .. Len(queue) - 1 /\ t[1] = queue[1]
  BY <1>3
<1>6. t # <<>> /\ Head(t) = t[1]
  BY <1>3, <1>5
<1>7. QED
  BY <1>1, <1>4, <1>5, <1>6

\* The agent's maps name the user and the connection of a descriptor.
LEMMA UserOfDescriptor ==
  ASSUME IInv, EndsInv, NEW c \in DOMAIN m_fdStatus
  PROVE  /\ c \in Conns /\ c \in DOMAIN m_fdToUser /\ m_fdToUser[c] = owner[c]
         /\ owner[c] \in DOMAIN m_userToFd /\ m_userToFd[owner[c]] = c
BY DEF IInv, MapsInv, MapsTyped, ConnectionMaps, EndsInv, OwnersKnown

\* Nothing is sent on a connection that waits to be accepted.
LEMMA BacklogIsNotServed ==
  ASSUME IInv, NEW c \in Range(backlog)
  PROVE  c \in Conns /\ c \notin DOMAIN m_fdToUser /\ c \notin DOMAIN m_fdStatus
BY DEF IInv, MapsInv, BacklogFresh, ConnectionMaps, Range

LEMMA RemoveRequestFront ==
  ASSUME IInv, EndsInv, TalkerInv, NEW id \in Ids, removeRequest(id)
  PROVE  FrontStep
<1> DEFINE dismissed == {d \in ToDismiss(id) : "gui" \in ends[d]}
           broken == ToDismiss(id) \ dismissed
<1>1. /\ toGui' = [d \in Conns |-> IF d \in dismissed THEN Append(toGui[d], Dismissal)
                                                      ELSE toGui[d]]
      /\ m_requests' = [v \in DOMAIN m_requests |->
                          IF v \in Reached(id) THEN Erased(m_requests[v], id)
                                               ELSE m_requests[v]]
      /\ m_fdStatus' = [d \in DOMAIN m_fdStatus \ broken |-> m_fdStatus[d] \/ d \in dismissed]
      /\ AgentCloses(broken)
      /\ UNCHANGED <<owner, backlog>>
      /\ loop = "idle"
  BY DEF removeRequest
<1>2. dismissed \subseteq DOMAIN m_fdToUser
  BY DEF ToDismiss, IInv, MapsInv, ConnectionMaps
<1>3. \A c \in Range(backlog') : c \in Range(backlog) /\ toGui'[c] = toGui[c]
  BY <1>1, <1>2, BacklogIsNotServed
<1> SUFFICES ASSUME NEW c \in Conns, c \in DOMAIN m_fdStatus', "gui" \in ends[c]
             PROVE  FrontOn(c)
  BY <1>1, <1>3 DEF FrontStep, FrontOn, Over
<1> DEFINE u == owner[c]
<1>4. /\ c \in DOMAIN m_fdStatus /\ c \notin broken
      /\ m_fdStatus'[c] = (m_fdStatus[c] \/ c \in dismissed)
  BY <1>1
<1>5. toAgent'[c] = toAgent[c]
  BY <1>1, <1>4 DEF AgentCloses, TalkerInv, StreamsTyped
<1>6. u \in DOMAIN m_userToFd /\ m_userToFd[u] = c /\ m_fdStatus[c] \in BOOLEAN
  BY <1>4, UserOfDescriptor DEF TalkerInv, TalkerTyped
<1>7. CASE c \in dismissed
  BY <1>1, <1>4, <1>5, <1>7 DEF FrontOn
<1>8. CASE c \notin dismissed
  <2>1. toGui'[c] = toGui[c] /\ m_fdStatus'[c] = m_fdStatus[c] /\ c \notin ToDismiss(id)
    BY <1>1, <1>4, <1>6, <1>8
  <2>2. ASSUME NEW x, Busy(c), IsFront(x, u) PROVE IsFront(x, u)'
    <3>1. u \in DOMAIN m_requests /\ m_requests[u] # <<>> /\ Head(m_requests[u]) = x
      BY <2>2 DEF IsFront, QueueOf
    <3>2. u \in DOMAIN m_requests' /\ u' = u
      BY <1>1, <3>1
    <3>3. CASE u \notin Reached(id)
      BY <1>1, <3>1, <3>2, <3>3 DEF IsFront, QueueOf
    <3>4. CASE u \in Reached(id)
      <4>1. Head(m_requests[u]) # id
        BY <1>6, <2>1, <2>2, <3>4 DEF ToDismiss, Busy
      <4>2. id \in Range(m_requests[u])
        <5>1. u \in Nat
          BY <3>1, UsersAssumption DEF TalkerInv, AreQueues
        <5>2. u <= u
          BY <5>1
        <5>3. QED
          BY <3>1, <3>4, <5>2 DEF Reached, IsQueued
      <4>3. m_requests[u] \in Seq(Ids)
        BY <3>1 DEF TalkerInv, AreQueues
      <4>4. Erased(m_requests[u], id) # <<>> /\ Head(Erased(m_requests[u], id)) = x
        BY <3>1, <4>1, <4>2, <4>3, ErasedFront
      <4>5. m_requests'[u] = Erased(m_requests[u], id)
        BY <1>1, <3>1, <3>4
      <4>6. QED
        BY <3>2, <4>4, <4>5 DEF IsFront, QueueOf
    <3>5. QED
      BY <3>3, <3>4
  <2>3. QED
    BY <1>1, <1>4, <1>5, <2>1, <2>2 DEF FrontOn
<1>9. QED
  BY <1>7, <1>8

LEMMA NewConnectionFront ==
  ASSUME IInv, EndsInv, TalkerInv, newConnection
  PROVE  FrontStep
<1> DEFINE new == Head(backlog)
           u == owner[new]
           old == {m_userToFd[v] : v \in {u} \cap DOMAIN m_userToFd}
           cs == todo \cap DOMAIN m_fdToUser'
<1>1. /\ m_fdStatus' = With(Restrict(m_fdStatus, DOMAIN m_fdStatus \ old), new, TRUE)
      /\ AgentCloses(old)
      /\ UNCHANGED <<owner, toGui>>
      /\ backlog' = Tail(backlog) /\ ThenRecv(cs, m_requests)
      /\ loop = "accept"
  BY DEF newConnection
<1>2. /\ new \in Range(backlog)
      /\ Range(backlog') \subseteq Range(backlog)
  <2>1. backlog # <<>> /\ backlog \in Seq(Conns) /\ IsInjective(backlog)
    BY <1>1 DEF IInv, LoopServes, MapsInv, BacklogFresh
  <2>2. QED
    BY <1>1, <2>1, HeadAndTail
<1> HIDE DEF new, u, old, cs
<1>3. /\ DOMAIN m_fdStatus' = (DOMAIN m_fdStatus \ old) \cup {new}
      /\ \A d \in DOMAIN m_fdStatus \ old : d # new => m_fdStatus'[d] = m_fdStatus[d]
  BY <1>1 DEF With, Restrict
<1>4. ASSUME NEW c \in Conns PROVE FrontOn(c)
  <2>1. CASE c = new
    BY <1>1, <1>2, <2>1 DEF FrontOn
  <2>2. CASE c \in DOMAIN m_fdStatus \ old /\ c # new
    <3>1. toAgent'[c] = toAgent[c]
      BY <1>1, <2>2 DEF AgentCloses, TalkerInv, StreamsTyped
    <3>2. QED
      BY <1>1, <1>3, <2>2, <3>1, KeptFront, SameQueuesAfter
  <2>3. CASE c \notin DOMAIN m_fdStatus'
    BY <2>3 DEF FrontOn
  <2>4. QED
    BY <1>3, <2>1, <2>2, <2>3
<1>5. QED
  BY <1>1, <1>2, <1>4 DEF FrontStep, Over

\* remove, of a connection the loop serves; the queues of the others stay.
LEMMA RemovedFront ==
  ASSUME IInv, EndsInv, TalkerInv, NEW d \in Conns, Removed({d}), loop \notin Over,
         UNCHANGED <<owner, toGui, backlog>>,
         \A c \in DOMAIN m_fdStatus : c # d => QueueOf(owner[c])' = QueueOf(owner[c])
  PROVE  FrontStep
<1>1. /\ DOMAIN m_fdStatus' = DOMAIN m_fdStatus \ {d}
      /\ \A c \in DOMAIN m_fdStatus' : m_fdStatus'[c] = m_fdStatus[c]
      /\ AgentCloses({d})
  BY DEF Removed, Restrict
<1>2. ASSUME NEW c \in Conns PROVE FrontOn(c)
  <2>1. CASE c \in DOMAIN m_fdStatus'
    <3>1. c # d /\ c \in DOMAIN m_fdStatus
      BY <1>1, <2>1
    <3>2. toAgent'[c] = toAgent[c]
      BY <1>1, <3>1 DEF AgentCloses, TalkerInv, StreamsTyped
    <3>3. QED
      BY <1>1, <2>1, <3>1, <3>2, KeptFront
  <2>2. CASE c \notin DOMAIN m_fdStatus'
    BY <2>2 DEF FrontOn
  <2>3. QED
    BY <2>1, <2>2
<1>3. QED
  BY <1>2 DEF FrontStep

\* Steps after which the loop is over.
LEMMA OverFront ==
  ASSUME loop' \in Over, backlog' = <<>> \/ (UNCHANGED <<toGui, backlog>>)
  PROVE  FrontStep
<1>1. Range(<<>>) = {}
  BY DEF Range
<1>2. QED
  BY <1>1 DEF FrontStep

LEMMA CrashFront == ASSUME Crash PROVE FrontStep
BY OverFront DEF Crash, AllClosed, Over

LEMMA FailsFront == ASSUME IInv, Fails PROVE FrontStep
<1>1. loop' \in Over
  BY DEF Fails, Over
<1>2. CASE UNCHANGED socketVars
  BY <1>1, <1>2, OverFront DEF socketVars
<1>3. CASE loop = "accept" /\ backlog' = Tail(backlog) /\ toGui' = toGui
  <2>1. backlog # <<>> /\ backlog \in Seq(Conns) /\ IsInjective(backlog)
    BY <1>3 DEF IInv, LoopServes, MapsInv, BacklogFresh
  <2>2. Range(backlog') \subseteq Range(backlog)
    BY <1>3, <2>1, HeadAndTail
  <2>3. QED
    BY <1>1, <1>3, <2>2 DEF FrontStep
<1>4. QED
  BY <1>2, <1>3 DEF Fails

LEMMA DisconnectedFront ==
  ASSUME IInv, EndsInv, TalkerInv, NEW d \in Conns, Disconnected(d)
  PROVE  FrontStep
<1>1. CASE Crash
  BY <1>1, CrashFront
<1>2. CASE ~Crash
  <2>1. /\ Removed({d}) /\ UNCHANGED <<owner, toGui, backlog>>
        /\ loop = "recv"
    BY <1>2 DEF Disconnected
  <2>2. PICK cs : ThenRecv(cs, m_requests)
    BY <1>2 DEF Disconnected
  <2>3. QED
    BY <2>1, <2>2, SameQueuesAfter, RemovedFront DEF Over
<1>3. QED
  BY <1>1, <1>2

LEMMA TakesStaleFront ==
  ASSUME IInv, EndsInv, TalkerInv, NEW d \in Conns, TakesStale(d)
  PROVE  FrontStep
<1> DEFINE requests == With(m_requests, m_fdToUser[d], QueueOf(m_fdToUser[d]))
<1>1. /\ loop = "recv" /\ d \in todo /\ toAgent[d] # <<>>
      /\ toAgent' = [toAgent EXCEPT ![d] = Tail(@)]
      /\ m_fdStatus' = [m_fdStatus EXCEPT ![d] = TRUE]
      /\ ThenRecv(todo \ {d}, requests)
      /\ UNCHANGED <<owner, toGui, backlog>>
  BY DEF TakesStale
<1>2. \A v : QueueOf(v) = IF v \in DOMAIN requests THEN requests[v] ELSE <<>>
  BY DEF With, QueueOf
<1> HIDE DEF requests
<1>3. \A v : QueueOf(v)' = QueueOf(v)
  BY <1>1, <1>2, QueuesAfter
<1>4. /\ toAgent'[d] = Tail(toAgent[d])
      /\ \A c \in Conns : c # d => toAgent'[c] = toAgent[c]
      /\ DOMAIN m_fdStatus' = DOMAIN m_fdStatus
      /\ \A c \in DOMAIN m_fdStatus : c # d => m_fdStatus'[c] = m_fdStatus[c]
  BY <1>1 DEF TalkerInv, StreamsTyped
<1>5. ASSUME NEW c \in Conns PROVE FrontOn(c)
  <2>1. CASE c = d
    BY <1>1, <1>4, <2>1 DEF FrontOn
  <2>2. CASE c # d /\ c \in DOMAIN m_fdStatus
    BY <1>1, <1>3, <1>4, <2>2, KeptFront
  <2>3. CASE c \notin DOMAIN m_fdStatus
    BY <1>4, <2>3 DEF FrontOn
  <2>4. QED
    BY <2>1, <2>2, <2>3
<1>6. QED
  BY <1>1, <1>5 DEF FrontStep, Over

LEMMA TakesAnswerFront ==
  ASSUME IInv, EndsInv, TalkerInv, NEW d \in Conns, TakesAnswer(d)
  PROVE  FrontStep
<1> DEFINE rest == [m_requests EXCEPT ![m_fdToUser[d]] = Tail(@)]
<1>1. loop = "recv" /\ d \in todo /\ toAgent[d] # <<>>
  BY DEF TakesAnswer
<1>2. d \in DOMAIN m_fdStatus
  BY <1>1 DEF IInv, LoopServes, MapsInv, ConnectionMaps
<1>3. \A v : v # m_fdToUser[d] =>
        QueueOf(v) = IF v \in DOMAIN rest THEN rest[v] ELSE <<>>
  BY DEF QueueOf
<1> HIDE DEF rest
<1>4. ASSUME NEW cs, ThenRecv(cs, rest), NEW c \in DOMAIN m_fdStatus, c # d
      PROVE  QueueOf(owner[c])' = QueueOf(owner'[c])
  <2>1. owner[c] # m_fdToUser[d]
    BY <1>2, <1>4, UserOfDescriptor
  <2>2. owner' = owner
    BY DEF TakesAnswer, Crash, AllClosed
  <2>3. QED
    BY <1>3, <1>4, <2>1, <2>2, QueuesAfter
<1>5. CASE Crash
  BY <1>5, CrashFront
<1>6. CASE "gui" \in ends[d]
  <2>1. /\ toGui' = [toGui EXCEPT ![d] = Append(@, Ack)]
        /\ toAgent' = [toAgent EXCEPT ![d] = Tail(@)]
        /\ m_fdStatus' = [m_fdStatus EXCEPT ![d] = TRUE]
        /\ UNCHANGED <<owner, backlog>>
        /\ ThenRecv(todo \ {d}, rest)
    BY <1>6 DEF TakesAnswer, rest
  <2>2. /\ toAgent'[d] = Tail(toAgent[d]) /\ toGui'[d] = Append(toGui[d], Ack)
        /\ \A c \in Conns : c # d => toAgent'[c] = toAgent[c] /\ toGui'[c] = toGui[c]
        /\ DOMAIN m_fdStatus' = DOMAIN m_fdStatus
        /\ \A c \in DOMAIN m_fdStatus : c # d => m_fdStatus'[c] = m_fdStatus[c]
    BY <2>1 DEF TalkerInv, StreamsTyped
  <2>3. ASSUME NEW c \in Conns PROVE FrontOn(c)
    <3>1. CASE c = d
      BY <1>1, <1>2, <2>2, <3>1 DEF FrontOn
    <3>2. CASE c # d /\ c \in DOMAIN m_fdStatus
      <4>1. QueueOf(owner[c])' = QueueOf(owner[c])
        BY <1>4, <2>1, <3>2
      <4>2. QED
        BY <2>1, <2>2, <3>2, <4>1, KeptFront
    <3>3. CASE c \notin DOMAIN m_fdStatus
      BY <2>2, <3>3 DEF FrontOn
    <3>4. QED
      BY <3>1, <3>2, <3>3
  <2>4. \A c \in Range(backlog') : c \in Range(backlog) /\ toGui'[c] = toGui[c]
    BY <1>2, <2>1, <2>2, BacklogIsNotServed
  <2>5. QED
    BY <1>1, <2>3, <2>4 DEF FrontStep, Over
<1>7. CASE "gui" \notin ends[d] /\ ~Crash
  <2>1. Removed({d}) /\ UNCHANGED <<owner, toGui, backlog>>
    BY <1>7 DEF TakesAnswer
  <2>2. PICK cs : ThenRecv(cs, rest)
    BY <1>7 DEF TakesAnswer, rest
  <2>3. ASSUME NEW c \in DOMAIN m_fdStatus, c # d
        PROVE  QueueOf(owner[c])' = QueueOf(owner[c])
    BY <1>4, <2>1, <2>2, <2>3
  <2>4. QED
    BY <1>1, <2>1, <2>3, RemovedFront DEF Over
<1>8. QED
  BY <1>5, <1>6, <1>7

LEMMA SendRequestFront ==
  ASSUME IInv, EndsInv, TalkerInv, NEW d \in Conns, sendRequest(d)
  PROVE  FrontStep
<1>0. PICK next : next = Head(m_requests[m_fdToUser[d]])
  OBVIOUS
<1>1. loop = "send" /\ d \in todo
  BY DEF sendRequest
<1>2. /\ next \in Ids /\ d \in DOMAIN m_fdStatus
      /\ m_fdToUser[d] \in DOMAIN m_requests /\ m_requests[m_fdToUser[d]] # <<>>
  BY <1>0, <1>1 DEF TalkerInv, SendsReady, AreQueues, IInv, LoopServes, MapsInv, ConnectionMaps
<1>3. IsFront(next, owner[d])
  BY <1>0, <1>2, UserOfDescriptor DEF IsFront, QueueOf
<1>4. CASE Crash
  BY <1>4, CrashFront
<1>5. CASE "gui" \in ends[d]
  <2>1. /\ toGui' = [toGui EXCEPT ![d] = Append(@, Request(next))]
        /\ m_fdStatus' = [m_fdStatus EXCEPT ![d] = FALSE]
        /\ UNCHANGED <<owner, toAgent, backlog, m_requests>>
    BY <1>0, <1>5 DEF sendRequest
  <2>2. QueueOf(owner[d])' = QueueOf(owner[d]) /\ owner' = owner
        /\ \A v : QueueOf(v)' = QueueOf(v)
    BY <2>1 DEF QueueOf
  <2>3. /\ toGui'[d] = Append(toGui[d], Request(next))
        /\ \A c \in Conns : c # d => toGui'[c] = toGui[c]
        /\ DOMAIN m_fdStatus' = DOMAIN m_fdStatus
        /\ \A c \in DOMAIN m_fdStatus : c # d => m_fdStatus'[c] = m_fdStatus[c]
        /\ Busy(d)'
    BY <1>2, <2>1 DEF TalkerInv, StreamsTyped, Busy
  <2>4. IsFront(next, owner[d])'
    BY <1>3, <2>2 DEF IsFront
  <2>5. ASSUME NEW c \in Conns PROVE FrontOn(c)
    <3>1. CASE c = d
      BY <1>2, <2>1, <2>3, <2>4, <3>1 DEF FrontOn
    <3>2. CASE c # d /\ c \in DOMAIN m_fdStatus
      BY <2>1, <2>2, <2>3, <3>2, KeptFront
    <3>3. CASE c \notin DOMAIN m_fdStatus
      BY <2>3, <3>3 DEF FrontOn
    <3>4. QED
      BY <3>1, <3>2, <3>3
  <2>6. \A c \in Range(backlog') : c \in Range(backlog) /\ toGui'[c] = toGui[c]
    BY <1>2, <2>1, <2>3, BacklogIsNotServed
  <2>7. QED
    BY <1>1, <2>5, <2>6 DEF FrontStep, Over
<1>6. CASE "gui" \notin ends[d] /\ ~Crash
  <2>1. Removed({d}) /\ UNCHANGED <<owner, toGui, backlog, m_requests>>
    BY <1>6 DEF sendRequest
  <2>2. \A v : QueueOf(v)' = QueueOf(v)
    BY <2>1 DEF QueueOf
  <2>3. QED
    BY <1>1, <2>1, <2>2, RemovedFront DEF Over
<1>7. QED
  BY <1>4, <1>5, <1>6

\* addRequest puts a request behind the others.
LEMMA AddRequestFront ==
  ASSUME IInv, EndsInv, TalkerInv, NEW u \in Users, NEW id \in Ids, addRequest(u, id)
  PROVE  FrontStep
<1> DEFINE queue == IF IsQueued(id, u) THEN m_requests[u] ELSE Append(QueueOf(u), id)
<1>1. /\ loop = "idle" /\ m_requests' = With(m_requests, u, queue)
      /\ UNCHANGED <<owner, toGui, toAgent, backlog, m_fdStatus>>
  BY DEF addRequest, socketVars, connectionVars
<1>2. ASSUME NEW x, NEW v, IsFront(x, v) PROVE IsFront(x, v)'
  <2>1. QueueOf(u) \in Seq(Ids)
    BY QueueOfType DEF TalkerInv
  <2>2. QueueOf(u) # <<>> => queue # <<>> /\ Head(queue) = Head(QueueOf(u))
    <3>1. CASE IsQueued(id, u)
      BY <3>1 DEF IsQueued, QueueOf
    <3>2. CASE ~IsQueued(id, u)
      BY <2>1, <3>2
    <3>3. QED
      BY <3>1, <3>2
  <2> HIDE DEF queue
  <2>3. QueueOf(u)' = queue /\ (v # u => QueueOf(v)' = QueueOf(v))
    BY <1>1 DEF With, QueueOf
  <2>4. QED
    BY <1>2, <2>2, <2>3 DEF IsFront
<1>3. ASSUME NEW c \in Conns PROVE FrontOn(c)
  BY <1>1, <1>2 DEF FrontOn
<1>4. QED
  BY <1>1, <1>3 DEF FrontStep, Over

LEMMA ActsAreFrontSteps ==
  ASSUME IInv, TInv, PInv, AgentActs
  PROVE  FrontStep
<1>1. EndsInv /\ TalkerInv
  BY DEF PInv, TInv
<1>2. CASE \E u \in Users, id \in Ids : addRequest(u, id)
  BY <1>1, <1>2, AddRequestFront
<1>3. CASE \E id \in Ids : removeRequest(id)
  BY <1>1, <1>3, RemoveRequestFront
<1>4. CASE stop
  <2>1. UNCHANGED <<owner, toGui, toAgent, backlog, m_fdStatus, m_requests, loop>>
    BY <1>4 DEF stop, socketVars, connectionVars
  <2>2. \A v : QueueOf(v)' = QueueOf(v)
    BY <2>1 DEF QueueOf
  <2>3. ASSUME NEW c \in Conns PROVE FrontOn(c)
    BY <2>1, <2>2 DEF FrontOn, IsFront
  <2>4. QED
    BY <2>1, <2>3 DEF FrontStep
<1>5. CASE Select
  <2>1. UNCHANGED <<owner, toGui, toAgent, backlog, m_fdStatus>> /\ loop = "idle"
    BY <1>5 DEF Select, socketVars, connectionVars
  <2>2. ASSUME NEW v PROVE QueueOf(v)' = QueueOf(v)
    <3>1. CASE m_requests' = m_requests
      BY <3>1 DEF QueueOf
    <3>2. CASE \E cs : ThenRecv(cs, m_requests)
      BY <3>2, SameQueuesAfter
    <3>3. QED
      BY <1>5, <3>1, <3>2 DEF Select
  <2>3. ASSUME NEW c \in Conns PROVE FrontOn(c)
    BY <2>1, <2>2 DEF FrontOn, IsFront
  <2>4. QED
    BY <2>1, <2>3 DEF FrontStep, Over
<1>6. CASE Stopped
  BY <1>6, OverFront DEF Stopped, AllClosed, Over
<1>7. CASE newConnection
  BY <1>1, <1>7, NewConnectionFront
<1>8. CASE Fails
  BY <1>8, FailsFront
<1>9. CASE \E d \in Conns : Disconnected(d) \/ TakesStale(d)
  BY <1>1, <1>9, DisconnectedFront, TakesStaleFront
<1>10. CASE \E d \in Conns : TakesAnswer(d) \/ sendRequest(d)
  BY <1>1, <1>10, TakesAnswerFront, SendRequestFront
<1>11. QED
  BY <1>2, <1>3, <1>4, <1>5, <1>6, <1>7, <1>8, <1>9, <1>10 DEF AgentActs

LEMMA AppendedEnd ==
  ASSUME NEW q \in Seq(GuiMessages), NEW x
  PROVE  /\ Append(q, x) # <<>> /\ LastOf(Append(q, x)) = x
         /\ Torn(q) => Torn(Append(q, x))
<1>1. Append(q, x) # <<>> /\ LastOf(Append(q, x)) = x
  BY AppendedLast DEF LastOf
<1>2. q # <<>> => Head(Append(q, x)) = Head(q)
  OBVIOUS
<1>3. QED
  BY <1>1, <1>2 DEF Torn

LEMMA AgentStepKeepsCurrent ==
  ASSUME IInv, IInv', TInv, PInv, AckInv, CurrentInv, AgentStep, FrontStep
  PROVE  CurrentInv'
<1>1. /\ EndsInv /\ DaemonTypeOK /\ toGui \in [Conns -> Seq(GuiMessages)]
      /\ owner \in [Conns -> Users]
  BY DEF PInv, TInv, TalkerInv, StreamsTyped, DaemonInv, IInv, MapsInv, SocketsTyped
<1>2. /\ owner' = owner /\ daemon' = daemon /\ sockfd' = sockfd /\ request' = request
      /\ \A c \in Conns : "gui" \in ends'[c] <=> "gui" \in ends[c]
  BY DEF AgentStep, daemonVars, OnConnection
<1>3. BacklogUnused'
  <2>1. \A c \in Range(backlog') : /\ c \in Range(backlog) /\ toGui'[c] = toGui[c]
                                   /\ c \in Conns
    BY BacklogIsNotServed DEF FrontStep
  <2>2. QED
    BY <1>2, <2>1 DEF CurrentInv, BacklogUnused
<1>4. ASSUME loop' \notin Over, NEW c \in DOMAIN m_fdStatus', "gui" \in ends'[c], c \in Conns
      PROVE  IsCurrent(c)'
  <2> DEFINE u == owner[c]
             q == toGui[c]
  <2>1. FrontOn(c) /\ loop \notin Over /\ "gui" \in ends[c] /\ q \in Seq(GuiMessages)
    BY <1>1, <1>2, <1>4 DEF FrontStep
  <2>2. c \in DOMAIN m_fdStatus => IsCurrent(c)
    BY <2>1 DEF CurrentInv
  <2>3. CASE c \in Range(backlog) /\ toGui'[c] = q
    <3>1. q = <<>> /\ daemon'[owner'[c]] # "popup"
      BY <1>2, <2>1, <2>3 DEF CurrentInv, BacklogUnused
    <3>2. QED
      BY <2>3, <3>1 DEF IsCurrent
  <2>4. CASE /\ c \in DOMAIN m_fdStatus /\ toGui'[c] = q /\ toAgent'[c] = toAgent[c]
             /\ m_fdStatus'[c] = m_fdStatus[c]
             /\ \A id : Busy(c) /\ IsFront(id, owner[c]) => IsFront(id, owner[c])'
    <3>1. Busy(c)' <=> Busy(c)
      BY <1>4, <2>4 DEF Busy
    <3>2. Torn(q) \/ Unacknowledged(c) => IsCurrent(c)'
      BY <1>2, <2>4 DEF IsCurrent, Torn, Rest, Unacknowledged, AcksIn, Ack
    <3>3. CASE ~Torn(q) /\ ~Unacknowledged(c)
      <4>1. /\ q # <<>> /\ LastOf(q).kind = "request" => Busy(c) /\ IsFront(LastOf(q).id, u)
            /\ q = <<>> /\ daemon[u] = "popup" => Busy(c) /\ IsFront(request[u], u)
        BY <2>2, <2>4, <3>3 DEF IsCurrent
      <4>2. /\ q # <<>> /\ LastOf(q).kind = "request" =>
                 Busy(c)' /\ IsFront(LastOf(toGui[c]).id, owner[c])'
            /\ q = <<>> /\ daemon[u] = "popup" =>
                 Busy(c)' /\ IsFront(request[owner[c]], owner[c])'
        BY <1>2, <2>4, <3>1, <4>1 DEF IsFront, LastOf
      <4>3. LastOf(toGui[c])' = LastOf(q)
        BY <2>4 DEF LastOf
      <4>4. QED
        BY <1>2, <2>4, <4>2, <4>3 DEF IsCurrent
    <3>4. QED
      BY <3>2, <3>3
  <2>5. ASSUME NEW x, toGui'[c] = Append(q, x), x = Ack \/ x = Dismissal
        PROVE  IsCurrent(c)'
    <3>1. LastOf(toGui'[c]) = x /\ x.kind # "request" /\ toGui'[c] # <<>>
      BY <2>1, <2>5, AppendedEnd DEF Ack, Dismissal
    <3>2. LastOf(toGui[c])' = x
      BY <3>1 DEF LastOf
    <3>3. QED
      BY <3>1, <3>2 DEF IsCurrent
  <2>6. ASSUME NEW id \in Ids, toGui'[c] = Append(q, Request(id)),
               Busy(c)', IsFront(id, owner[c])'
        PROVE  IsCurrent(c)'
    <3>1. LastOf(toGui'[c]) = Request(id) /\ toGui'[c] # <<>> /\ Request(id).id = id
      BY <2>1, <2>6, AppendedEnd DEF Request
    <3>2. LastOf(toGui[c])' = Request(id)
      BY <3>1 DEF LastOf
    <3>3. IsFront(LastOf(toGui[c]).id, owner[c])'
      BY <2>6, <3>1, <3>2 DEF IsFront
    <3>4. QED
      BY <2>6, <3>1, <3>2, <3>3 DEF IsCurrent
  <2>7. CASE /\ c \in DOMAIN m_fdStatus /\ toGui'[c] = q
             /\ toAgent[c] # <<>> /\ toAgent'[c] = Tail(toAgent[c])
    <3>1. u \in Users /\ daemon[u] # "down" /\ sockfd[u] = c
      BY <1>1, <1>4, <2>1 DEF EndsInv, DaemonsConnected
    <3>2. Torn(q) \/ AckFollows(u)
      BY <3>1 DEF AckInv, InOrder
    <3>3. CASE Torn(q)
      BY <2>7, <3>3 DEF IsCurrent, Torn, Rest
    <3>4. CASE AckFollows(u)
      <4>1. /\ daemon[u] = "acking" /\ AcksIn(q) = {}
            /\ toAgent[c] = <<[id |-> request[u], type |-> type[u]]>>
        BY <2>7, <3>1, <3>4 DEF AckFollows
      <4>2. Tail(toAgent[c]) = <<>>
        BY <4>1
      <4>3. Unacknowledged(c)'
        BY <1>2, <2>7, <4>1, <4>2 DEF Unacknowledged, AcksIn, Ack
      <4>4. QED
        BY <4>3 DEF IsCurrent
    <3>5. QED
      BY <3>2, <3>3, <3>4
  <2>8. QED
    BY <1>4, <2>1, <2>3, <2>4, <2>5, <2>6, <2>7 DEF FrontOn
<1>5. DOMAIN m_fdStatus' \subseteq Conns
  BY DEF IInv, MapsInv, MapsTyped, ConnectionMaps
<1>6. QED
  BY <1>3, <1>4, <1>5 DEF CurrentInv

LEMMA NotEmpty ==
  ASSUME NEW S, NEW s \in Seq(S), Len(s) >= 1
  PROVE  s # <<>>
OBVIOUS

\* Reading a byte leaves what was sent last.
LEMMA ReadEnd ==
  ASSUME NEW q \in Seq(GuiMessages), q # <<>>
  PROVE  /\ AfterByte(q) # <<>> /\ LastOf(AfterByte(q)).kind = "request" =>
              LastOf(AfterByte(q)) = LastOf(q)
         /\ Tail(q) # <<>> => LastOf(Tail(q)) = LastOf(q)
         /\ Tail(q) = <<>> => LastOf(q) = Head(q)
<1>1. /\ Len(q) \in Nat /\ Len(q) >= 1 /\ Tail(q) \in Seq(GuiMessages)
      /\ Len(Tail(q)) = Len(q) - 1 /\ Head(q) = q[1]
      /\ \A i \in 1 .. Len(q) - 1 : Tail(q)[i] = q[i + 1]
  OBVIOUS
<1>2. Tail(q) # <<>> => LastOf(Tail(q)) = LastOf(q)
  BY <1>1 DEF LastOf
<1>3. Tail(q) = <<>> => LastOf(q) = Head(q)
  <2>1. CASE Len(q) = 1
    BY <1>1, <2>1 DEF LastOf
  <2>2. CASE Len(q) # 1
    <3>1. Len(Tail(q)) >= 1
      BY <1>1, <2>2
    <3>2. Tail(q) # <<>>
      BY <1>1, <3>1, NotEmpty
    <3>3. QED
      BY <3>2
  <2>3. QED
    BY <2>1, <2>2
<1>4. CASE Head(q).kind \in {"request", "rest"}
  <2> DEFINE t == <<Rest>> \o Tail(q)
  <2>1. /\ Len(t) = Len(q) /\ t[1] = Rest
        /\ \A i \in 2 .. Len(q) : t[i] = q[i]
    BY <1>1
  <2>2. AfterByte(q) = t
    BY <1>4 DEF AfterByte
  <2> HIDE DEF t
  <2>3. Len(q) = 1 => LastOf(t).kind = "rest"
    BY <2>1 DEF LastOf, Rest
  <2>4. Len(q) # 1 => LastOf(t) = LastOf(q)
    BY <1>1, <2>1 DEF LastOf
  <2>5. QED
    BY <1>2, <1>3, <2>2, <2>3, <2>4
<1>5. CASE Head(q).kind \notin {"request", "rest"}
  BY <1>2, <1>3, <1>5 DEF AfterByte
<1>6. QED
  BY <1>4, <1>5

\* A connection that a step does not concern.
LEMMA SameIsCurrent ==
  ASSUME NEW d, IsCurrent(d), owner'[d] = owner[d],
         UNCHANGED <<m_requests, m_fdStatus>>,
         toGui'[d] = toGui[d], toAgent'[d] = toAgent[d],
         daemon'[owner[d]] = daemon[owner[d]], request'[owner[d]] = request[owner[d]]
  PROVE  IsCurrent(d)'
<1>1. Torn(toGui[d]) \/ Unacknowledged(d) => IsCurrent(d)'
  BY DEF IsCurrent, Torn, Rest, Unacknowledged, AcksIn, Ack
<1>2. CASE ~Torn(toGui[d]) /\ ~Unacknowledged(d)
  <2>1. LastOf(toGui[d])' = LastOf(toGui[d])
    BY DEF LastOf
  <2>2. QED
    BY <1>2, <2>1 DEF IsCurrent, Busy, IsFront, QueueOf
<1>3. QED
  BY <1>1, <1>2

LEMMA RunsKeepsCurrent ==
  ASSUME IInv, TInv, PInv, AckInv, CurrentInv, NEW u \in Users, Runs(u),
         UNCHANGED <<talkerVars, backlog>>
  PROVE  CurrentInv'
<1> DEFINE c == sockfd[u]
           q == toGui[c]
<1>1. /\ EndsInv /\ DaemonTypeOK /\ toGui \in [Conns -> Seq(GuiMessages)]
      /\ owner \in [Conns -> Users]
  BY DEF PInv, TInv, TalkerInv, StreamsTyped, DaemonInv, IInv, MapsInv, SocketsTyped
<1>2. /\ daemon[u] # "down" /\ UNCHANGED <<ends, owner, sockfd>>
      /\ UNCHANGED <<loop, m_requests, m_fdStatus, backlog>>
      /\ \A v \in Users : v # u => daemon'[v] = daemon[v] /\ request'[v] = request[v]
      /\ \A d \in Conns : d # c => toGui'[d] = toGui[d] /\ toAgent'[d] = toAgent[d]
  BY DEF Runs, talkerVars
<1>3. /\ c \in Conns /\ owner[c] = u /\ q \in Seq(GuiMessages)
      /\ \A d \in Conns : "gui" \in ends[d] /\ owner[d] = u => d = c
  BY <1>1, <1>2 DEF EndsInv, DaemonsConnected, DaemonTypeOK
<1>4. \/ toGui'[c] = q
      \/ q # <<>> /\ toGui'[c] = AfterByte(q)
      \/ q # <<>> /\ toGui'[c] = Tail(q) /\ daemon'[u] = "popup"
  BY DEF Runs, Takes
<1>5. daemon'[u] = "popup" => /\ q # <<>> /\ toGui'[c] = Tail(q)
                              /\ Head(q).kind = "request" /\ request'[u] = Head(q).id
  BY DEF Runs
<1>6. BacklogUnused'
  <2> SUFFICES ASSUME NEW d \in Range(backlog)
               PROVE  toGui'[d] = <<>> /\ ("gui" \in ends[d] => daemon'[owner[d]] # "popup")
    BY <1>2 DEF BacklogUnused
  <2>1. d \in Conns /\ toGui[d] = <<>> /\ ("gui" \in ends[d] => daemon[owner[d]] # "popup")
    BY BacklogIsNotServed DEF CurrentInv, BacklogUnused
  <2>2. CASE d = c
    BY <1>3, <1>4, <1>5, <2>1, <2>2
  <2>3. CASE d # c
    <3>1. "gui" \in ends[d] => owner[d] \in Users /\ owner[d] # u
      BY <1>1, <1>3, <2>1, <2>3
    <3>2. QED
      BY <1>2, <2>1, <2>3, <3>1
  <2>4. QED
    BY <2>2, <2>3
<1>7. ASSUME loop \notin Over, NEW d \in DOMAIN m_fdStatus, "gui" \in ends[d], d \in Conns
      PROVE  IsCurrent(d)'
  <2>1. IsCurrent(d)
    BY <1>7 DEF CurrentInv
  <2>2. /\ Busy(d)' = Busy(d) /\ owner'[d] = owner[d]
        /\ \A id, v : IsFront(id, v)' <=> IsFront(id, v)
    BY <1>2 DEF Busy, IsFront, QueueOf
  <2>3. CASE d # c
    <3>1. owner[d] \in Users /\ owner[d] # u
      BY <1>1, <1>3, <1>7, <2>3
    <3>2. QED
      BY <1>2, <1>7, <2>1, <2>3, <3>1, SameIsCurrent
  <2>4. CASE d = c
    <3>1. ASSUME Torn(toGui'[c]) PROVE IsCurrent(d)'
      BY <2>4, <3>1 DEF IsCurrent, Torn, Rest
    <3>2. CASE Torn(q)
      <4>1. Head(q).kind # "request"
        BY <3>2 DEF Torn, Rest
      <4>2. toGui'[c] = q \/ toGui'[c] = AfterByte(q)
        BY <1>4, <1>5, <4>1
      <4>3. QED
        BY <1>3, <3>1, <3>2, <4>2, TornStays
    <3>3. CASE ~Torn(q) /\ Unacknowledged(c)
      <4>1. /\ daemon[u] = "acking" /\ AcksIn(q) = {}
        BY <1>3, <3>3 DEF Unacknowledged
      <4>2. q # <<>> /\ ReadsAs(q, Ack) /\ toGui'[c] = AfterByte(q)
        BY <4>1 DEF Runs
      <4>3. Head(q) # Ack
        BY <1>3, <4>1, <4>2 DEF AcksIn
      <4>4. QED
        BY <1>3, <3>1, <4>2, <4>3, RequestTears DEF ReadsAs
    <3>4. CASE ~Torn(q) /\ ~Unacknowledged(c)
      <4>1. /\ q # <<>> /\ LastOf(q).kind = "request" => Busy(c) /\ IsFront(LastOf(q).id, u)
            /\ q = <<>> /\ daemon[u] = "popup" => Busy(c) /\ IsFront(request[u], u)
        BY <1>3, <2>1, <2>4, <3>4 DEF IsCurrent
      <4> DEFINE t == toGui'[c]
      <4>2. t # <<>> /\ LastOf(t).kind = "request" => Busy(c) /\ IsFront(LastOf(t).id, u)
        BY <1>3, <1>4, <4>1, ReadEnd
      <4>3. t = <<>> /\ daemon'[u] = "popup" => Busy(c) /\ IsFront(request'[u], u)
        BY <1>3, <1>5, <4>1, ReadEnd
      <4>4. LastOf(toGui[d])' = LastOf(t)
        BY <1>2, <2>4 DEF LastOf
      <4>5. toGui'[d] = t /\ owner'[d] = u
        BY <1>2, <1>3, <2>4
      <4> HIDE DEF t
      <4>6. /\ Busy(c) => Busy(d)'
            /\ IsFront(LastOf(t).id, u) => IsFront(LastOf(toGui[d]).id, owner[d])'
            /\ IsFront(request'[u], u) => IsFront(request[owner[d]], owner[d])'
        BY <1>2, <2>2, <2>4, <4>4, <4>5 DEF IsFront, QueueOf
      <4>7. QED
        BY <4>2, <4>3, <4>4, <4>5, <4>6 DEF IsCurrent
    <3>5. QED
      BY <3>2, <3>3, <3>4
  <2>5. QED
    BY <2>3, <2>4
<1>8. DOMAIN m_fdStatus \subseteq Conns
  BY DEF IInv, MapsInv, MapsTyped, ConnectionMaps
<1>9. QED
  BY <1>2, <1>6, <1>7, <1>8 DEF CurrentInv

LEMMA LeavesKeepsCurrent ==
  ASSUME IInv, TInv, PInv, CurrentInv, NEW u \in Users, Leaves(u), UNCHANGED talkerVars
  PROVE  CurrentInv'
<1> DEFINE c == sockfd[u]
<1>1. /\ EndsInv /\ StreamsTyped /\ DaemonTypeOK /\ SocketsTyped
      /\ owner \in [Conns -> Users]
  BY DEF PInv, TInv, TalkerInv, DaemonInv, IInv, MapsInv, SocketsTyped
<1>2. /\ c \in Conns /\ \A d \in Conns : "gui" \in ends[d] /\ owner[d] = u => d = c
  BY <1>1 DEF Leaves, EndsInv, DaemonsConnected, DaemonTypeOK
<1>3. /\ \A v \in Users : v # u => daemon'[v] = daemon[v] /\ request'[v] = request[v]
      /\ "gui" \notin ends'[c] /\ toGui'[c] = <<>>
      /\ \A d \in Conns : d # c => ends'[d] = ends[d] /\ toGui'[d] = toGui[d]
      /\ UNCHANGED <<owner, toAgent>>
  BY <1>1, LeavesEffect
<1>4. UNCHANGED <<loop, m_requests, m_fdStatus, backlog>>
  BY DEF talkerVars, Leaves, Exits, GuiCloses
<1>5. ASSUME NEW d \in Conns, "gui" \in ends'[d]
      PROVE  /\ toGui'[d] = toGui[d] /\ "gui" \in ends[d]
             /\ daemon'[owner[d]] = daemon[owner[d]] /\ request'[owner[d]] = request[owner[d]]
  <2>1. d # c
    BY <1>3, <1>5
  <2>2. owner[d] \in Users /\ owner[d] # u /\ "gui" \in ends[d]
    BY <1>1, <1>2, <1>3, <1>5, <2>1
  <2>3. QED
    BY <1>3, <2>1, <2>2
<1>6. BacklogUnused'
  <2> SUFFICES ASSUME NEW d \in Range(backlog)
               PROVE  toGui'[d] = <<>> /\ ("gui" \in ends'[d] => daemon'[owner[d]] # "popup")
    BY <1>3, <1>4 DEF BacklogUnused
  <2>1. d \in Conns /\ toGui[d] = <<>> /\ ("gui" \in ends[d] => daemon[owner[d]] # "popup")
    BY BacklogIsNotServed DEF CurrentInv, BacklogUnused
  <2>2. QED
    BY <1>3, <1>5, <2>1
<1>7. ASSUME loop \notin Over, NEW d \in DOMAIN m_fdStatus, "gui" \in ends'[d], d \in Conns
      PROVE  IsCurrent(d)'
  <2>1. IsCurrent(d)
    BY <1>5, <1>7 DEF CurrentInv
  <2>2. QED
    BY <1>3, <1>4, <1>5, <1>7, <2>1, SameIsCurrent
<1>8. DOMAIN m_fdStatus \subseteq Conns
  BY DEF IInv, MapsInv, MapsTyped, ConnectionMaps
<1>9. QED
  BY <1>4, <1>6, <1>7, <1>8 DEF CurrentInv

LEMMA ConnectKeepsCurrent ==
  ASSUME IInv, TInv, PInv, CurrentInv, NEW u \in Users, Connect(u), UNCHANGED talkerVars
  PROVE  CurrentInv'
<1>1. EndsInv /\ DaemonTypeOK /\ SocketsTyped /\ owner \in [Conns -> Users]
  BY DEF PInv, TInv, DaemonInv, IInv, MapsInv, SocketsTyped
<1>2. PICK c \in Conns :
           /\ ends[c] = {} /\ ends'[c] = {"agent", "gui"} /\ owner'[c] = u
           /\ \A d \in Conns : d # c => ends'[d] = ends[d] /\ owner'[d] = owner[d]
           /\ daemon[u] = "down" /\ daemon'[u] = "waiting" /\ sockfd'[u] = c
           /\ \A v \in Users : v # u => daemon'[v] = daemon[v] /\ sockfd'[v] = sockfd[v]
           /\ UNCHANGED <<toGui, toAgent, request, type, clicks, levels>>
  BY <1>1, ConnectEffect
<1>3. UNCHANGED <<loop, m_requests, m_fdStatus>>
  BY DEF talkerVars
<1>4. backlog' = Append(backlog, c)
  <2>1. DaemonTypeOK /\ Connect(u)
    BY <1>1
  <2>2. backlog' = Append(backlog, sockfd'[u])
    BY <2>1 DEF Connect, Connected, DaemonTypeOK
  <2>3. QED
    BY <1>2, <2>2
<1>5. toGui[c] = <<>> /\ c \notin DOMAIN m_fdStatus
  BY <1>1, <1>2 DEF EndsInv, ClosedIsDropped, IInv, MapsInv, ConnectionMaps
<1>6. ASSUME NEW d \in Conns, d # c, "gui" \in ends[d]
      PROVE  owner[d] \in Users /\ daemon'[owner[d]] = daemon[owner[d]]
  <2>1. owner[d] \in Users /\ daemon[owner[d]] # "down"
    BY <1>1, <1>6 DEF EndsInv, DaemonsConnected
  <2>2. QED
    BY <1>2, <2>1
<1>7. BacklogUnused'
  <2>1. \A d \in Range(backlog') : d = c \/ d \in Range(backlog)
    BY <1>4 DEF Range, IInv, MapsInv, BacklogFresh
  <2> SUFFICES ASSUME NEW d \in Range(backlog')
               PROVE  toGui[d] = <<>> /\ ("gui" \in ends'[d] => daemon'[owner'[d]] # "popup")
    BY <1>2 DEF BacklogUnused
  <2>2. CASE d = c
    BY <1>2, <1>5, <2>2
  <2>3. CASE d # c /\ d \in Range(backlog)
    <3>1. d \in Conns /\ toGui[d] = <<>> /\ ("gui" \in ends[d] => daemon[owner[d]] # "popup")
      BY <2>3, BacklogIsNotServed DEF CurrentInv, BacklogUnused
    <3>2. QED
      BY <1>2, <1>6, <2>3, <3>1
  <2>4. QED
    BY <2>1, <2>2, <2>3
<1>8. ASSUME loop \notin Over, NEW d \in DOMAIN m_fdStatus, "gui" \in ends'[d], d \in Conns
      PROVE  IsCurrent(d)'
  <2>1. d # c
    BY <1>5, <1>8
  <2>2. /\ ends'[d] = ends[d] /\ owner'[d] = owner[d]
        /\ daemon'[owner[d]] = daemon[owner[d]] /\ IsCurrent(d)
    BY <1>2, <1>6, <1>8, <2>1 DEF CurrentInv
  <2>3. QED
    BY <1>2, <1>3, <1>8, <2>2, SameIsCurrent
<1>9. DOMAIN m_fdStatus \subseteq Conns
  BY DEF IInv, MapsInv, MapsTyped, ConnectionMaps
<1>10. QED
  BY <1>3, <1>7, <1>8, <1>9 DEF CurrentInv

LEMMA StepCurrent ==
  ASSUME IInv, IInv', TInv, PInv, AckInv, CurrentInv, [Next]_vars
  PROVE  CurrentInv'
<1>1. CASE UNCHANGED <<socketVars, daemonVars>> /\ UNCHANGED talkerVars
  <2>1. /\ toGui' = toGui /\ toAgent' = toAgent /\ ends' = ends /\ owner' = owner
        /\ backlog' = backlog /\ daemon' = daemon /\ request' = request
        /\ loop' = loop /\ m_requests' = m_requests /\ m_fdStatus' = m_fdStatus
    BY <1>1 DEF socketVars, daemonVars, talkerVars
  <2>2. BacklogUnused'
    BY <2>1 DEF CurrentInv, BacklogUnused
  <2>3. ASSUME loop \notin Over, NEW d \in DOMAIN m_fdStatus, "gui" \in ends[d]
        PROVE  IsCurrent(d)'
    BY <2>1, <2>3, SameIsCurrent DEF CurrentInv
  <2>4. QED
    BY <2>1, <2>2, <2>3 DEF CurrentInv
<1>2. CASE AgentActs /\ UNCHANGED daemonVars
  BY <1>2, ActsAreAgentSteps, ActsAreFrontSteps, AgentStepKeepsCurrent
<1>3. CASE \E u \in Users : Connect(u) /\ UNCHANGED talkerVars
  BY <1>3, ConnectKeepsCurrent
<1>4. CASE \E u \in Users : DaemonStep(u) /\ UNCHANGED talkerVars
  <2>1. PICK u \in Users : DaemonStep(u) /\ UNCHANGED talkerVars
    BY <1>4
  <2>2. CASE Runs(u)
    <3>1. backlog' = backlog
      BY <2>1, DaemonStepEnds
    <3>2. QED
      BY <2>1, <2>2, <3>1, RunsKeepsCurrent
  <2>3. QED
    BY <1>1, <2>1, <2>2, DaemonStepKinds, LeavesKeepsCurrent
<1>5. QED
  BY <1>1, <1>2, <1>3, <1>4 DEF Next, AgentActs, DaemonStep, vars

LEMMA CurrentInvariance == Spec => []CurrentInv
<1>1. Init => CurrentInv
  <2>1. Range(<<>>) = {}
    BY DEF Range
  <2>2. QED
    BY <2>1 DEF Init, SocketsInit, TalkerInit, EmptyMap, CurrentInv, BacklogUnused
<1>2. IInv /\ IInv' /\ TInv /\ PInv /\ AckInv /\ CurrentInv /\ [Next]_vars => CurrentInv'
  BY StepCurrent
<1>3. QED
  BY <1>1, <1>2, Invariance, AnswersInvariance, AcksInvariance, PTL DEF Spec

\* removeRequest and sendRequest keep a popup and the queue together: the user is
\* asked about the request at the front, or a dismissal is on its way.
THEOREM PopupsAreCurrent == Spec => []PopupIsCurrent
<1>1. ASSUME IInv, PInv, CurrentInv PROVE PopupIsCurrent
  <2> SUFFICES ASSUME loop \notin Over, NEW u \in DOMAIN m_userToFd,
                      daemon[u] = "popup", sockfd[u] = m_userToFd[u],
                      toGui[sockfd[u]] = <<>>
               PROVE  IsFront(request[u], u)
    BY DEF PopupIsCurrent
  <2>1. u \in Users /\ sockfd[u] \in DOMAIN m_fdStatus
    BY <1>1 DEF IInv, MapsInv, MapsTyped, ConnectionMaps
  <2>2. owner[sockfd[u]] = u /\ "gui" \in ends[sockfd[u]]
    BY <1>1, <2>1 DEF PInv, EndsInv, DaemonsConnected
  <2>3. IsCurrent(sockfd[u])
    BY <1>1, <2>1, <2>2 DEF CurrentInv
  <2>4. QED
    BY <2>2, <2>3 DEF IsCurrent, Torn, Unacknowledged
<1>2. QED
  BY <1>1, AnswersInvariance, CurrentInvariance, PTL
=============================================================================
