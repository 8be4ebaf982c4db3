------------------------------ MODULE Sockets ------------------------------
(***************************************************************************)
(* The unix stream sockets between the agent and the notification daemons: *)
(* src/common/socket/Socket.cpp as its two users see it.  A connection has *)
(* two ends, a queue of messages each way and the user of the daemon that  *)
(* made it; the kernel keeps it until both ends are closed.  Every message *)
(* of the protocol is shorter than a socket buffer, so that send and recv  *)
(* move it whole and never block half way.                                 *)
(***************************************************************************)
EXTENDS Naturals, Sequences, FiniteSets

CONSTANTS Users,     \* one notification daemon each, in the order of std::map
          Conns,     \* bound: the connections that exist at one time
          Ids,       \* request ids
          Oversized, \* those whose request is longer than Limits allows,
          AckSized, DismissSized  \* or has a code as the low byte of its size

ASSUME UsersAssumption == Users \subseteq Nat /\ Users # {}
ASSUME InstanceAssumption == Conns # {} /\ Ids # {}
ASSUME SizesAssumption == AckSized \cap DismissSized = {}

VARIABLES ends,      \* the open ends of each connection
          owner,     \* the user whose daemon made it
          toGui,     \* what the agent has sent and the daemon has not read
          toAgent,   \* what the daemon has sent and the agent has not read
          backlog,   \* connections that wait for accept, oldest first
          listening  \* the agent's listening socket is open

socketVars == <<ends, owner, toGui, toAgent, backlog, listening>>

NResponse == {"Allow", "Deny", "Never", "Error"}

\* What goes to the daemon: a request, whose first byte is the low byte of its
\* size, the two one-byte codes, and what is left of a request of which the
\* first byte is gone.
GuiMessages == [kind : {"request"}, id : Ids] \cup [kind : {"ack", "dismiss", "rest"}]
Request(id) == [kind |-> "request", id |-> id]
Ack == [kind |-> "ack"]
Dismissal == [kind |-> "dismiss"]
Rest == [kind |-> "rest"]

\* A single byte is read from the queue q and compared with a code: the first byte
\* of a request may be that code, the first bytes of what is left of one never are.
ReadsAs(q, code) ==
  \/ Head(q) = code
  \/ /\ Head(q).kind = "request"
     /\ Head(q).id \in (IF code = Ack THEN AckSized ELSE DismissSized)

AfterByte(q) ==
  IF Head(q).kind \in {"request", "rest"} THEN <<Rest>> \o Tail(q) ELSE Tail(q)

Responses == [id : Ids, type : NResponse]

SocketsInit ==
  /\ ends = [c \in Conns |-> {}]
  /\ owner = [c \in Conns |-> CHOOSE u \in Users : TRUE]
  /\ toGui = [c \in Conns |-> <<>>]
  /\ toAgent = [c \in Conns |-> <<>>]
  /\ backlog = <<>>
  /\ listening = TRUE

SocketsTypeOK ==
  /\ ends \in [Conns -> SUBSET {"agent", "gui"}]
  /\ owner \in [Conns -> Users]
  /\ toGui \in [Conns -> Seq(GuiMessages)]
  /\ toAgent \in [Conns -> Seq(Responses)]
  /\ backlog \in Seq(Conns)
  /\ listening \in BOOLEAN

Closed == {c \in Conns : ends[c] = {}}

\* Socket::connect.
Connected(c, u) ==
  /\ listening
  /\ ends' = [ends EXCEPT ![c] = {"agent", "gui"}]
  /\ owner' = [owner EXCEPT ![c] = u]
  /\ backlog' = Append(backlog, c)
  /\ UNCHANGED <<toGui, toAgent, listening>>

\* Closing an end throws away what it has not read.
AgentCloses(cs) ==
  /\ ends' = [c \in Conns |-> IF c \in cs THEN ends[c] \ {"agent"} ELSE ends[c]]
  /\ toAgent' = [c \in Conns |-> IF c \in cs THEN <<>> ELSE toAgent[c]]

GuiCloses(c) ==
  /\ ends' = [ends EXCEPT ![c] = @ \ {"gui"}]
  /\ toGui' = [toGui EXCEPT ![c] = <<>>]
  /\ UNCHANGED <<owner, toAgent, backlog, listening>>

\* select reports a descriptor with data or at the end of the stream.
ReadableByAgent(c) == toAgent[c] # <<>> \/ "gui" \notin ends[c]
EndOfStreamForAgent(c) == toAgent[c] = <<>> /\ "gui" \notin ends[c]
EndOfStreamForGui(c) == toGui[c] = <<>> /\ "agent" \notin ends[c]
=============================================================================
