------------------------- MODULE NotificationDaemon -------------------------
(***************************************************************************)
(* src/agent/notification-daemon/: one process per user session that gets  *)
(* requests over its socket, shows each in a popup and sends the answer.   *)
(* AskUserTalker::run is the loop; GuiRunner::popupRun runs the graphical  *)
(* loop, in which a timer polls the socket for a dismissal every 100 ms.   *)
(* systemd starts the process again when it is gone (Restart=always).      *)
(***************************************************************************)
EXTENDS Sockets

CONSTANTS Clickable, \* the buttons the user may press
          MaxErrors  \* bound: deaths and failed selects of the daemons

ASSUME ClickableAssumption == Clickable \subseteq {"Allow", "Deny", "Never"}
ASSUME MaxErrorsAssumption == MaxErrors \in Nat

VARIABLES daemon,    \* where the process of each user is
          sockfd,    \* its connection, when it is not down
          request,   \* the id of the request in hand
          type,      \* m_popupData->type
          errors,    \* deaths and failed selects so far
          clicks,    \* history: buttons pressed
          levels     \* history: settings sent to the security manager

daemonVars == <<daemon, sockfd, request, type, errors, clicks, levels>>

Decisions == [user : Users, id : Ids, type : Clickable]

DaemonTypeOK ==
  /\ daemon \in [Users -> {"down", "waiting", "popup", "closing", "sending", "acking"}]
  /\ sockfd \in [Users -> Conns]
  /\ request \in [Users -> Ids]
  /\ type \in [Users -> NResponse \cup {"None"}]
  /\ errors \in 0..MaxErrors
  /\ clicks \subseteq Decisions
  /\ levels \subseteq Decisions

DaemonInit ==
  /\ daemon = [u \in Users |-> "down"]
  /\ sockfd = [u \in Users |-> CHOOSE c \in Conns : TRUE]
  /\ request = [u \in Users |-> CHOOSE id \in Ids : TRUE]
  /\ type = [u \in Users |-> "None"]
  /\ errors = 0
  /\ clicks = {}
  /\ levels = {}

Incoming(u) == toGui[sockfd[u]]
HasMessage(u) == Incoming(u) # <<>>
AtEnd(u) == EndOfStreamForGui(sockfd[u])

\* What the daemon has in hand does not matter once it waits again.
Waiting(u) ==
  /\ daemon' = [daemon EXCEPT ![u] = "waiting"]
  /\ request' = [request EXCEPT ![u] = CHOOSE id \in Ids : TRUE]
  /\ type' = [type EXCEPT ![u] = "None"]

\* run returns or throws, main ends and the socket is closed.
Exits(u) ==
  /\ daemon' = [daemon EXCEPT ![u] = "down"]
  /\ request' = [request EXCEPT ![u] = CHOOSE id \in Ids : TRUE]
  /\ type' = [type EXCEPT ![u] = "None"]
  /\ sockfd' = [sockfd EXCEPT ![u] = CHOOSE c \in Conns : TRUE]
  /\ GuiCloses(sockfd[u])

Reads(u) ==
  /\ toGui' = [toGui EXCEPT ![sockfd[u]] = Tail(@)]
  /\ UNCHANGED <<ends, owner, toAgent, backlog, listening>>

ReadsByte(u) ==
  /\ toGui' = [toGui EXCEPT ![sockfd[u]] = AfterByte(@)]
  /\ UNCHANGED <<ends, owner, toAgent, backlog, listening>>

\* main and the start of run.
Connect(u) ==
  /\ daemon[u] = "down"
  /\ Closed # {}
  /\ LET c == CHOOSE d \in Closed : TRUE
     IN Connected(c, u) /\ sockfd' = [sockfd EXCEPT ![u] = c]
  /\ daemon' = [daemon EXCEPT ![u] = "waiting"]
  /\ UNCHANGED <<request, type, errors, clicks, levels>>

\* Nobody listens: run throws, main ends, to be started again.
ConnectFails(u) ==
  /\ daemon[u] = "down"
  /\ ~listening
  /\ UNCHANGED <<socketVars, daemonVars>>

\* run gets a request and popupRun shows it.
GetRequest(u) ==
  /\ daemon[u] = "waiting"
  /\ HasMessage(u) /\ Head(Incoming(u)).kind = "request"
  /\ Head(Incoming(u)).id \notin Oversized
  /\ daemon' = [daemon EXCEPT ![u] = "popup"]
  /\ request' = [request EXCEPT ![u] = Head(Incoming(u)).id]
  /\ type' = [type EXCEPT ![u] = "None"]
  /\ Reads(u)
  /\ UNCHANGED <<sockfd, errors, clicks, levels>>

\* checkSizeLimit throws: the request is too long, or the eight bytes taken for
\* a size end in a character of the request, which makes them a huge number.
SizeExceedsLimits(u) ==
  /\ daemon[u] = "waiting"
  /\ HasMessage(u)
  /\ Head(Incoming(u)) = Rest \/ Head(Incoming(u)) \in {Request(id) : id \in Oversized}
  /\ Exits(u)
  /\ UNCHANGED <<errors, clicks, levels>>

\* The agent closed the connection, and less than a size is left to read.
ConnectionLost(u) ==
  /\ daemon[u] = "waiting"
  /\ "agent" \notin ends[sockfd[u]]
  /\ \A i \in DOMAIN Incoming(u) : Incoming(u)[i] \in {Ack, Dismissal}
  /\ Exits(u)
  /\ UNCHANGED <<errors, clicks, levels>>

\* allow_answer, deny_answer, never_answer.  The window takes clicks until the
\* graphical loop has ended, after a dismissal and after another click too.
Click(u, t) ==
  /\ daemon[u] \in {"popup", "closing"}
  /\ daemon' = [daemon EXCEPT ![u] = "closing"]
  /\ type' = [type EXCEPT ![u] = t]
  /\ clicks' = clicks \cup {[user |-> u, id |-> request[u], type |-> t]}
  /\ UNCHANGED <<socketVars, sockfd, request, errors, levels>>

\* timeout_answer and shouldDismiss.  The timer runs until the graphical loop
\* has ended, also when the window is being closed already.
Dismissed(u) ==
  /\ daemon[u] \in {"popup", "closing"}
  /\ HasMessage(u) /\ ReadsAs(Incoming(u), Dismissal)
  /\ daemon' = [daemon EXCEPT ![u] = "closing"]
  /\ ReadsByte(u)
  /\ UNCHANGED <<sockfd, request, type, errors, clicks, levels>>

\* An exception leaves the graphical loop: popupRun catches it, or it cannot
\* pass through the frames of the C library and ends the process.
Throws(u) ==
  \/ /\ daemon' = [daemon EXCEPT ![u] = "sending"]
     /\ type' = [type EXCEPT ![u] = "Error"]
     /\ UNCHANGED <<sockfd, request>>
     /\ IF HasMessage(u) THEN ReadsByte(u) ELSE UNCHANGED socketVars
  \/ Exits(u)

\* shouldDismiss reads the first byte of a request, or the end of the stream.
IncorrectDismissFlag(u) ==
  /\ daemon[u] \in {"popup", "closing"}
  /\ AtEnd(u) \/ (HasMessage(u) /\ ~ReadsAs(Incoming(u), Dismissal))
  /\ Throws(u)
  /\ UNCHANGED <<errors, clicks, levels>>

\* The m_nfds of shouldDismiss's select is read uninitialized: the call may fail,
\* like other calls of popupRun, which answers with an error.
SelectFails(u) ==
  /\ daemon[u] \in {"popup", "closing"}
  /\ errors < MaxErrors
  /\ errors' = errors + 1
  /\ daemon' = [daemon EXCEPT ![u] = "sending"]
  /\ type' = [type EXCEPT ![u] = "Error"]
  /\ UNCHANGED <<socketVars, sockfd, request, clicks, levels>>

\* (mutant) a popup that was dismissed is answered.
PopupEndsAnswered(u) ==
  /\ daemon[u] = "closing"
  /\ daemon' = [daemon EXCEPT ![u] = "sending"]
  /\ type' = [type EXCEPT ![u] = IF @ = "None" THEN "Deny" ELSE @]
  /\ UNCHANGED <<socketVars, sockfd, request, errors, clicks, levels>>

\* The window has lost the focus and elm_run returns.
PopupEnds(u) ==
  /\ daemon[u] = "closing"
  /\ IF type[u] = "None"
     THEN Waiting(u)
     ELSE daemon' = [daemon EXCEPT ![u] = "sending"] /\ UNCHANGED <<request, type>>
  /\ UNCHANGED <<socketVars, sockfd, errors, clicks, levels>>

SendAnswer(u) ==
  /\ daemon[u] = "sending"
  /\ LET c == sockfd[u]
     IN IF "agent" \in ends[c]
        THEN /\ toAgent' = [toAgent EXCEPT ![c] = Append(@, [id |-> request[u], type |-> type[u]])]
             /\ daemon' = [daemon EXCEPT ![u] = "acking"]
             /\ UNCHANGED <<ends, owner, toGui, backlog, listening, sockfd, request, type>>
        ELSE Exits(u)
  /\ UNCHANGED <<errors, clicks, levels>>

\* Allow and Never become settings, unless the security manager refuses, which
\* is only logged.
setSecurityLevel(u) ==
  \/ /\ type[u] \in {"Allow", "Never"}
     /\ levels' = levels \cup {[user |-> u, id |-> request[u], type |-> type[u]]}
  \/ UNCHANGED levels

\* (mutant) any byte is taken for the acknowledgement.
GetAnyAck(u) ==
  /\ daemon[u] = "acking"
  /\ HasMessage(u)
  /\ IF type[u] = "Error" THEN Exits(u) ELSE Waiting(u) /\ ReadsByte(u) /\ UNCHANGED sockfd
  /\ setSecurityLevel(u)
  /\ UNCHANGED <<errors, clicks>>

\* run gets the acknowledgement, or a byte that looks like one; of an error it was
\* the daemon's last word.
GetAck(u) ==
  /\ daemon[u] = "acking"
  /\ HasMessage(u) /\ ReadsAs(Incoming(u), Ack)
  /\ IF type[u] = "Error" THEN Exits(u) ELSE Waiting(u) /\ ReadsByte(u) /\ UNCHANGED sockfd
  /\ setSecurityLevel(u)
  /\ UNCHANGED <<errors, clicks>>

\* "Incorrect ack", or the end of the stream.
IncorrectAck(u) ==
  /\ daemon[u] = "acking"
  /\ AtEnd(u) \/ (HasMessage(u) /\ ~ReadsAs(Incoming(u), Ack))
  /\ Exits(u)
  /\ UNCHANGED <<errors, clicks, levels>>

\* The session ends or the process is killed.
Dies(u) ==
  /\ daemon[u] # "down"
  /\ errors < MaxErrors
  /\ errors' = errors + 1
  /\ Exits(u)
  /\ UNCHANGED <<clicks, levels>>
=============================================================================
