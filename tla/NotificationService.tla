------------------------- MODULE NotificationService -------------------------
(***************************************************************************)
(* What the notification thread promises the agent's main thread, without  *)
(* users, connections and daemons: only a request it was given and has not *)
(* finished with is answered, and a request leaves it by an answer, by     *)
(* being taken back, or in an error report of a thread that has failed.    *)
(* Agent relies on this, and the talker with its daemons provides it.      *)
(***************************************************************************)
CONSTANT Ids

VARIABLES
  phase,    \* of the thread: "running", "failed" or "stopped"
  pending,  \* ids it may still answer
  answers   \* answers given so far to each id

serviceVars == <<phase, pending, answers>>

NResponseType == {"Allow", "Deny", "Never", "Error", "None"}

ServiceInit ==
  /\ phase \in {"running", "failed"}
  /\ pending = {}
  /\ answers = [id \in Ids |-> {}]

\* A thread that has failed may or may not see the request.
Ask(id) ==
  /\ \/ phase = "running" /\ pending' = pending \cup {id}
     \/ phase = "failed" /\ pending' \in {pending, pending \cup {id}}
  /\ UNCHANGED <<phase, answers>>

\* The request may stay, and one that is taken back while a failed thread walks
\* over its queues may hide others.
TakeBack(id) ==
  /\ \/ phase = "running" /\ pending' \in {pending, pending \ {id}}
     \/ phase = "failed" /\ pending' \in SUBSET pending
  /\ UNCHANGED <<phase, answers>>

Given(ids, response) ==
  answers' = [id \in Ids |-> IF id \in ids THEN answers[id] \cup {response} ELSE answers[id]]

\* The id may be pending for another user too; the thread may not survive the step.
Answer(id, response) ==
  /\ phase = "running"
  /\ id \in pending
  /\ Given({id}, response)
  /\ \/ UNCHANGED phase /\ pending' \in {pending, pending \ {id}}
     \/ phase' = "stopped" /\ pending' = {}

\* It fails, and may report some of the requests at once.
Fail(ids) ==
  /\ phase = "running"
  /\ ids \subseteq pending
  /\ phase' = "failed"
  /\ Given(ids, "Error")
  /\ pending' = pending \ ids

Report(id) ==
  /\ phase = "failed"
  /\ id \in pending
  /\ Given({id}, "Error")
  /\ pending' \in {pending, pending \ {id}}
  /\ UNCHANGED phase

Stop ==
  /\ phase' = "stopped"
  /\ pending' = {}
  /\ UNCHANGED answers

ServiceNext ==
  \/ \E id \in Ids : \/ Ask(id) \/ TakeBack(id) \/ Report(id)
                     \/ \E response \in NResponseType : Answer(id, response)
  \/ \E ids \in SUBSET Ids : Fail(ids)
  \/ Stop

ServiceSpec == ServiceInit /\ [][ServiceNext]_serviceVars
=============================================================================
