--------------------------- MODULE AgentContract ----------------------------
(***************************************************************************)
(* What the agent promises cynara, without threads, locks and queues: an   *)
(* accepted request is answered at most once, by a cancel confirmation or  *)
(* by the conversion of a decision that was taken for its id, and is       *)
(* closed by the answer.  An answer may be lost on the way to cynara, and  *)
(* a shutdown closes what is open without an answer.                       *)
(***************************************************************************)
EXTENDS AskUserTypes, Sequences

CONSTANT Ids

VARIABLES
  open,      \* ids of the requests accepted and not answered
  decided,   \* decisions taken so far for each id
  sent       \* answers that reached cynara, per id

contractVars == <<open, decided, sent>>

ContractInit ==
  /\ open = {}
  /\ decided = [id \in Ids |-> {}]
  /\ sent = [id \in Ids |-> <<>>]

Accept(id) ==
  /\ id \notin open
  /\ open' = open \cup {id}
  /\ UNCHANGED <<decided, sent>>

Decide(id, response) ==
  /\ decided' = [decided EXCEPT ![id] = @ \cup {response}]
  /\ UNCHANGED <<open, sent>>

\* What cynara has to be told for each decision: the popup's "Allow" and "Never"
\* are for life, its "Deny" is for this once.
Meaning(response) ==
  CASE response = "Allow" -> Number(ALLOW_PER_LIFE)
    [] response = "Deny"  -> Number(DENY_ONCE)
    [] response = "Never" -> Number(DENY_PER_LIFE)
    [] response = "Error" -> Text(ErrorMsg)
    [] response = "None"  -> Text(TimeoutMsg)

\* The request is closed, whether or not the answer gets through.
Reply(id, type, data) ==
  /\ id \in open
  /\ open' = open \ {id}
  /\ \/ sent' = [sent EXCEPT ![id] = Append(@, [type |-> type, data |-> data])]
     \/ UNCHANGED sent
  /\ UNCHANGED decided

ReplyAnswer(id) ==
  \E response \in decided[id] :
    Reply(id, "RT_Action", Meaning(response))

ReplyCancelled(id) == Reply(id, "RT_Cancel", Text(NoError))

Shutdown == open' = {} /\ UNCHANGED <<decided, sent>>

ContractNext ==
  \/ \E id \in Ids : \/ Accept(id) \/ ReplyAnswer(id) \/ ReplyCancelled(id)
                     \/ \E response \in NResponseType : Decide(id, response)
  \/ Shutdown

ContractSpec == ContractInit /\ [][ContractNext]_contractVars
=============================================================================
