--------------------------- MODULE AskUserPlugins ---------------------------
(***************************************************************************)
(* The two cynara plugins and the way of one access check through them.    *)
(* ClientPlugin runs in every process that asks cynara; it decides what of *)
(* an answer is kept for the session and what it means.  AskUserPlugin     *)
(* runs in the cynara service: check() answers from the cache or lets      *)
(* cynara ask the agent, update() takes the agent's answer, invalidate()   *)
(* drops the cache.                                                        *)
(*                                                                         *)
(* The cynara libraries around the plugins are external: the client        *)
(* library keeps one entry per key with the session it was stored in, asks *)
(* isUsable() about it, and sends a request to the service otherwise; the  *)
(* service calls check(), and update() once the agent has answered.        *)
(***************************************************************************)
EXTENDS AskUserTypes, FiniteSets, Sequences

CONSTANTS
  Processes, Sessions,
  Keys,              \* (client, user, privilege); hasher() is injective on them
  Capacity,          \* of the service's cache
  Answers,           \* plugin data an agent may answer with
  MaxRequests        \* bound: checks in flight

ASSUME CapacityAssumption == Capacity \in Nat

\* An agent answers with text, with a policy type of the client, or with a number
\* that is too large for one.
ASSUME AnswersAssumption ==
  \A data \in Answers :
    \/ IsText(data)
    \/ data.number \in ALLOW_ONCE .. DENY_PER_LIFE
    \/ data.number \in Nat /\ data.number > MaxPolicyType

VARIABLES
  m_keyUsage, m_keyValue,  \* the service plugin's m_cache
  recency, latest,         \* its history (CapacityCache)
  requests,                \* checks between the client library and the service
  clientCache,             \* the client library's cache, per process
  told,                    \* history: the last per-session answer each session got
  outcome                  \* history: the last check that returned to its caller

cacheState == <<m_keyUsage, m_keyValue, recency, latest>>
vars == <<m_keyUsage, m_keyValue, recency, latest, requests, clientCache, told, outcome>>

PerLife == {ALLOW_PER_LIFE, DENY_PER_LIFE}
PerSession == {ALLOW_PER_SESSION, DENY_PER_SESSION}
Undecided == 1     \* a policy type no plugin knows: no decision
NoOutcome == [access |-> "NONE", basis |-> Undecided]

Cache == INSTANCE CapacityCache WITH Values <- PerLife

Stages == {"sent", "asked", "replied"}
Requests ==
  [process : Processes, session : Sessions, key : Keys, stage : Stages,
   result : PolicyType,    \* what the service replied
   basis : PolicyType]     \* history: the decision the reply goes back to

-----------------------------------------------------------------------------
(* ClientPlugin.                                                           *)

\* (mutant) a once-answer is kept for the session.
isCacheableAny(result) == result \in ALLOW_ONCE .. DENY_PER_LIFE
isCacheable(result) == result \in PerSession

\* (mutant) the session is not compared.
isUsableAnySession(session, prevSession, result) == result \in PerSession
isUsable(session, prevSession, result) == result \in PerSession /\ session = prevSession

toResult(result) ==
  IF result \in {ALLOW_ONCE, ALLOW_PER_SESSION} THEN "ALLOWED" ELSE "DENIED"

\* Cynara interprets the predefined types itself and leaves the others to the plugin.
Interpret(result) ==
  IF result = PREDEFINED_ALLOW THEN "ALLOWED"
  ELSE IF result = PREDEFINED_DENY THEN "DENIED" ELSE toResult(result)

-----------------------------------------------------------------------------
(* The client library around it.                                           *)

Init ==
  /\ Cache!CacheInit
  /\ requests = {}
  /\ clientCache = [p \in Processes |-> Cache!EmptyMap]
  /\ told = [caller \in Processes \X Sessions \X Keys |-> Undecided]
  /\ outcome = NoOutcome

Usable(process, session, key) ==
  /\ key \in DOMAIN clientCache[process]
  /\ LET entry == clientCache[process][key]
     IN  isUsable(session, entry.session, entry.result)

Returned(access, basis) == outcome' = [access |-> access, basis |-> basis]

\* A check answered from the client's cache.
CheckFromSession(process, session, key) ==
  /\ Usable(process, session, key)
  /\ Returned(toResult(clientCache[process][key].result), told[<<process, session, key>>])
  /\ UNCHANGED <<cacheState, requests, clientCache, told>>

\* Any other check goes to the service.
CheckAtService(process, session, key) ==
  /\ ~Usable(process, session, key)
  /\ Cardinality(requests) < MaxRequests
  /\ requests' = requests \cup
       {[process |-> process, session |-> session, key |-> key, stage |-> "sent",
         result |-> Undecided, basis |-> Undecided]}
  /\ UNCHANGED <<cacheState, clientCache, told, outcome>>

\* The client library takes the service's reply.
TakeReply(r) ==
  /\ r \in requests /\ r.stage = "replied"
  /\ requests' = requests \ {r}
  /\ Returned(Interpret(r.result), r.basis)
  /\ IF isCacheable(r.result)
     THEN /\ clientCache' = [clientCache EXCEPT ![r.process] =
               Cache!With(@, DOMAIN @, r.key, [session |-> r.session, result |-> r.result])]
          /\ told' = [told EXCEPT ![<<r.process, r.session, r.key>>] = r.basis]
     ELSE UNCHANGED <<clientCache, told>>
  /\ UNCHANGED cacheState

-----------------------------------------------------------------------------
(* AskUserPlugin.                                                          *)

Replies(r, result, basis) ==
  requests' = (requests \ {r}) \cup
                {[r EXCEPT !.stage = "replied", !.result = result, !.basis = basis]}

\* The decision there is: the last one for life, and the one in the agent's answer.
LatestDecision(key) == IF key \in DOMAIN latest THEN latest[key] ELSE Undecided
DecisionIn(data) == IF IsText(data) THEN PREDEFINED_DENY ELSE data.number

\* check() with a cached decision.
CheckHit(r) ==
  /\ r \in requests /\ r.stage = "sent"
  /\ Cache!GetFound(r.key)
  /\ Replies(r, IF m_keyValue[r.key] = ALLOW_PER_LIFE THEN PREDEFINED_ALLOW
                                                     ELSE PREDEFINED_DENY,
             LatestDecision(r.key))
  /\ UNCHANGED <<clientCache, told, outcome>>

\* check() without one: ANSWER_NOTREADY, cynara asks the agent.
CheckMiss(r) ==
  /\ r \in requests /\ r.stage = "sent"
  /\ Cache!GetMissing(r.key)
  /\ requests' = (requests \ {r}) \cup {[r EXCEPT !.stage = "asked"]}
  /\ UNCHANGED <<clientCache, told, outcome>>

\* (mutant) once-answers are cached too.
UpdateCachesAll(r, data) ==
  /\ r \in requests /\ r.stage = "asked"
  /\ \E resultType \in dataToAnswer(data) :
       /\ Cache!Update(r.key, resultType)
       /\ Replies(r, IF resultType = ALLOW_PER_LIFE THEN PREDEFINED_ALLOW
                     ELSE IF resultType = DENY_PER_LIFE THEN PREDEFINED_DENY
                     ELSE resultType, DecisionIn(data))
  /\ UNCHANGED <<clientCache, told, outcome>>

\* (mutant) only the allowing decision is translated.
UpdateForgetsDeny(r, data) ==
  /\ r \in requests /\ r.stage = "asked"
  /\ \E resultType \in dataToAnswer(data) :
       /\ IF resultType = ALLOW_PER_LIFE THEN Cache!Update(r.key, resultType)
                                         ELSE UNCHANGED cacheState
       /\ Replies(r, IF resultType = ALLOW_PER_LIFE THEN PREDEFINED_ALLOW ELSE resultType,
                  DecisionIn(data))
  /\ UNCHANGED <<clientCache, told, outcome>>

\* update(): a decision for life goes into the cache and out as a predefined type,
\* any other goes to the client.
UpdateSucceeds(r, data) ==
  /\ r \in requests /\ r.stage = "asked"
  /\ \E resultType \in dataToAnswer(data) :
       /\ IF resultType \in PerLife THEN Cache!Update(r.key, resultType)
                                    ELSE UNCHANGED cacheState
       /\ Replies(r, IF resultType = ALLOW_PER_LIFE THEN PREDEFINED_ALLOW
                     ELSE IF resultType = DENY_PER_LIFE THEN PREDEFINED_DENY
                     ELSE resultType, DecisionIn(data))
  /\ UNCHANGED <<clientCache, told, outcome>>

\* update() of data it cannot translate: PluginStatus::ERROR, the check fails.
UpdateFails(r, data) ==
  /\ r \in requests /\ r.stage = "asked"
  /\ dataToAnswer(data) = {}
  /\ requests' = requests \ {r}
  /\ UNCHANGED <<cacheState, clientCache, told, outcome>>

invalidate == Cache!Clear /\ UNCHANGED <<requests, clientCache, told, outcome>>

Next ==
  \/ \E process \in Processes, session \in Sessions, key \in Keys :
       \/ CheckFromSession(process, session, key)
       \/ CheckAtService(process, session, key)
  \/ \E r \in requests : \/ TakeReply(r) \/ CheckHit(r) \/ CheckMiss(r)
                         \/ \E data \in Answers : UpdateSucceeds(r, data) \/ UpdateFails(r, data)
  \/ invalidate

Spec == Init /\ [][Next]_vars

-----------------------------------------------------------------------------
(* Properties.                                                             *)

\* The client's cache has results of this plugin only, requests carry 16-bit types.
TypeOK ==
  /\ Cache!CacheTypeOK
  /\ requests \subseteq Requests
  /\ told \in [Processes \X Sessions \X Keys -> PerSession \cup {Undecided}]
  /\ \A p \in Processes : \A key \in DOMAIN clientCache[p] :
       key \in Keys /\ clientCache[p][key] \in [session : Sessions, result : PerSession]

\* What the user's decision means for access.
MeansAccess(decision) ==
  IF decision \in {ALLOW_ONCE, ALLOW_PER_SESSION, ALLOW_PER_LIFE} THEN "ALLOWED" ELSE "DENIED"

\* Whatever was cached, evicted, invalidated or overtaken on the way, a check returns
\* what a decision for this very key says: its own answer, the last decision for
\* life, or the last one of this very session.
OutcomeIsTheUsers ==
  outcome # NoOutcome => /\ outcome.access = MeansAccess(outcome.basis)
                         /\ outcome.basis # Undecided

\* "This one will never reach client": neither of the decisions for life is ever in
\* a reply to the client or in its cache.
PerLifeStaysInService ==
  /\ \A r \in requests : r.result \notin PerLife
  /\ \A p \in Processes : \A key \in DOMAIN clientCache[p] :
       clientCache[p][key].result \notin PerLife

\* The plugin uses its cache only through its operations, and keeps only decisions
\* for life in it: it implements the cache's specification.
UsesCache == Cache!CacheSpec
=============================================================================
