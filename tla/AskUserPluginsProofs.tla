------------------------ MODULE AskUserPluginsProofs ------------------------
(***************************************************************************)
(* Proofs about the plugins, for any processes, sessions, keys, capacity   *)
(* and answers.                                                            *)
(***************************************************************************)
EXTENDS AskUserPlugins, TLAPS

CacheValues ==
  \A key \in DOMAIN m_keyValue :
    /\ m_keyValue[key] \in PerLife
    /\ key \in DOMAIN latest
    /\ latest[key] = m_keyValue[key]

RequestOK(r) ==
  /\ r \in Requests
  /\ r.result \notin PerLife
  /\ r.stage = "replied" => /\ Interpret(r.result) = MeansAccess(r.basis)
                            /\ r.basis # Undecided
                            /\ isCacheable(r.result) => r.basis = r.result

EntryOK(process, key) ==
  /\ key \in Keys
  /\ clientCache[process][key] \in [session : Sessions, result : PerSession]
  /\ told[<<process, clientCache[process][key].session, key>>] = clientCache[process][key].result

\* The inductive invariant: every copy of a decision - in the service's cache, in a
\* reply, in a client's cache - still says what it was made from.
IInv ==
  /\ CacheValues
  /\ requests \subseteq Requests
  /\ \A r \in requests : RequestOK(r)
  /\ DOMAIN clientCache = Processes
  /\ told \in [Processes \X Sessions \X Keys -> PerSession \cup {Undecided}]
  /\ \A p \in Processes : \A key \in DOMAIN clientCache[p] : EntryOK(p, key)
  /\ OutcomeIsTheUsers

USE DEF ALLOW_ONCE, ALLOW_PER_SESSION, ALLOW_PER_LIFE, DENY_ONCE, DENY_PER_SESSION,
        DENY_PER_LIFE, PREDEFINED_ALLOW, PREDEFINED_DENY, Undecided

\* What the plugins make of an answer is a policy type.
LEMMA PluginTypes ==
  /\ PREDEFINED_ALLOW \in PolicyType
  /\ \A type \in ALLOW_ONCE .. DENY_PER_LIFE \cup {PREDEFINED_DENY} : type \in PolicyType
BY DEF PolicyType, MaxPolicyType

\* The policy type taken from an answer is one of the client's or DENY.
LEMMA AnswerTypes ==
  ASSUME NEW data \in Answers, NEW type \in dataToAnswer(data)
  PROVE  /\ type \in ALLOW_ONCE .. DENY_PER_LIFE \cup {PREDEFINED_DENY}
         /\ DecisionIn(data) = type
<1>1. CASE IsText(data)
  BY <1>1 DEF dataToAnswer, DecisionIn
<1>2. CASE ~IsText(data)
  <2>1. ~(data.number > MaxPolicyType)
    BY <1>2 DEF dataToAnswer
  <2>2. data.number \in ALLOW_ONCE .. DENY_PER_LIFE
    BY <1>2, <2>1, AnswersAssumption
  <2>3. type = data.number % 65536
    BY <1>2, <2>1 DEF dataToAnswer, MaxPolicyType
  <2>4. data.number % 65536 = data.number
    BY <2>2
  <2>5. QED
    BY <1>2, <2>2, <2>3, <2>4 DEF DecisionIn
<1>3. QED
  BY <1>1, <1>2

\* With empty caches and no requests there is no copy of a decision.
LEMMA IInvInit == Init => IInv
BY DEF Init, IInv, CacheValues, OutcomeIsTheUsers, Cache!CacheInit, Cache!EmptyMap

\* The cache's update keeps the values the latest ones.
LEMMA UpdateValues ==
  ASSUME CacheValues, NEW key \in Keys, NEW value \in PerLife, Cache!Update(key, value)
  PROVE  CacheValues'
<1>1. CASE Capacity = 0
  BY <1>1 DEF CacheValues, Cache!Update, Cache!cacheVars
<1>2. CASE Capacity # 0
  <2>1. Cache!EvictedKeys \subseteq DOMAIN m_keyValue
    BY DEF Cache!EvictedKeys
  <2>2. /\ m_keyValue' = [k \in Cache!EvictedKeys \cup {key} |->
                           IF k = key THEN value ELSE m_keyValue[k]]
        /\ latest' = [k \in DOMAIN latest \cup {key} |-> IF k = key THEN value ELSE latest[k]]
    BY <1>2 DEF Cache!Update, Cache!With
  <2>3. QED
    BY <2>1, <2>2 DEF CacheValues
<1>3. QED
  BY <1>1, <1>2

\* A request that is replaced by one that is as it should be leaves all so.
LEMMA ReplacedRequest ==
  ASSUME IInv, NEW r, NEW s, RequestOK(s), requests' = (requests \ {r}) \cup {s},
         UNCHANGED <<clientCache, told, outcome>>, CacheValues'
  PROVE  IInv'
<1>1. requests' \subseteq Requests /\ \A q \in requests' : RequestOK(q)
  BY DEF IInv, RequestOK
<1>2. QED
  BY <1>1 DEF IInv, EntryOK, OutcomeIsTheUsers

\* Every step keeps the copies right.
LEMMA IInvStep == IInv /\ [Next]_vars => IInv'
<1> SUFFICES ASSUME IInv, [Next]_vars PROVE IInv'
  OBVIOUS
<1>1. ASSUME NEW process \in Processes, NEW session \in Sessions, NEW key \in Keys,
             CheckFromSession(process, session, key)
      PROVE  IInv'
  <2> DEFINE entry == clientCache[process][key]
  <2>1. /\ entry.session = session /\ entry.result \in PerSession
        /\ told[<<process, session, key>>] = entry.result
    BY <1>1 DEF CheckFromSession, Usable, isUsable, IInv, EntryOK
  <2>2. outcome' = [access |-> toResult(entry.result), basis |-> entry.result]
    BY <1>1, <2>1 DEF CheckFromSession, Returned
  <2>3. OutcomeIsTheUsers'
    BY <2>1, <2>2 DEF OutcomeIsTheUsers, PerSession, toResult, MeansAccess
  <2>4. UNCHANGED <<cacheState, requests, clientCache, told>>
    BY <1>1 DEF CheckFromSession
  <2>5. QED
    BY <2>3, <2>4 DEF IInv, CacheValues, EntryOK, cacheState
<1>2. ASSUME NEW process \in Processes, NEW session \in Sessions, NEW key \in Keys,
             CheckAtService(process, session, key)
      PROVE  IInv'
  <2> DEFINE s == [process |-> process, session |-> session, key |-> key, stage |-> "sent",
                   result |-> Undecided, basis |-> Undecided]
  <2>1. s \in Requests
    BY DEF Requests, Stages, PolicyType, MaxPolicyType
  <2>2. RequestOK(s)
    BY <2>1 DEF RequestOK, PerLife
  <2>3. requests' = requests \cup {s} /\ UNCHANGED <<cacheState, clientCache, told, outcome>>
    BY <1>2 DEF CheckAtService
  <2>4. requests' \subseteq Requests /\ \A q \in requests' : RequestOK(q)
    BY <2>1, <2>2, <2>3 DEF IInv
  <2>5. QED
    BY <2>3, <2>4 DEF IInv, CacheValues, EntryOK, OutcomeIsTheUsers, cacheState
<1>3. ASSUME NEW r \in requests, TakeReply(r) PROVE IInv'
  <2>1. RequestOK(r) /\ r \in Requests
    BY DEF IInv
  <2>2. /\ r.process \in Processes /\ r.session \in Sessions /\ r.key \in Keys
        /\ Interpret(r.result) = MeansAccess(r.basis) /\ r.basis # Undecided
        /\ isCacheable(r.result) => r.basis = r.result
    BY <1>3, <2>1 DEF TakeReply, RequestOK, Requests
  <2>3. OutcomeIsTheUsers'
    BY <1>3, <2>2 DEF TakeReply, Returned, OutcomeIsTheUsers
  <2>4. UNCHANGED cacheState /\ requests' = requests \ {r}
    BY <1>3 DEF TakeReply
  <2>5. CacheValues' /\ requests' \subseteq Requests /\ \A q \in requests' : RequestOK(q)
    BY <2>4 DEF IInv, CacheValues, cacheState
  <2>6. /\ DOMAIN clientCache' = Processes
        /\ told' \in [Processes \X Sessions \X Keys -> PerSession \cup {Undecided}]
        /\ \A p \in Processes : \A key \in DOMAIN clientCache'[p] : EntryOK(p, key)'
    <3>1. CASE isCacheable(r.result)
      <4> DEFINE entry == [session |-> r.session, result |-> r.result]
                 caller == <<r.process, r.session, r.key>>
                 mine == [k \in DOMAIN clientCache[r.process] \cup {r.key} |->
                            IF k = r.key THEN entry ELSE clientCache[r.process][k]]
      <4>1. clientCache' = [clientCache EXCEPT ![r.process] = mine]
        BY <1>3, <3>1 DEF TakeReply, Cache!With
      <4>2. told' = [told EXCEPT ![caller] = r.result]
        BY <1>3, <2>2, <3>1 DEF TakeReply
      <4>3. /\ DOMAIN clientCache' = Processes
            /\ told' \in [Processes \X Sessions \X Keys -> PerSession \cup {Undecided}]
        <5>1. r.result \in PerSession
          BY <3>1 DEF isCacheable
        <5>2. QED
          BY <4>1, <4>2, <5>1 DEF IInv
      <4>4. ASSUME NEW p \in Processes, NEW key \in DOMAIN clientCache'[p]
            PROVE  EntryOK(p, key)'
        <5>1. CASE p = r.process /\ key = r.key
          <6>1. clientCache'[p][key] = entry
            BY <4>1, <5>1 DEF IInv
          <6>2. caller \in DOMAIN told
            BY <2>2 DEF IInv
          <6>3. told'[caller] = r.result
            BY <4>2, <6>2
          <6>4. QED
            BY <2>2, <3>1, <5>1, <6>1, <6>3 DEF EntryOK, isCacheable
        <5>2. CASE p # r.process \/ key # r.key
          <6>1. key \in DOMAIN clientCache[p] /\ clientCache'[p][key] = clientCache[p][key]
            BY <4>1, <5>2 DEF IInv
          <6>2. EntryOK(p, key)
            BY <6>1 DEF IInv
          <6> DEFINE other == <<p, clientCache[p][key].session, key>>
          <6>3. other # caller
            BY <5>2
          <6>4. other \in DOMAIN told
            BY <6>2 DEF EntryOK, IInv
          <6>5. told'[other] = told[other]
            BY <4>2, <6>3, <6>4
          <6>6. QED
            BY <6>1, <6>2, <6>5 DEF EntryOK
        <5>3. QED
          BY <5>1, <5>2
      <4>5. QED
        BY <4>3, <4>4
    <3>2. CASE ~isCacheable(r.result)
      BY <1>3, <3>2 DEF TakeReply, IInv, EntryOK
    <3>3. QED
      BY <3>1, <3>2
  <2>7. QED
    BY <2>3, <2>5, <2>6 DEF IInv
<1>4. ASSUME NEW r \in requests, CheckHit(r) PROVE IInv'
  <2>1. r \in Requests /\ r.key \in DOMAIN m_keyValue
    BY <1>4 DEF IInv, CheckHit, Cache!GetFound, Cache!Found
  <2> DEFINE result == IF m_keyValue[r.key] = ALLOW_PER_LIFE THEN PREDEFINED_ALLOW
                                                             ELSE PREDEFINED_DENY
             s == [r EXCEPT !.stage = "replied", !.result = result,
                            !.basis = LatestDecision(r.key)]
  <2>2. /\ LatestDecision(r.key) = m_keyValue[r.key] /\ m_keyValue[r.key] \in PerLife
    BY <2>1 DEF IInv, CacheValues, LatestDecision
  <2>3. s \in Requests /\ s.result = result /\ s.basis = m_keyValue[r.key]
    <3>1. PREDEFINED_ALLOW \in PolicyType /\ PREDEFINED_DENY \in PolicyType
          /\ PerLife \subseteq PolicyType
      BY DEF PolicyType, MaxPolicyType, PerLife
    <3>2. result \in PolicyType /\ m_keyValue[r.key] \in PolicyType
      BY <2>2, <3>1
    <3> HIDE DEF result
    <3>3. QED
      BY <2>1, <2>2, <3>2 DEF Requests, Stages
  <2>4. RequestOK(s)
    BY <2>2, <2>3 DEF RequestOK, PerLife, PerSession, isCacheable, Interpret, MeansAccess
  <2>5. requests' = (requests \ {r}) \cup {s} /\ UNCHANGED <<clientCache, told, outcome>>
    BY <1>4 DEF CheckHit, Replies
  <2>6. CacheValues'
    BY <1>4 DEF CheckHit, Cache!GetFound, IInv, CacheValues
  <2> HIDE DEF s
  <2>7. QED
    BY <2>4, <2>5, <2>6, ReplacedRequest
<1>5. ASSUME NEW r \in requests, CheckMiss(r) PROVE IInv'
  <2> DEFINE s == [r EXCEPT !.stage = "asked"]
  <2>1. RequestOK(r)
    BY DEF IInv
  <2>2. RequestOK(s)
    BY <2>1 DEF RequestOK, Requests, Stages
  <2>3. requests' = (requests \ {r}) \cup {s} /\ UNCHANGED <<clientCache, told, outcome>>
    BY <1>5 DEF CheckMiss
  <2>4. CacheValues'
    BY <1>5 DEF CheckMiss, Cache!GetMissing, Cache!cacheVars, IInv, CacheValues
  <2> HIDE DEF s
  <2>5. QED
    BY <2>2, <2>3, <2>4, ReplacedRequest
<1>6. ASSUME NEW r \in requests, NEW data \in Answers, UpdateSucceeds(r, data) PROVE IInv'
  <2>1. PICK type \in dataToAnswer(data) :
          /\ IF type \in PerLife THEN Cache!Update(r.key, type) ELSE UNCHANGED cacheState
          /\ Replies(r, IF type = ALLOW_PER_LIFE THEN PREDEFINED_ALLOW
                        ELSE IF type = DENY_PER_LIFE THEN PREDEFINED_DENY
                        ELSE type, DecisionIn(data))
    BY <1>6 DEF UpdateSucceeds
  <2>2. type \in ALLOW_ONCE .. DENY_PER_LIFE \cup {PREDEFINED_DENY} /\ DecisionIn(data) = type
    BY AnswerTypes
  <2> DEFINE result == IF type = ALLOW_PER_LIFE THEN PREDEFINED_ALLOW
                       ELSE IF type = DENY_PER_LIFE THEN PREDEFINED_DENY
                       ELSE type
             s == [r EXCEPT !.stage = "replied", !.result = result, !.basis = type]
  <2>3. r \in Requests
    BY DEF IInv
  <2>4. result \in PolicyType /\ type \in PolicyType
    <3>1. result \in {PREDEFINED_ALLOW, PREDEFINED_DENY, type}
      BY DEF result
    <3> HIDE DEF result, s
    <3>2. QED
      BY <2>2, <3>1, PluginTypes DEF ALLOW_ONCE, DENY_PER_LIFE, PREDEFINED_DENY
  <2>5. s \in Requests /\ s.result = result /\ s.basis = type
    <3> HIDE DEF result
    <3>1. QED
      BY <2>3, <2>4 DEF Requests, Stages
  <2>6. RequestOK(s)
    BY <2>2, <2>5
    DEF RequestOK, PerLife, PerSession, isCacheable, Interpret, toResult, MeansAccess
  <2>7. requests' = (requests \ {r}) \cup {s} /\ UNCHANGED <<clientCache, told, outcome>>
    BY <1>6, <2>1, <2>2 DEF UpdateSucceeds, Replies
  <2>8. CacheValues'
    <3>1. CASE type \in PerLife
      <4>1. Cache!Update(r.key, type) /\ r.key \in Keys /\ CacheValues
        BY <2>1, <2>3, <3>1 DEF Requests, IInv
      <4>2. QED
        BY <3>1, <4>1, UpdateValues
    <3>2. CASE type \notin PerLife
      BY <2>1, <3>2 DEF IInv, CacheValues, cacheState
    <3>3. QED
      BY <3>1, <3>2
  <2> HIDE DEF s
  <2>9. QED
    BY <2>6, <2>7, <2>8, ReplacedRequest
<1>7. ASSUME NEW r \in requests, NEW data \in Answers, UpdateFails(r, data) PROVE IInv'
  BY <1>7 DEF UpdateFails, IInv, CacheValues, EntryOK, OutcomeIsTheUsers, cacheState
<1>8. CASE invalidate
  BY <1>8 DEF invalidate, Cache!Clear, Cache!EmptyMap, IInv, CacheValues, EntryOK,
              OutcomeIsTheUsers
<1>9. CASE UNCHANGED vars
  BY <1>9 DEF vars, IInv, CacheValues, EntryOK, OutcomeIsTheUsers
<1>10. QED
  BY <1>1, <1>2, <1>3, <1>4, <1>5, <1>6, <1>7, <1>8, <1>9 DEF Next

\* The inductive invariant holds throughout.
LEMMA Invariance == Spec => []IInv
<1>1. QED
  BY IInvInit, IInvStep, PTL DEF Spec

\* Every check returns what a decision for its key says, whatever was cached,
\* evicted, invalidated or overtaken.
THEOREM AccessFollowsDecision == Spec => []OutcomeIsTheUsers
<1>1. IInv => OutcomeIsTheUsers
  BY DEF IInv
<1>2. QED
  BY <1>1, Invariance, PTL

\* The decisions for life never reach the client.
THEOREM LifeDecisionsStay == Spec => []PerLifeStaysInService
<1>1. IInv => PerLifeStaysInService
  <2> SUFFICES ASSUME IInv PROVE PerLifeStaysInService
    OBVIOUS
  <2>1. \A r \in requests : r.result \notin PerLife
    BY DEF IInv, RequestOK
  <2>2. ASSUME NEW p \in Processes, NEW key \in DOMAIN clientCache[p]
        PROVE  clientCache[p][key].result \notin PerLife
    <3>1. clientCache[p][key].result \in PerSession
      BY DEF IInv, EntryOK
    <3>2. PerSession \cap PerLife = {}
      BY DEF PerSession, PerLife
    <3>3. QED
      BY <3>1, <3>2
  <2>3. QED
    BY <2>1, <2>2 DEF PerLifeStaysInService
<1>2. QED
  BY <1>1, Invariance, PTL

\* The plugin implements the cache's specification, for any capacity.
THEOREM PluginUsesCache == Spec => UsesCache
<1>1. Init => Cache!CacheInit
  BY DEF Init
<1>2. IInv /\ [Next]_vars => [Cache!CacheNext]_(Cache!cacheVars)
  <2> SUFFICES ASSUME IInv, [Next]_vars PROVE Cache!CacheNext \/ UNCHANGED cacheState
    BY DEF cacheState, Cache!cacheVars
  <2>1. \A r \in requests : r.key \in Keys
    BY DEF IInv, Requests
  <2>2. ASSUME NEW r \in requests, CheckHit(r) PROVE Cache!CacheNext
    BY <2>1, <2>2 DEF CheckHit, Cache!CacheNext
  <2>3. ASSUME NEW r \in requests, CheckMiss(r) PROVE UNCHANGED cacheState
    BY <2>3 DEF CheckMiss, Cache!GetMissing, Cache!cacheVars, cacheState
  <2>4. ASSUME NEW r \in requests, NEW data \in Answers, UpdateSucceeds(r, data)
        PROVE  Cache!CacheNext \/ UNCHANGED cacheState
    <3>1. PICK type \in dataToAnswer(data) :
            IF type \in PerLife THEN Cache!Update(r.key, type) ELSE UNCHANGED cacheState
      BY <2>4 DEF UpdateSucceeds
    <3>2. QED
      BY <2>1, <3>1 DEF Cache!CacheNext
  <2>5. CASE invalidate
    BY <2>5 DEF invalidate, Cache!CacheNext
  <2>6. QED
    BY <2>2, <2>3, <2>4, <2>5
    DEF Next, vars, cacheState, CheckFromSession, CheckAtService, TakeReply, UpdateFails
<1>3. QED
  BY <1>1, <1>2, Invariance, PTL DEF Spec, UsesCache, Cache!CacheSpec

\* The theorems about the cache, for decisions for life as values.
Proven == INSTANCE CapacityCacheProofs WITH Values <- PerLife

LEMMA CacheTyped == Cache!CacheSpec => []Cache!CacheTypeOK
<1>1. Cache!CacheInit => Proven!CacheInit
  BY DEF Cache!CacheInit, Proven!CacheInit, Cache!EmptyMap, Proven!EmptyMap
<1>2. [Cache!CacheNext]_(Cache!cacheVars) => [Proven!CacheNext]_(Proven!cacheVars)
  <2>1. UNCHANGED Cache!cacheVars <=> UNCHANGED Proven!cacheVars
    BY DEF Cache!cacheVars, Proven!cacheVars
  <2>2. /\ \A s : /\ Cache!ToSet(s) = Proven!ToSet(s)
                 /\ Cache!Front(s) = Proven!Front(s) /\ Cache!Last(s) = Proven!Last(s)
        /\ \A s, key : Cache!Cons(key, s) = Proven!Cons(key, s)
        /\ \A s, p : Cache!Splice(s, p) = Proven!Splice(s, p)
        /\ \A s, key : Cache!Position(s, key) = Proven!Position(s, key)
        /\ \A map, keys, key, value :
             Cache!With(map, keys, key, value) = Proven!With(map, keys, key, value)
    BY DEF Cache!ToSet, Proven!ToSet, Cache!Front, Proven!Front, Cache!Last, Proven!Last,
           Cache!Cons, Proven!Cons, Cache!Splice, Proven!Splice,
           Cache!Position, Proven!Position, Cache!With, Proven!With
  <2>3. \A s, key : Cache!Used(s, key) = Proven!Used(s, key)
    BY <2>2 DEF Cache!Used, Proven!Used
  <2>4. Cache!Full <=> Proven!Full
    <3>1. Cache!Cardinality(DOMAIN m_keyValue) = Proven!Cardinality(DOMAIN m_keyValue)
      BY DEF Cache!Cardinality, Proven!Cardinality
    <3>2. QED
      BY <3>1 DEF Cache!Full, Proven!Full
  <2>5. Cache!EvictedUsage = Proven!EvictedUsage /\ Cache!EvictedKeys = Proven!EvictedKeys
    BY <2>2, <2>4 DEF Cache!EvictedUsage, Proven!EvictedUsage,
                      Cache!EvictedKeys, Proven!EvictedKeys
  <2>6. ASSUME NEW key \in Keys
        PROVE  /\ Cache!GetFound(key) => Proven!GetFound(key)
               /\ Cache!GetMissing(key) => Proven!GetMissing(key)
    BY <2>1, <2>2, <2>3 DEF Cache!GetFound, Proven!GetFound, Cache!GetMissing,
                            Proven!GetMissing, Cache!Found, Proven!Found
  <2>7. ASSUME NEW key \in Keys, NEW value \in PerLife, Cache!Update(key, value)
        PROVE  Proven!Update(key, value)
    BY <2>1, <2>2, <2>3, <2>5, <2>7 DEF Cache!Update, Proven!Update
  <2>8. Cache!Clear => Proven!Clear
    BY DEF Cache!Clear, Proven!Clear, Cache!EmptyMap, Proven!EmptyMap
  <2>9. QED
    BY <2>1, <2>6, <2>7, <2>8 DEF Cache!CacheNext, Proven!CacheNext
<1>3. Proven!CacheTypeOK => Cache!CacheTypeOK
  BY DEF Cache!CacheTypeOK, Proven!CacheTypeOK
<1>4. Proven!CacheSpec => []Proven!CacheTypeOK
  BY CapacityAssumption, Proven!CacheTypes
<1>5. QED
  BY <1>1, <1>2, <1>3, <1>4, PTL DEF Cache!CacheSpec, Proven!CacheSpec

\* Whatever the agents answer: requests and caches carry policy types of this plugin
\* only, and the client keeps what a session was told.
THEOREM PluginsTypeCorrect == Spec => []TypeOK
<1>1. IInv /\ Cache!CacheTypeOK => TypeOK
  BY DEF IInv, TypeOK, EntryOK
<1>2. QED
  BY <1>1, Invariance, PluginUsesCache, CacheTyped, PTL DEF UsesCache
=============================================================================
