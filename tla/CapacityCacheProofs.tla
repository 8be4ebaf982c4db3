------------------------ MODULE CapacityCacheProofs -------------------------
(***************************************************************************)
(* Proofs about the cache for any keys, values and capacity.               *)
(***************************************************************************)
EXTENDS CapacityCache, FiniteSetTheorems, SequenceTheorems, TLAPS

-----------------------------------------------------------------------------
(* The list operations.                                                    *)

\* Splicing a node to the front permutes the list.
LEMMA SpliceProperties ==
  ASSUME NEW S, NEW s \in Seq(S), NEW p \in 1 .. Len(s)
  PROVE  /\ Splice(s, p) \in Seq(S)
         /\ Len(Splice(s, p)) = Len(s)
         /\ \A i \in 1 .. Len(s) :
              Splice(s, p)[i] = IF i = 1 THEN s[p] ELSE IF i <= p THEN s[i - 1] ELSE s[i]
         /\ ToSet(Splice(s, p)) = ToSet(s)
         /\ IsInjective(s) => IsInjective(Splice(s, p))
<1> DEFINE t == Splice(s, p)
<1>1. t \in Seq(S) /\ Len(t) = Len(s)
  BY DEF Splice
<1>2. \A i \in 1 .. Len(s) : t[i] = IF i = 1 THEN s[p] ELSE IF i <= p THEN s[i - 1] ELSE s[i]
  BY DEF Splice
<1>3. \A i \in 1 .. Len(s) : \E j \in 1 .. Len(s) : t[j] = s[i]
  <2> TAKE i \in 1 .. Len(s)
  <2>1. CASE i = p
    BY <1>2, <2>1
  <2>2. CASE i < p
    BY <1>2, <2>2, i + 1 \in 1 .. Len(s), i + 1 <= p, i + 1 # 1
  <2>3. CASE i > p
    BY <1>2, <2>3
  <2>4. QED
    BY <2>1, <2>2, <2>3
<1>4. \A i \in 1 .. Len(s) : \E j \in 1 .. Len(s) : s[j] = t[i]
  BY <1>2
<1> HIDE DEF t
<1>5. ToSet(t) = ToSet(s)
  <2>1. DOMAIN s = 1 .. Len(s) /\ DOMAIN t = 1 .. Len(s)
    BY <1>1
  <2>2. \A x : x \in ToSet(t) <=> \E i \in 1 .. Len(s) : x = t[i]
    BY <2>1 DEF ToSet
  <2>3. \A x : x \in ToSet(s) <=> \E i \in 1 .. Len(s) : x = s[i]
    BY <2>1 DEF ToSet
  <2>4. ToSet(t) \subseteq ToSet(s)
    BY <1>4, <2>2, <2>3
  <2>5. ToSet(s) \subseteq ToSet(t)
    BY <1>3, <2>2, <2>3
  <2>6. QED
    BY <2>4, <2>5
<1>6. ASSUME IsInjective(s) PROVE IsInjective(t)
  <2> SUFFICES ASSUME NEW i \in 1 .. Len(s), NEW j \in 1 .. Len(s), t[i] = t[j] PROVE i = j
    BY <1>1 DEF IsInjective
  <2> DEFINE from(k) == IF k = 1 THEN p ELSE IF k <= p THEN k - 1 ELSE k
  <2>1. \A k \in 1 .. Len(s) : from(k) \in 1 .. Len(s) /\ t[k] = s[from(k)]
    BY <1>2
  <2>2. from(i) = from(j)
    BY <1>6, <2>1 DEF IsInjective
  <2>3. QED
    BY <2>2
<1>7. QED
  BY <1>1, <1>2, <1>5, <1>6 DEF t

\* Adding a node in front adds its key.
LEMMA ConsProperties ==
  ASSUME NEW S, NEW s \in Seq(S), NEW key \in S
  PROVE  /\ Cons(key, s) \in Seq(S)
         /\ Len(Cons(key, s)) = Len(s) + 1
         /\ \A i \in 1 .. Len(s) + 1 : Cons(key, s)[i] = IF i = 1 THEN key ELSE s[i - 1]
         /\ ToSet(Cons(key, s)) = ToSet(s) \cup {key}
         /\ IsInjective(s) /\ key \notin ToSet(s) => IsInjective(Cons(key, s))
<1> DEFINE t == Cons(key, s)
<1>1. t \in Seq(S) /\ Len(t) = Len(s) + 1
  BY DEF Cons
<1>2. \A i \in 1 .. Len(s) + 1 : t[i] = IF i = 1 THEN key ELSE s[i - 1]
  BY DEF Cons
<1>3. \A i \in 1 .. Len(s) : i + 1 \in 1 .. Len(t) /\ t[i + 1] = s[i]
  BY <1>1, <1>2
<1> HIDE DEF t
<1>4. ToSet(t) = ToSet(s) \cup {key}
  <2>1. 1 \in DOMAIN t /\ t[1] = key
    BY <1>1, <1>2
  <2>2. QED
    BY <1>1, <1>2, <1>3, <2>1, DOMAIN s = 1 .. Len(s), DOMAIN t = 1 .. Len(t) DEF ToSet
<1>5. ASSUME IsInjective(s), key \notin ToSet(s) PROVE IsInjective(t)
  BY <1>1, <1>2, <1>5, SMTT(30) DEF IsInjective, ToSet
<1>6. QED
  BY <1>1, <1>2, <1>4, <1>5 DEF t

\* Dropping the last node of a list without repetitions drops its key.
LEMMA FrontProperties ==
  ASSUME NEW S, NEW s \in Seq(S), s # <<>>
  PROVE  /\ Front(s) \in Seq(S)
         /\ Len(Front(s)) = Len(s) - 1
         /\ \A i \in 1 .. Len(s) - 1 : Front(s)[i] = s[i]
         /\ IsInjective(s) => /\ ToSet(Front(s)) = ToSet(s) \ {Last(s)}
                              /\ IsInjective(Front(s))
         /\ Last(s) \in ToSet(s)
<1> DEFINE t == Front(s)
           n == Len(s) - 1
<1>1. t \in Seq(S) /\ Len(t) = n /\ \A i \in 1 .. n : t[i] = s[i]
  <2>1. n \in Nat /\ \A i \in 1 .. n : s[i] \in S
    OBVIOUS
  <2>2. t = SubSeq(s, 1, n)
    BY DEF Front
  <2> HIDE DEF n, t
  <2>3. /\ t \in Seq(S)
        /\ Len(t) = IF 1 <= n THEN n - 1 + 1 ELSE 0
        /\ \A i \in 1 .. n - 1 + 1 : t[i] = s[1 + i - 1]
    BY <2>1, <2>2, SubSeqProperties
  <2>4. n - 1 + 1 = n /\ \A i \in 1 .. n : 1 + i - 1 = i
    BY <2>1
  <2>5. \A i \in 1 .. n : t[i] = s[i]
    BY <2>3, <2>4
  <2>6. Len(t) = n
    BY <2>1, <2>3
  <2>7. QED
    BY <2>3, <2>5, <2>6
<1>2. Len(t) = Len(s) - 1 /\ \A i \in 1 .. Len(s) - 1 : t[i] = s[i]
  BY <1>1
<1>3. Last(s) \in ToSet(s)
  BY DEF Last, ToSet
<1>4. ASSUME IsInjective(s) PROVE ToSet(t) = ToSet(s) \ {Last(s)} /\ IsInjective(t)
  <2> HIDE DEF t
  <2>1. \A i \in 1 .. Len(s) - 1 : t[i] # Last(s)
    BY <1>1, <1>2, <1>4 DEF Last, IsInjective
  <2>2. \A i \in 1 .. Len(s) : i \in 1 .. Len(s) - 1 \/ s[i] = Last(s)
    BY DEF Last
  <2>3. ToSet(t) = ToSet(s) \ {Last(s)}
    BY <1>1, <1>2, <2>1, <2>2, DOMAIN s = 1 .. Len(s), DOMAIN t = 1 .. Len(s) - 1 DEF ToSet
  <2>4. IsInjective(t)
    BY <1>1, <1>2, <1>4 DEF IsInjective
  <2>5. QED
    BY <2>3, <2>4
<1>5. QED
  BY <1>1, <1>2, <1>3, <1>4

\* The position of a key is where it is.
LEMMA PositionProperties ==
  ASSUME NEW s, NEW key \in ToSet(s), Len(s) \in Nat, DOMAIN s = 1 .. Len(s)
  PROVE  Position(s, key) \in 1 .. Len(s) /\ s[Position(s, key)] = key
BY DEF ToSet, Position

\* Using a key brings it to the front of a list that then has it exactly once.
LEMMA UsedProperties ==
  ASSUME NEW S, NEW s \in Seq(S), NEW key \in S, IsInjective(s)
  PROVE  /\ Used(s, key) \in Seq(S)
         /\ IsInjective(Used(s, key))
         /\ ToSet(Used(s, key)) = ToSet(s) \cup {key}
<1>1. CASE key \in ToSet(s)
  <2>1. Position(s, key) \in 1 .. Len(s)
    BY <1>1, PositionProperties
  <2>2. QED
    BY <1>1, <2>1, SpliceProperties DEF Used
<1>2. CASE key \notin ToSet(s)
  BY <1>2, ConsProperties DEF Used
<1>3. QED
  BY <1>1, <1>2

-----------------------------------------------------------------------------
(* The list and the map.                                                   *)

CacheInv ==
  /\ CacheTypeOK
  /\ UsageMatchesMap
  /\ WithinCapacity
  /\ IsInjective(recency)

\* Eviction leaves a list and a map that agree, with room for one more.
LEMMA EvictionProperties ==
  ASSUME CacheInv, Capacity # 0
  PROVE  /\ EvictedUsage \in Seq(Keys)
         /\ IsInjective(EvictedUsage)
         /\ ToSet(EvictedUsage) = EvictedKeys
         /\ EvictedKeys \subseteq DOMAIN m_keyValue
         /\ IsFiniteSet(EvictedKeys)
         /\ Cardinality(EvictedKeys) + 1 <= Capacity
         /\ Len(EvictedUsage) <= Len(m_keyUsage)
         /\ \A i \in 1 .. Len(EvictedUsage) : EvictedUsage[i] = m_keyUsage[i]
<1> DEFINE D == DOMAIN m_keyValue
<1>1. /\ m_keyUsage \in Seq(Keys) /\ IsInjective(m_keyUsage) /\ ToSet(m_keyUsage) = D
      /\ IsFiniteSet(D) /\ Cardinality(D) <= Capacity
  BY DEF CacheInv, CacheTypeOK, UsageMatchesMap, WithinCapacity
<1>2. Cardinality(D) \in Nat
  BY <1>1, FS_CardinalityType
<1>3. CASE Full
  <2>1. m_keyUsage # <<>>
    <3>1. D # {}
      BY <1>3, FS_EmptySet DEF Full
    <3>2. QED
      BY <1>1, <3>1 DEF ToSet
  <2>2. /\ Front(m_keyUsage) \in Seq(Keys)
        /\ Len(Front(m_keyUsage)) = Len(m_keyUsage) - 1
        /\ \A i \in 1 .. Len(m_keyUsage) - 1 : Front(m_keyUsage)[i] = m_keyUsage[i]
        /\ ToSet(Front(m_keyUsage)) = D \ {Last(m_keyUsage)}
        /\ IsInjective(Front(m_keyUsage))
        /\ Last(m_keyUsage) \in D
    BY <1>1, <2>1, FrontProperties
  <2>3. EvictedUsage = Front(m_keyUsage) /\ EvictedKeys = D \ {Last(m_keyUsage)}
    BY <1>3 DEF EvictedUsage, EvictedKeys
  <2>4. IsFiniteSet(EvictedKeys) /\ Cardinality(EvictedKeys) = Cardinality(D) - 1
    BY <1>1, <2>2, <2>3, FS_RemoveElement
  <2>5. Cardinality(EvictedKeys) + 1 <= Capacity
    BY <1>1, <1>2, <2>4
  <2>6. Len(m_keyUsage) \in Nat
    BY <1>1
  <2>7. QED
    BY <2>2, <2>3, <2>4, <2>5, <2>6
<1>4. CASE ~Full
  <2>1. EvictedUsage = m_keyUsage /\ EvictedKeys = D
    BY <1>4 DEF EvictedUsage, EvictedKeys
  <2>2. Cardinality(D) + 1 <= Capacity
    BY <1>1, <1>2, <1>4, CapacityAssumption DEF Full
  <2>3. Len(m_keyUsage) \in Nat
    BY <1>1
  <2>4. QED
    BY <1>1, <2>1, <2>2, <2>3
<1>5. QED
  BY <1>3, <1>4

\* update() keeps list and map in agreement and within the capacity.
LEMMA UpdateInv ==
  ASSUME CacheInv, NEW key \in Keys, NEW value \in Values, Update(key, value)
  PROVE  CacheInv'
<1>1. CASE Capacity = 0
  BY <1>1 DEF Update, cacheVars, CacheInv, CacheTypeOK, UsageMatchesMap, WithinCapacity
<1>2. CASE Capacity # 0
  <2>1. /\ EvictedUsage \in Seq(Keys) /\ IsInjective(EvictedUsage)
        /\ ToSet(EvictedUsage) = EvictedKeys /\ EvictedKeys \subseteq DOMAIN m_keyValue
        /\ IsFiniteSet(EvictedKeys) /\ Cardinality(EvictedKeys) + 1 <= Capacity
    BY <1>2, EvictionProperties
  <2>2. m_keyUsage' = Used(EvictedUsage, key)
    BY <1>2, <2>1 DEF Update, Used
  <2>3. /\ m_keyUsage' \in Seq(Keys) /\ IsInjective(m_keyUsage')
        /\ ToSet(m_keyUsage') = EvictedKeys \cup {key}
    BY <2>1, <2>2, UsedProperties
  <2>4. m_keyValue' = [k \in EvictedKeys \cup {key} |-> IF k = key THEN value ELSE m_keyValue[k]]
    BY <1>2 DEF Update, With
  <2>5. DOMAIN m_keyValue' = EvictedKeys \cup {key}
    BY <2>4
  <2>6. \A k \in DOMAIN m_keyValue' : m_keyValue'[k] \in Values
    BY <2>1, <2>4 DEF CacheInv, CacheTypeOK
  <2>7. IsFiniteSet(DOMAIN m_keyValue') /\ Cardinality(DOMAIN m_keyValue') <= Capacity
    <3>1. Cardinality(EvictedKeys) \in Nat
      BY <2>1, FS_CardinalityType
    <3>2. /\ IsFiniteSet(EvictedKeys \cup {key})
          /\ \/ Cardinality(EvictedKeys \cup {key}) = Cardinality(EvictedKeys)
             \/ Cardinality(EvictedKeys \cup {key}) = Cardinality(EvictedKeys) + 1
      BY <2>1, FS_AddElement
    <3>3. Cardinality(EvictedKeys \cup {key}) \in Nat
      BY <3>2, FS_CardinalityType
    <3>4. QED
      BY <2>1, <2>5, <3>1, <3>2, <3>3, CapacityAssumption
  <2>8. recency' \in Seq(Keys) /\ IsInjective(recency')
    BY <1>2, UsedProperties DEF CacheInv, CacheTypeOK, Update
  <2>9. CacheTypeOK'
    <3>1. recency' \in Seq(Keys) /\ DOMAIN latest' \subseteq Keys
      BY <1>2, <2>8 DEF Update, With, CacheInv, CacheTypeOK
    <3>2. DOMAIN m_keyValue' \subseteq Keys
      BY <2>1, <2>5 DEF CacheInv, CacheTypeOK
    <3>3. QED
      BY <2>3, <2>6, <3>1, <3>2 DEF CacheTypeOK
  <2>10. QED
    BY <2>3, <2>5, <2>7, <2>8, <2>9 DEF CacheInv, UsageMatchesMap, WithinCapacity
<1>3. QED
  BY <1>1, <1>2

\* get() only reorders the list; clear() empties everything.
LEMMA CacheInvStep == CacheInv /\ [CacheNext]_cacheVars => CacheInv'
<1> SUFFICES ASSUME CacheInv, [CacheNext]_cacheVars PROVE CacheInv'
  OBVIOUS
<1>1. ASSUME NEW key \in Keys, GetFound(key) PROVE CacheInv'
  <2>1. /\ m_keyUsage \in Seq(Keys) /\ IsInjective(m_keyUsage)
        /\ key \in ToSet(m_keyUsage)
    BY <1>1 DEF CacheInv, CacheTypeOK, UsageMatchesMap, GetFound, Found
  <2>2. m_keyUsage' = Used(m_keyUsage, key) /\ recency' = Used(recency, key)
    BY <1>1, <2>1 DEF GetFound, Used
  <2>3. /\ m_keyUsage' \in Seq(Keys) /\ IsInjective(m_keyUsage')
        /\ ToSet(m_keyUsage') = ToSet(m_keyUsage) \cup {key}
    BY <2>1, <2>2, UsedProperties
  <2>4. recency' \in Seq(Keys) /\ IsInjective(recency')
    BY <2>2, UsedProperties DEF CacheInv, CacheTypeOK
  <2>5. ToSet(m_keyUsage') = ToSet(m_keyUsage)
    BY <2>1, <2>3
  <2>6. QED
    BY <1>1, <2>3, <2>4, <2>5
    DEF GetFound, CacheInv, CacheTypeOK, UsageMatchesMap, WithinCapacity
<1>2. ASSUME NEW key \in Keys, NEW value \in Values, Update(key, value) PROVE CacheInv'
  BY <1>2, UpdateInv
<1>3. CASE Clear
  <2>1. DOMAIN m_keyValue' = {} /\ DOMAIN latest' = {}
    BY <1>3 DEF Clear, EmptyMap
  <2>2. Cardinality(DOMAIN m_keyValue') = 0 /\ IsFiniteSet(DOMAIN m_keyValue')
    BY <2>1, FS_EmptySet
  <2>3. m_keyUsage' = <<>> /\ recency' = <<>>
    BY <1>3 DEF Clear
  <2>4. <<>> \in Seq(Keys) /\ IsInjective(<<>>) /\ ToSet(<<>>) = {}
    BY DEF IsInjective, ToSet
  <2>5. CacheTypeOK'
    BY <2>1, <2>3, <2>4 DEF CacheTypeOK
  <2>6. UsageMatchesMap' /\ IsInjective(recency')
    BY <2>1, <2>3, <2>4 DEF UsageMatchesMap
  <2>7. WithinCapacity'
    BY <2>2, CapacityAssumption DEF WithinCapacity
  <2>8. QED
    BY <2>5, <2>6, <2>7 DEF CacheInv
<1>4. CASE UNCHANGED cacheVars
  BY <1>4 DEF cacheVars, CacheInv, CacheTypeOK, UsageMatchesMap, WithinCapacity
<1>5. QED
  BY <1>1, <1>2, <1>3, <1>4 DEF CacheNext, GetMissing

\* An empty list and an empty map agree.
LEMMA CacheInvInit == CacheInit => CacheInv
<1> SUFFICES ASSUME CacheInit PROVE CacheInv
  OBVIOUS
<1>1. Cardinality(DOMAIN m_keyValue) = 0 /\ IsFiniteSet(DOMAIN m_keyValue)
  BY FS_EmptySet DEF CacheInit, EmptyMap
<1>2. QED
  BY <1>1, CapacityAssumption
  DEF CacheInit, EmptyMap, CacheInv, CacheTypeOK, UsageMatchesMap, WithinCapacity, IsInjective,
      ToSet

\* The inductive invariant holds throughout.
LEMMA CacheInvariant == CacheSpec => []CacheInv
<1>1. QED
  BY CacheInvInit, CacheInvStep, PTL DEF CacheSpec

\* Nothing but keys gets into the list and the map, and nothing but values is mapped to.
THEOREM CacheTypes == CacheSpec => []CacheTypeOK
<1>1. CacheInv => CacheTypeOK
  BY DEF CacheInv
<1>2. QED
  BY <1>1, CacheInvariant, PTL

\* List and map have the same keys, each once, so that no iterator dangles.
THEOREM ListMatchesMap == CacheSpec => []UsageMatchesMap
<1>1. CacheInv => UsageMatchesMap
  BY DEF CacheInv
<1>2. QED
  BY <1>1, CacheInvariant, PTL

\* The cache never has more entries than its capacity.
THEOREM CacheBounded == CacheSpec => []WithinCapacity
<1>1. CacheInv => WithinCapacity
  BY DEF CacheInv
<1>2. QED
  BY <1>1, CacheInvariant, PTL

-----------------------------------------------------------------------------
(* Recency and values.                                                     *)

\* s is a prefix of t, element by element.
Leads(s, t) == Len(s) <= Len(t) /\ \A i \in 1 .. Len(s) : s[i] = t[i]

\* Being a prefix, element by element.
LEMMA PrefixPointwise ==
  ASSUME NEW S, NEW s \in Seq(S), NEW t \in Seq(S)
  PROVE  IsPrefix(s, t) <=> Leads(s, t)
<1> DEFINE n == Len(s)
           u == SubSeq(s, 1, n)
           v == SubSeq(t, 1, n)
<1>1. n \in Nat /\ Len(t) \in Nat
  OBVIOUS
<1>2. CASE n <= Len(t)
  <2>1. \A i \in 1 .. n : s[i] \in S /\ t[i] \in S
    BY <1>1, <1>2
  <2> HIDE DEF n
  <2>2. /\ u \in Seq(S) /\ Len(u) = IF 1 <= n THEN n - 1 + 1 ELSE 0
        /\ v \in Seq(S) /\ Len(v) = IF 1 <= n THEN n - 1 + 1 ELSE 0
        /\ \A i \in 1 .. n - 1 + 1 : u[i] = s[1 + i - 1] /\ v[i] = t[1 + i - 1]
    BY <1>1, <2>1, SubSeqProperties, SMTT(30)
  <2> HIDE DEF u, v
  <2>3. n - 1 + 1 = n /\ \A i \in 1 .. n : 1 + i - 1 = i
    BY <1>1
  <2>4. \A i \in 1 .. n : u[i] = s[i] /\ v[i] = t[i]
    BY <2>2, <2>3
  <2>5. Len(u) = n /\ Len(v) = n
    BY <1>1, <2>2
  <2>6. u = v <=> \A i \in 1 .. n : u[i] = v[i]
    BY <2>2, <2>5, SeqEqual
  <2>7. u = v <=> \A i \in 1 .. n : s[i] = t[i]
    BY <2>4, <2>6
  <2>8. QED
    BY <1>2, <2>7 DEF IsPrefix, Leads, u, v, n
<1>3. CASE ~(n <= Len(t))
  BY <1>3 DEF IsPrefix, Leads
<1>4. QED
  BY <1>2, <1>3

\* Using the same key in a list and in one it leads keeps the first leading.
LEMMA UsedLeads ==
  ASSUME NEW S, NEW s \in Seq(S), NEW t \in Seq(S), NEW key \in S,
         IsInjective(s), IsInjective(t), Leads(s, t)
  PROVE  Leads(Used(s, key), Used(t, key))
<1>1. Len(s) \in Nat /\ Len(t) \in Nat /\ DOMAIN s = 1 .. Len(s) /\ DOMAIN t = 1 .. Len(t)
  OBVIOUS
<1>2. Len(s) <= Len(t) /\ \A i \in 1 .. Len(s) : s[i] = t[i]
  BY DEF Leads
<1>3. CASE key \in ToSet(s)
  <2> DEFINE p == Position(s, key)
  <2>1. p \in 1 .. Len(s) /\ s[p] = key
    BY <1>1, <1>3, PositionProperties
  <2>2. t[p] = key /\ key \in ToSet(t)
    BY <1>1, <1>2, <2>1 DEF ToSet
  <2>3. Position(t, key) \in 1 .. Len(t) /\ t[Position(t, key)] = key
    BY <1>1, <2>2, PositionProperties
  <2>4. Position(t, key) = p
    BY <1>1, <1>2, <2>1, <2>2, <2>3 DEF IsInjective
  <2>5. Used(s, key) = Splice(s, p) /\ Used(t, key) = Splice(t, p)
    BY <1>3, <2>2, <2>4 DEF Used
  <2> HIDE DEF p
  <2>6. QED
    BY <1>1, <1>2, <2>1, <2>5, SpliceProperties, SMTT(30) DEF Leads, Splice
<1>4. CASE key \notin ToSet(s) /\ key \in ToSet(t)
  <2> DEFINE q == Position(t, key)
  <2>1. q \in 1 .. Len(t) /\ t[q] = key
    BY <1>1, <1>4, PositionProperties
  <2>2. \A i \in 1 .. Len(s) : s[i] # key
    BY <1>1, <1>4 DEF ToSet
  <2> HIDE DEF q
  <2>3. q > Len(s)
    BY <1>1, <1>2, <2>1, <2>2
  <2>4. /\ Len(Used(s, key)) = Len(s) + 1
        /\ \A i \in 1 .. Len(s) + 1 : Used(s, key)[i] = IF i = 1 THEN key ELSE s[i - 1]
    BY <1>4, ConsProperties DEF Used
  <2>5. /\ Len(Used(t, key)) = Len(t)
        /\ \A i \in 1 .. Len(t) :
             Used(t, key)[i] = IF i = 1 THEN t[q] ELSE IF i <= q THEN t[i - 1] ELSE t[i]
    <3>1. Used(t, key) = Splice(t, q)
      BY <1>4 DEF Used, q
    <3>2. QED
      BY <2>1, <3>1, SpliceProperties
  <2>6. Len(s) + 1 <= Len(t)
    BY <1>1, <2>1, <2>3
  <2>7. ASSUME NEW i \in 1 .. Len(s) + 1
        PROVE  Used(s, key)[i] = Used(t, key)[i]
    <3>1. i \in 1 .. Len(t) /\ i <= q
      BY <1>1, <2>1, <2>3, <2>6
    <3>2. Used(s, key)[i] = IF i = 1 THEN key ELSE s[i - 1]
      BY <2>4
    <3>3. Used(t, key)[i] = IF i = 1 THEN t[q] ELSE IF i <= q THEN t[i - 1] ELSE t[i]
      BY <2>5, <3>1
    <3>4. i # 1 => i - 1 \in 1 .. Len(s)
      BY <1>1
    <3>5. i # 1 => s[i - 1] = t[i - 1]
      BY <1>2, <3>4
    <3>6. QED
      BY <2>1, <3>1, <3>2, <3>3, <3>5
  <2>8. QED
    BY <2>4, <2>5, <2>6, <2>7 DEF Leads
<1>5. CASE key \notin ToSet(s) /\ key \notin ToSet(t)
  <2>1. /\ Len(Used(s, key)) = Len(s) + 1
        /\ \A i \in 1 .. Len(s) + 1 : Used(s, key)[i] = IF i = 1 THEN key ELSE s[i - 1]
        /\ Len(Used(t, key)) = Len(t) + 1
        /\ \A i \in 1 .. Len(t) + 1 : Used(t, key)[i] = IF i = 1 THEN key ELSE t[i - 1]
    <3>1. /\ Len(Cons(key, s)) = Len(s) + 1
          /\ \A i \in 1 .. Len(s) + 1 : Cons(key, s)[i] = IF i = 1 THEN key ELSE s[i - 1]
      BY ConsProperties
    <3>2. /\ Len(Cons(key, t)) = Len(t) + 1
          /\ \A i \in 1 .. Len(t) + 1 : Cons(key, t)[i] = IF i = 1 THEN key ELSE t[i - 1]
      BY ConsProperties
    <3>3. Used(s, key) = Cons(key, s) /\ Used(t, key) = Cons(key, t)
      BY <1>5 DEF Used
    <3>4. QED
      BY <3>1, <3>2, <3>3
  <2>2. ASSUME NEW i \in 1 .. Len(s) + 1
        PROVE  Used(s, key)[i] = Used(t, key)[i]
    <3>1. i \in 1 .. Len(t) + 1
      BY <1>1, <1>2
    <3>2. Used(s, key)[i] = IF i = 1 THEN key ELSE s[i - 1]
      BY <2>1
    <3>3. Used(t, key)[i] = IF i = 1 THEN key ELSE t[i - 1]
      BY <2>1, <3>1
    <3>4. i # 1 => i - 1 \in 1 .. Len(s)
      BY <1>1
    <3>5. i # 1 => s[i - 1] = t[i - 1]
      BY <1>2, <3>4
    <3>6. QED
      BY <3>2, <3>3, <3>5
  <2>3. Len(s) + 1 <= Len(t) + 1
    BY <1>1, <1>2
  <2>4. QED
    BY <2>1, <2>2, <2>3 DEF Leads
<1>6. ToSet(s) \subseteq ToSet(t)
  BY <1>1, <1>2 DEF ToSet
<1>7. QED
  BY <1>3, <1>4, <1>5

\* update() and get() keep the list a prefix of the keys in the order of their use,
\* and eviction takes from the end of it.
LEMMA RecencyStep ==
  ASSUME CacheInv, Leads(m_keyUsage, recency), [CacheNext]_cacheVars
  PROVE  Leads(m_keyUsage, recency)'
<1>1. /\ m_keyUsage \in Seq(Keys) /\ IsInjective(m_keyUsage)
      /\ recency \in Seq(Keys) /\ IsInjective(recency)
      /\ ToSet(m_keyUsage) = DOMAIN m_keyValue
  BY DEF CacheInv, CacheTypeOK, UsageMatchesMap
<1>2. ASSUME NEW key \in Keys, GetFound(key) PROVE Leads(m_keyUsage', recency')
  <2>1. m_keyUsage' = Used(m_keyUsage, key) /\ recency' = Used(recency, key)
    BY <1>1, <1>2 DEF GetFound, Found, Used
  <2>2. QED
    BY <1>1, <2>1, UsedLeads
<1>3. ASSUME NEW key \in Keys, NEW value \in Values, Update(key, value)
      PROVE  Leads(m_keyUsage', recency')
  <2>1. CASE Capacity = 0
    BY <1>3, <2>1 DEF Update, cacheVars
  <2>2. CASE Capacity # 0
    <3>1. /\ EvictedUsage \in Seq(Keys) /\ IsInjective(EvictedUsage)
          /\ ToSet(EvictedUsage) = EvictedKeys
          /\ Len(EvictedUsage) <= Len(m_keyUsage)
          /\ \A i \in 1 .. Len(EvictedUsage) : EvictedUsage[i] = m_keyUsage[i]
      BY <2>2, EvictionProperties
    <3>2. /\ Len(EvictedUsage) \in Nat /\ Len(m_keyUsage) \in Nat /\ Len(recency) \in Nat
      BY <1>1, <3>1
    <3>3. Leads(EvictedUsage, recency)
      BY <3>1, <3>2 DEF Leads
    <3>4. m_keyUsage' = Used(EvictedUsage, key) /\ recency' = Used(recency, key)
      BY <1>3, <2>2, <3>1 DEF Update, Used
    <3>5. QED
      BY <1>1, <3>1, <3>3, <3>4, UsedLeads
  <2>3. QED
    BY <2>1, <2>2
<1>4. CASE Clear
  BY <1>4 DEF Clear, Leads
<1>5. CASE UNCHANGED cacheVars
  BY <1>5 DEF cacheVars
<1>6. QED
  BY <1>2, <1>3, <1>4, <1>5 DEF CacheNext, GetMissing, Leads

\* What is kept is what was used last, for any capacity.
THEOREM EvictsLeastRecent == CacheSpec => []KeptAreMostRecent
<1>1. CacheInit => Leads(m_keyUsage, recency)
  BY DEF CacheInit, Leads
<1>2. CacheInv /\ Leads(m_keyUsage, recency) /\ [CacheNext]_cacheVars
        => Leads(m_keyUsage, recency)'
  BY RecencyStep
<1>3. CacheInv /\ Leads(m_keyUsage, recency) => KeptAreMostRecent
  BY PrefixPointwise DEF CacheInv, CacheTypeOK, KeptAreMostRecent
<1>4. QED
  BY <1>1, <1>2, <1>3, CacheInvariant, PTL DEF CacheSpec

\* A cached value is the value of the last update, whatever was evicted meanwhile.
THEOREM NothingStale == CacheSpec => []ValuesAreLatest
<1>1. CacheInit => ValuesAreLatest
  BY DEF CacheInit, EmptyMap, ValuesAreLatest
<1>2. CacheInv /\ ValuesAreLatest /\ [CacheNext]_cacheVars => ValuesAreLatest'
  <2> SUFFICES ASSUME CacheInv, ValuesAreLatest, [CacheNext]_cacheVars PROVE ValuesAreLatest'
    OBVIOUS
  <2>1. ASSUME NEW key \in Keys, GetFound(key) PROVE ValuesAreLatest'
    BY <2>1 DEF GetFound, ValuesAreLatest
  <2>2. ASSUME NEW key \in Keys, NEW value \in Values, Update(key, value)
        PROVE  ValuesAreLatest'
    <3>1. CASE Capacity = 0
      BY <2>2, <3>1 DEF Update, cacheVars, ValuesAreLatest
    <3>2. CASE Capacity # 0
      <4>1. EvictedKeys \subseteq DOMAIN m_keyValue
        BY DEF EvictedKeys
      <4>2. m_keyValue' = [k \in EvictedKeys \cup {key} |->
                             IF k = key THEN value ELSE m_keyValue[k]]
        BY <2>2, <3>2 DEF Update, With
      <4>3. latest' = [k \in DOMAIN latest \cup {key} |-> IF k = key THEN value ELSE latest[k]]
        BY <2>2, <3>2 DEF Update, With
      <4>4. QED
        BY <4>1, <4>2, <4>3 DEF ValuesAreLatest
    <3>3. QED
      BY <3>1, <3>2
  <2>3. CASE Clear
    BY <2>3 DEF Clear, EmptyMap, ValuesAreLatest
  <2>4. CASE UNCHANGED cacheVars
    BY <2>4 DEF cacheVars, ValuesAreLatest
  <2>5. QED
    BY <2>1, <2>2, <2>3, <2>4 DEF CacheNext, GetMissing
<1>3. QED
  BY <1>1, <1>2, CacheInvariant, PTL DEF CacheSpec
=============================================================================
