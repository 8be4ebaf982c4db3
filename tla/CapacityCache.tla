--------------------------- MODULE CapacityCache ----------------------------
(***************************************************************************)
(* Plugin::CapacityCache: a map with a list of its keys in the order of    *)
(* their last use, the most recent first.  update() evicts the last key    *)
(* when the map is full, before it looks whether the key is there already. *)
(*                                                                         *)
(* The iterator a map entry keeps is the list node of its key: it is       *)
(* modelled as the position of the key in the list.                        *)
(***************************************************************************)
EXTENDS SequencesExt

CONSTANTS Keys, Values, Capacity

ASSUME CapacityAssumption == Capacity \in Nat

VARIABLES
  m_keyUsage,   \* the list
  m_keyValue,   \* the map, a function on the keys it has
  recency,      \* history: every key used since the last clear, latest use first
  latest        \* history: the value of the last update since the last clear

cacheVars == <<m_keyUsage, m_keyValue, recency, latest>>

EmptyMap == [key \in {} |-> {}]

Position(s, key) == CHOOSE i \in 1 .. Len(s) : s[i] = key

\* list::splice of the node at position p to the front.
Splice(s, p) ==
  [i \in 1 .. Len(s) |-> IF i = 1 THEN s[p] ELSE IF i <= p THEN s[i - 1] ELSE s[i]]

Found(key) == key \in DOMAIN m_keyValue
\* (mutant) one entry too late.
FullTooLate == Cardinality(DOMAIN m_keyValue) > Capacity
Full == Cardinality(DOMAIN m_keyValue) = Capacity

\* A key is used: it is the most recent one.
Used(s, key) == IF key \in ToSet(s) THEN Splice(s, Position(s, key)) ELSE Cons(key, s)

CacheInit ==
  /\ m_keyUsage = <<>>
  /\ m_keyValue = EmptyMap
  /\ recency = <<>>
  /\ latest = EmptyMap

\* (mutant) a hit does not count as a use.
GetWithoutSplice(key) ==
  /\ Found(key)
  /\ recency' = Used(recency, key)
  /\ UNCHANGED <<m_keyUsage, m_keyValue, latest>>

\* get() of a key that is there; the value is m_keyValue[key].
GetFound(key) ==
  /\ Found(key)
  /\ m_keyUsage' = Splice(m_keyUsage, Position(m_keyUsage, key))
  /\ recency' = Used(recency, key)
  /\ UNCHANGED <<m_keyValue, latest>>

\* get() of any other key does nothing.
GetMissing(key) == ~Found(key) /\ UNCHANGED cacheVars

\* evict(): the list and the keys of the map without the least recently used one.
EvictedUsage == IF Full THEN Front(m_keyUsage) ELSE m_keyUsage
EvictedKeys == IF Full THEN DOMAIN m_keyValue \ {Last(m_keyUsage)} ELSE DOMAIN m_keyValue

With(map, keys, key, value) ==
  [k \in keys \cup {key} |-> IF k = key THEN value ELSE map[k]]

\* (mutant) the map has the key, but it is added to the list once more.
UpdateDuplicates(key, value) ==
  /\ m_keyUsage' = Cons(key, EvictedUsage)
  /\ m_keyValue' = With(m_keyValue, EvictedKeys, key, value)
  /\ recency' = Used(recency, key)
  /\ latest' = With(latest, DOMAIN latest, key, value)

\* (mutant) map::insert, which keeps the value of a key that is there.
UpdateInserts(key, value) ==
  /\ m_keyUsage' = IF key \in EvictedKeys
                   THEN Splice(EvictedUsage, Position(EvictedUsage, key))
                   ELSE Cons(key, EvictedUsage)
  /\ m_keyValue' = With(m_keyValue, EvictedKeys, key,
                        IF key \in EvictedKeys THEN m_keyValue[key] ELSE value)
  /\ recency' = Used(recency, key)
  /\ latest' = With(latest, DOMAIN latest, key, value)

\* (mutant) the value goes into the list.
UpdateListsValue(key, value) ==
  /\ m_keyUsage' = Cons(value, EvictedUsage)
  /\ m_keyValue' = With(m_keyValue, EvictedKeys, key, value)
  /\ recency' = Used(recency, key)
  /\ latest' = With(latest, DOMAIN latest, key, value)

\* A cache of capacity 0 stores nothing.
Update(key, value) ==
  IF Capacity = 0 THEN UNCHANGED cacheVars
  ELSE /\ m_keyUsage' = IF key \in EvictedKeys
                        THEN Splice(EvictedUsage, Position(EvictedUsage, key))
                        ELSE Cons(key, EvictedUsage)
       /\ m_keyValue' = With(m_keyValue, EvictedKeys, key, value)
       /\ recency' = Used(recency, key)
       /\ latest' = With(latest, DOMAIN latest, key, value)

Clear ==
  /\ m_keyUsage' = <<>>
  /\ m_keyValue' = EmptyMap
  /\ recency' = <<>>
  /\ latest' = EmptyMap

CacheNext ==
  \/ \E key \in Keys : GetFound(key) \/ GetMissing(key)
  \/ \E key \in Keys, value \in Values : Update(key, value)
  \/ Clear

CacheSpec == CacheInit /\ [][CacheNext]_cacheVars

-----------------------------------------------------------------------------
(* Properties.                                                             *)

\* The list is a list of keys, the map maps keys to values.
CacheTypeOK ==
  /\ m_keyUsage \in Seq(Keys)
  /\ recency \in Seq(Keys)
  /\ DOMAIN m_keyValue \subseteq Keys
  /\ DOMAIN latest \subseteq Keys
  /\ \A key \in DOMAIN m_keyValue : m_keyValue[key] \in Values

\* The list has each key of the map exactly once: every iterator kept in the map
\* is valid, and evict() finds the key it takes from the back of the list.
UsageMatchesMap ==
  /\ IsInjective(m_keyUsage)
  /\ ToSet(m_keyUsage) = DOMAIN m_keyValue

\* The size test with == never lets the map grow past its capacity.
WithinCapacity ==
  /\ IsFiniteSet(DOMAIN m_keyValue)
  /\ Cardinality(DOMAIN m_keyValue) <= Capacity

\* Eviction is by recency: whatever get() and update() did, the keys kept are the
\* most recently used ones, in the order of their use.
KeptAreMostRecent == IsPrefix(m_keyUsage, recency)

\* An entry never holds an older value than the last one update() was given,
\* also for a key that was evicted and came back.
ValuesAreLatest ==
  \A key \in DOMAIN m_keyValue : key \in DOMAIN latest /\ m_keyValue[key] = latest[key]
=============================================================================
