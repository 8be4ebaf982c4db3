---------------------------- MODULE Translation -----------------------------
(***************************************************************************)
(* The strings a request travels in: src/common/translator/Translator.cpp  *)
(* and the key of the service plugin's cache.  Names are written with      *)
(* their lengths in front and may hold any character, digits, separators   *)
(* and spaces included.  One request at a time goes from the service       *)
(* plugin to the agent, to the queue of its user and to the popup, and a   *)
(* decision for life comes back to the cache.                              *)
(***************************************************************************)
EXTENDS Integers, SequencesExt

CONSTANTS Names,       \* clients, users and privileges: strings without NUL
          RequestIds,  \* ids cynara gives to requests
          Leftovers    \* what may lie behind the daemon's buffer, up to a NUL

ASSUME NamesAssumption ==
  \A s \in Names \cup Leftovers : s \in Seq(Nat) /\ 0 \notin ToSet(s)
ASSUME RequestIdsAssumption == RequestIds \subseteq 0 .. 2 ^ 16 - 1 /\ RequestIds # {}

\* Characters are their codes.
SOH == 1
Blank == 32
Zero == 48
Digits == Zero .. Zero + 9

-----------------------------------------------------------------------------
(* std::to_string and std::stringstream.                                   *)

toString[n \in Nat] ==
  IF n < 10 THEN <<Zero + n>> ELSE Append(toString[n \div 10], Zero + (n % 10))

\* How many of the first characters of s are in the set chars.
Span(s, chars) == Max({n \in 0 .. Len(s) : \A i \in 1 .. n : s[i] \in chars})

Drop(s, n) == SubSeq(s, n + 1, Len(s))

\* The number that the characters are the digits of.
toNumber(digits) ==
  LET number[n \in 0 .. Len(digits)] ==
        IF n = 0 THEN 0 ELSE 10 * number[n - 1] + (digits[n] - Zero)
  IN number[Len(digits)]

\* operator>> of a number skips spaces and takes the digits that follow.
Extracted(stream) ==
  LET s == Drop(stream, Span(stream, {Blank}))
      n == Span(s, Digits)
  IN [value |-> toNumber(SubSeq(s, 1, n)), rest |-> Drop(s, n)]

\* (mutant) the members are taken up to the next space.
MemberToSpace(stream) ==
  LET s == Drop(Extracted(stream).rest, 1)
      n == Span(s, {x \in ToSet(s) : x # Blank})
  IN [value |-> SubSeq(s, 1, n), rest |-> Drop(s, n)]

\* A length, a separator and so many characters; the buffer is filled with NULs.
Member(stream) ==
  LET strSize == Extracted(stream)
      s == Drop(strSize.rest, 1)
  IN [value |-> [n \in 1 .. strSize.value |-> IF n <= Len(s) THEN s[n] ELSE 0],
      rest |-> Drop(s, strSize.value)]

-----------------------------------------------------------------------------
(* The translators.                                                        *)

Field(name) == toString[Len(name)] \o <<Blank>> \o name \o <<Blank>>

\* Plugin::requestToData
requestToData(key) == Field(key.client) \o Field(key.user) \o Field(key.privilege)

\* Agent::dataToRequest
dataToRequest(data) ==
  LET client == Member(data)
      user == Member(client.rest)
      privilege == Member(user.rest)
  IN [client |-> client.value, user |-> user.value, privilege |-> privilege.value]

\* Gui::notificationRequestToData
notificationRequestToData(i, client, privilege) ==
  toString[i] \o <<Blank>> \o Field(client) \o Field(privilege) \o <<Blank>>

\* (mutant) the privilege is what is left of the buffer.
dataToNotificationRequestEnd(data) ==
  LET number == Extracted(data)
      client == Member(Drop(number.rest, 1))
      privilege == Drop(Extracted(client.rest).rest, 1)
  IN [id |-> number.value, client |-> client.value, privilege |-> SubSeq(privilege, 1, Len(privilege) - 2)]

\* Gui::dataToNotificationRequest
dataToNotificationRequest(data) ==
  LET number == Extracted(data)
      client == Member(Drop(number.rest, 1))
      privilege == Member(client.rest)
  IN [id |-> number.value, client |-> client.value, privilege |-> privilege.value]

\* (mutant) the key without the lengths.
hasherOfNames(key) == key.client \o key.user \o key.privilege

\* The plugin's hasher: the names joined, and their lengths behind them.
hasher(key) ==
  key.client \o key.user \o key.privilege
    \o <<SOH>> \o toString[Len(key.client)]
    \o <<SOH>> \o toString[Len(key.user)]
    \o <<SOH>> \o toString[Len(key.privilege)]

-----------------------------------------------------------------------------
(* The way of a request.                                                   *)

VARIABLES
  stage,     \* where the request is
  key, id,   \* what cynara asks about, and the id it gives the request
  data,      \* the string on its way
  request,   \* what the agent has read out of it
  popup,     \* what the daemon has read out of it
  m_cache    \* bound: the last decision for life, under its key in the cache

vars == <<stage, key, id, data, request, popup, m_cache>>

Keys == [client : Names, user : Names, privilege : Names]
NoKey == [client |-> <<>>, user |-> <<>>, privilege |-> <<>>]
NoPopup == [id |-> 0, client |-> <<>>, privilege |-> <<>>]

\* What was in hand does not matter to the next request.
Idle ==
  /\ stage' = "idle"
  /\ key' = NoKey /\ id' = 0 /\ data' = <<>> /\ request' = NoKey /\ popup' = NoPopup

Init ==
  /\ stage = "idle"
  /\ key = NoKey /\ id = 0 /\ data = <<>> /\ request = NoKey /\ popup = NoPopup
  /\ m_cache = {}

\* check finds a decision in the cache or makes the data for the agent.
check(k, i) ==
  /\ stage = "idle"
  /\ key' = k /\ id' = i
  /\ IF \E entry \in m_cache : entry.hash = hasher(k)
     THEN stage' = "found" /\ UNCHANGED data
     ELSE stage' = "asked" /\ data' = requestToData(k)
  /\ UNCHANGED <<request, popup, m_cache>>

decided == stage = "found" /\ Idle /\ UNCHANGED m_cache

\* startUIForRequest: the talker queues the request for its user.
startUI ==
  /\ stage = "asked"
  /\ stage' = "queued"
  /\ request' = dataToRequest(data)
  /\ UNCHANGED <<key, id, data, popup, m_cache>>

\* sendRequest, and what the daemon makes of it: its buffer has the size of the
\* data and no NUL at its end, so that the string made of it goes on with whatever
\* lies behind.
show(leftover) ==
  /\ stage = "queued"
  /\ stage' = "shown"
  /\ data' = notificationRequestToData(id, request.client, request.privilege)
  /\ popup' = dataToNotificationRequest(data' \o leftover)
  /\ UNCHANGED <<key, id, request, m_cache>>

\* The answer comes back to the plugin: for life, or for this once.
update ==
  /\ stage = "shown"
  /\ Idle
  /\ m_cache' \in {m_cache, {[hash |-> hasher(key), names |-> key]}}

Next ==
  \/ \E k \in Keys, i \in RequestIds : check(k, i)
  \/ decided
  \/ startUI
  \/ \E leftover \in Leftovers : show(leftover)
  \/ update

Spec == Init /\ [][Next]_vars

-----------------------------------------------------------------------------
\* The agent gets the names the plugin was asked about, so that it queues the
\* request for the right user: whatever they hold, no name runs into another.
AgentGetsTheRequest == stage = "queued" => request = key

\* The popup shows the client and the privilege that were asked about, and its
\* answer will carry the id of the request, whatever lies behind the buffer.
PopupShowsTheRequest ==
  stage = "shown" =>
    popup = [id |-> id, client |-> key.client, privilege |-> key.privilege]

\* A decision is found in the cache only for the client, the user and the privilege
\* it was made for: keys of different names never collide.
HitsAreOwn == stage = "found" => \E entry \in m_cache : entry.names = key
=============================================================================
