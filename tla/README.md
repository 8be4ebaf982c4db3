# Ask-user: a verification project

The repository implements the *ask user* policy of the cynara access-control
service: when an application's privilege check needs the user's consent, a
plugin in cynara hands the check to an agent, the agent has a popup shown, and
the answer comes back as a policy type.  This directory has TLA+ models of the
parts that carry this logic, TLC runs that check them on small instances, and
proofs, checked by TLAPS, of what matters most for every instance.

Paths below are relative to the repository's root.

## 1. The system

| part | code | state | operations |
|---|---|---|---|
| client plugin | `src/plugin/client/ClientPlugin.cpp` | none (the client library keeps one result per key) | `isCacheable`, `isUsable`, `toResult` |
| service plugin | `src/plugin/service/ServicePlugin.cpp` | `m_cache` | `check`, `update`, `invalidate` |
| capacity cache | `src/plugin/service/CapacityCache.h` | `m_keyUsage`, `m_keyValue` | `get`, `update`, `evict`, `clear` |
| agent, main thread | `src/agent/main/Agent.cpp`, `main.cpp` | `m_incomingRequests`, `m_incomingResponses`, `m_requests`, `m_UIs`, `m_stopFlag` | loop, `processCynaraRequest`, `processUIResponse`, `dismissUI`, `cleanupUIThreads`, `finish` |
| cynara thread | `src/agent/main/CynaraTalker.cpp` | `m_cynara`, the promise `m_threadFinished` | `start`, `stop`, `run`, `sendResponse` |
| backend | `src/agent/ui/NotificationBackend.cpp` | static `m_idToInstance`, one object per request | `start`, `responseCb`, `dismiss`, destructor |
| notification thread | `src/agent/main/NotificationTalker.cpp` | a queue of requests per user, `m_userToFd`, `m_fdToUser`, `m_fdStatus`, `m_failed`, `m_stopflag` | `parseRequest`, `run` and what it calls |
| notification daemon | `src/agent/notification-daemon/` | one socket, one popup, per user session | `AskUserTalker::run`, `shouldDismiss`, `GuiRunner::popupRun` |
| translator, types | `src/common/translator/`, `src/common/types/` | none | encodings and conversions |
| sockets | `src/common/socket/` | the descriptor set of a select | `recv`, `send`, `SelectRead` |

How they interact:

```
 application -- client plugin == cynara == service plugin (CapacityCache)
                                   |
                                   |  agent protocol (external library)
                            CynaraTalker thread
                                   |  m_incomingRequests (m_mutex, m_event)
                               main thread ------ sendResponse ---> cynara
                                   |  NotificationBackend::start / dismiss (m_bfLock)
                        NotificationTalker thread
                                   |  responseCb (m_instanceGuard) -> m_incomingResponses
                                   |
                              unix socket, one per user
                                   |
                          notification daemon, popup
```

What is hard in it: three threads of the agent with four locks, of which one
(`m_bfLock`) is held across a select; a condition variable waited for without a
predicate; matching of answers and requests by an id that cynara uses again;
raw pointers reached by callbacks while their objects are destroyed; failures of
the notification thread at any moment; a cancel that crosses an answer; a cache
with two histories that must agree; decisions of three scopes (once, session,
life) that must never serve a check outside their scope; one-byte codes that
share a stream with requests and have no frame of their own; names written with
their lengths in front.  `PROJECT.json` lists
each such place as a hazard, at its line.

What makes each part correct:

* **cache** - list and map have the same keys, the capacity holds, eviction is
  by recency, no value is older than the last update;
* **plugins** - a check returns what a decision for its own key says: its own
  answer, the last decision for life, or the last one of its session; per-life
  types stay in the service;
* **agent** - each accepted request is closed by one step, which sends at most
  one answer, and the answer is the user's for that id; no callback meets a dead
  object; no request is forgotten; a stop ends the process; no notification is
  lost for good;
* **notification thread and daemon** - an answer is applied to the request that
  was shown, each answer is acknowledged once, a cancel removes the request and
  its popup, a lost connection loses no request, queued requests get answered;
* **translator** - the agent and the popup get the names the plugin was asked
  about, and no two keys of the service's cache collide.

## 2. The modules

| module | what it is |
|---|---|
| `AskUserTypes` | the enumerations and the conversions of an answer, from the popup's button to plugin data and back to a policy type |
| `AgentContract` | abstract specification of the agent seen from cynara |
| `NotificationService` | abstract specification of the notification thread seen from the agent's main thread |
| `Agent` | the agent process: its three threads, locks and failures |
| `MCAgent` | symmetry for the runs of `Agent` |
| `AgentProofs` | theorems about `Agent` |
| `CapacityCache` | the cache with its list and its map |
| `CapacityCacheProofs` | theorems about `CapacityCache` |
| `AskUserPlugins` | the path of a check through both plugins |
| `MCAskUserPlugins` | the answers and the symmetry of its run |
| `AskUserPluginsProofs` | theorems about `AskUserPlugins` |
| `Sockets` | the connections between agent and daemons: ends, queues of messages, backlog |
| `NotificationTalker` | the agent's side: queues per user, the three maps, the loop |
| `NotificationDaemon` | the daemon's side: requests, popup, answers, acknowledgements, restarts |
| `AskUserProtocol` | both sides together: next-state relation, fairness, properties |
| `AskUserProtocolProofs` | theorems about the maps of the connections, the types of queues, streams and daemons, and what a cancel removes |
| `AskUserProtocolServiceProofs` | `AskUserProtocol` implements `NotificationService` |
| `AskUserProtocolAnswerProofs` | theorems about whose answers are taken, and that they come |
| `AskUserProtocolOrderProofs` | theorems about the order of messages to a daemon; extends the above |
| `Translation` | the strings a request travels in, character by character, and the key of the service's cache |
| `MCTranslation` | the names of its run |
| `TranslationProofs` | theorems about `Translation`, for strings of any characters and lengths |

### Agent

Every thread has a program counter: `main`, `cynara`, `talker`.  A lock that is
held over several steps is a predicate of the counters (`MutexHeld`,
`BfLockHeld`, `InstanceGuardHeld`); a critical section that cannot block is one
step that needs the lock free.  The loop of `Agent::run` is `Test`, `Wake`,
`PopRequest`, `PopResponse`, `NothingToPop`, `Relock`, `Cleanup`; a request in
hand goes through `ProcessClose`, `CancelKnown`, `DropRequest` or `StartUI` -
`InsertInstance` - `Submit`, a response through `ProcessUIResponse`; both may go
on to `Dismiss` - `Destroy`.  `FinishJoin`, `FinishTimeout`, `FinishCleanup` and
`StopTalker` are the end of the process.

Undefined behaviour is a choice: `start()` writes `m_idToInstance` without its
lock, so a lookup during the write may miss an entry that is there
(`MissInstance`); a failed notification thread walks over its queues without a
lock while the main thread changes them (`Submit`, `Dismiss`).  What these races
can lose is in the history variable `lost`, and `NoForgottenRequest` is about
everything else.

The notification thread is abstract here: `uiQueue` counts in how many users'
queues an id is, `unreported` how often a thread that has failed has yet to
answer it.  The counts are needed because a cancel may miss its request
(`removeRequest` returns early), after which the id can be queued for a second
user.  `NotificationTalker` below has the thread in detail, with the locking
abstracted in turn: an iteration of its loop excludes `parseRequest`, as
`m_bfLock` does.  What joins the two is `NotificationService`: `Agent`'s thread
does nothing that it does not allow (`AssumesService`), and the talker with its
daemons implements it (`ImplementsService`).

External: cynara's agent library.  Its calls succeed or fail at will; it asks
with an id at most `MaxAsk` times and cancels at most `MaxCancel` times.

### CapacityCache

The list is a sequence, the map a function on the keys it has; the iterator kept
in a map entry is the position of the key in the list, which is right exactly as
long as `UsageMatchesMap` holds.  `recency` and `latest` are histories: every
key used since the last clear in the order of use, and the last value given for
each.

### AskUserPlugins

A check starts in the client library (`CheckFromSession`, `CheckAtService`),
meets `check()` in the service (`CheckHit`, `CheckMiss`), waits for the agent,
meets `update()` (`UpdateSucceeds`, `UpdateFails`) and returns to the client
(`TakeReply`).  Every one of these is a step of its own, so that checks overtake
each other and meet `invalidate` and evictions between any two.  The cache is
an instance of `CapacityCache`.  Histories: `basis` is the decision a reply goes
back to, found in the histories and not in the caches; `told` is the last
per-session answer of each session; `outcome` is the last result returned.

External: the client library, of which the plugin's interface and its use in
cynara are modelled (one entry per key with the session it was stored in), and
cynara's own handling of the predefined types.  A key stands for a triple of
client, user and privilege: that `hasher` tells them apart is checked in
`Translation` and proved in `TranslationProofs` (`HitsAreOwn`).

### NotificationTalker, NotificationDaemon, AskUserProtocol

A connection of `Sockets` has two ends, an owner (the user whose credentials
the agent reads) and a queue of messages each way; closing an end drops what it
has not read, and a reader sees what was sent before the other end was closed,
then the end of the stream.

`loop` is where the agent's thread is: `idle` between iterations, then `accept`,
`recv`, `send`.  `addRequest` and `removeRequest` run in `idle` only, since an
iteration holds `m_bfLock`.  `Select` takes the snapshot that the later steps
work through; `newConnection`, `Disconnected`, `TakesStale`, `TakesAnswer` and
`sendRequest` serve one descriptor each.  `m_requests`, `m_userToFd`,
`m_fdToUser` and `m_fdStatus` are partial functions, entries that `operator[]`
makes included: `removeRequest` depends on them, since it walks over the users
in order and returns at the first whose queue lacks the id (`Reached`).
`asked` is what the agent knows of an id: free, asked, answered.

Undefined behaviour is a choice: `remove` called from a range-for erases the
element the loop stands on, after which the loop may go on, miss any of the
rest, or crash the process (`Crash`); the select of `shouldDismiss` reads an
uninitialized `m_nfds` and may fail (`SelectFails`); an exception that leaves
the graphical loop is caught by `popupRun` or ends the process (`Throws`).

A daemon is `down`, `waiting`, in its `popup`, `closing` it, `sending` the
answer or `acking`.  The timer's polling goes on while the popup is closing, so
that it may meet the next request (`IncorrectDismissFlag`); clicks do too.
Every exit of the process closes its socket and leaves it `down`, from where
systemd's `Restart=always` makes it connect again.

The size of a request matters in three ways, each a set of ids.  A request of
`Oversized` is longer than 8192 bytes and ends the daemon each time it gets it
(`SizeExceedsLimits`).  A size in `AckSized` or `DismissSized` has the code of an
acknowledgement or a dismissal as its low byte, which is the first one on the
stream: where the daemon expects a code, `ReadsAs` takes it for one.  What is left
of a request that has lost its first byte is `Rest` (`AfterByte`).  The next eight
bytes taken for a size end in a character of the request, which makes them
larger than the limit.

### Translation

One request at a time goes through `requestToData`, `dataToRequest`,
`notificationRequestToData` and `dataToNotificationRequest`, characters being
their codes.  A stream's `operator>>` skips spaces and takes digits
(`Span`, `toNumber`, together `Extracted`); a name is taken by the length in front of it (`Member`), from a
buffer of NULs that a stream too short leaves unfilled.  The daemon makes a
string of a buffer that has no NUL at its end: `Leftovers` is what may lie
behind it.  `check` and `update` are the cache reduced to one entry, found by
`hasher`.

## 3. The runs

| run | instance | what it shows |
|---|---|---|
| `agent` | 2 ids, each asked and cancelled once, answers Allow and Never | answers are the user's, callbacks meet live objects, nothing is forgotten, only consent becomes a grant, `AgentContract` is implemented |
| `agent_reuse` | 1 id asked 3 times, cancelled once | an id used again meets answers, cancels and dismissals of its earlier use: at most one response per request, the maps agree, and the notification thread is one `NotificationService` allows |
| `agent_live` | 1 id asked twice, cancelled once, fair threads | a stop ends the process; a pushed response is processed |
| `agent_stop` | 1 id | finding: after a failed initialisation `CynaraTalker::stop` calls a finished thread unfinished |
| `cache` | 4 keys, 2 values, capacity 3 | all five properties of the cache |
| `plugins` | 1 process, 2 sessions, 2 keys, capacity 1, 2 checks in flight, 9 answers | outcomes follow decisions, per-life types stay, the cache is used as specified |
| `protocol` | 1 user, 2 connections, 2 ids in 3 requests, the size of one looks like an acknowledgement, that of the other like a dismissal, 1 death of the daemon | no connection stalls, popups are current, answers are those clicked, a daemon that waits is at the beginning of a request or of a torn one |
| `protocol_users` | 2 users, 3 connections, 2 ids, 1 death | the maps agree, no id is queued twice for a user, no request is lost, settings are made of answers the agent has taken, a cancel misses its request only behind another user's queue, `NotificationService` is implemented |
| `protocol_live` | as `protocol`, 2 requests of which one is oversized, fair | every request is answered, taken back or reported, once no oversized one is queued |
| `protocol_cancel` | 2 users | finding: a cancel does not remove its request when an earlier user is known |
| `protocol_ack_size` | 1 user, 2 ids, one of them with a size that looks like an acknowledgement | finding: the answer to a cancelled request becomes a setting |
| `translation` | 6 names, 2 ids, 3 leftovers | the encodings give back what went into them, keys do not collide |

Why the bounds are enough: the agent's steps about one id depend on other ids
only through the queues' order and the locks, so two ids show interference and a
third adds a longer queue; three uses of one id let a stale answer, a stale
cancel and a stale dismissal meet a live request.  Four keys over a capacity of
three let a key be evicted, return and be updated while the cache is full.  In
the plugins' run a capacity of one makes every second key evict the first, two
sessions in one process compete for one client entry, and two checks in flight
overtake each other.  In the protocol a user's queue and connection meet those of
others only in `removeRequest` and in the two range-for loops, so that two users
show all of it; three requests let an id be asked again while the answer to its
first use is on its way and another request is queued; two connections of one
user are the old one and the new one; one death makes a daemon come back, and
"Incorrect ack" and "Incorrect dismiss flag" do so without any bound.  The names of `translation`
are the empty one, a digit, a space, what looks like a length between separators,
what looks like the tail of a key, and one of eleven digits, whose length has two
digits; the ids 7 and 65535 are one digit and the most a 16-bit id can have.  An
encoding treats characters as digits, spaces, the separator of keys and others,
and of the last kind nothing depends on which.  The proofs below have none of
these bounds.

### Fairness

`FairSpec` has weak fairness of the main thread's loop, of `Finish`, of the
notification thread's own progress and of `CynaraFinish`: threads that can run
do run, `wait_for` ends after a second and `select` after 100 ms.  `Submit` and
`Dismiss` have strong fairness: the notification thread frees `m_bfLock` once
per iteration and takes it again at once, so a weakly fair main thread might
never get it.  No fairness is assumed of the user, of cynara, of failures, of
SIGTERM or of the data race.

`FairSpec` of `AskUserProtocol` has weak fairness of the agent's loop (select
ends after 100 ms), of each daemon's own steps, of `Connect` (systemd) and of a
click in a popup that is shown: a user who never answers is not asked a second
question.  Deaths, cancels, failures and the stop are not fair.
`RequestsAreAnswered` is about behaviours in which no oversized request stays
queued for good: one at the front of a queue ends every life of its user's
daemon, and nothing but a cancel takes it away.

## 4. What is proved

All theorems are for every value of the constants that the named assumptions
allow.  Every invariant and every action property that a passing run checks is
proved.

* `AgentProofs`: `TypeCorrect`; `MapsAgree` (`Registry`: an open request has a
  backend, the static map has exactly the backends that exist); `CallbackSafe`;
  `AnswersFaithful`; `AgentImplementsContract`; `AgentAssumesService`;
  `NothingForgotten`; `AtMostOneResponse`; `ConsentCorrect`.  The inductive invariant of the first
  five is `TypeOK /\ Registry /\ Provenance`.  `Registry` is needed because
  `m_idToInstance` is changed at other places than `m_UIs` and `m_requests`:
  only with what the main thread has in hand at each program counter does the
  agreement survive a step.  `Provenance` follows a decision from the callback
  through the response queue into the main thread's hand; without it the answer
  sent could not be traced to a decision.  `NothingForgotten` needs
  `TalkerPhase`: the thread is in its loop only before `m_failed` is set and
  reports only after, so that a request submitted in the gap between the end of
  the loop and `m_failed` is still walked over.  `AtMostOneResponse` counts
  for each id what may still be answered: the requests in the queue, the one in hand, the one open, and the
  responses sent never exceed the requests made (`AllAccounted`).
  `ConsentCorrect` adds the conversions on both sides of cynara to
  `AnswersFaithful`: what the plugin reads in an answer is one policy type, and
  not a grant unless the user pressed Allow (`MeaningRead`).  Assumption:
  `AgentAssumption`.
* `CapacityCacheProofs`: `CacheTypes`, `ListMatchesMap`, `CacheBounded`,
  `EvictsLeastRecent`, `NothingStale`, from the invariant `CacheInv` (types,
  agreement of list and map, capacity, no repetition in the history) and lemmas
  about the list operations.  That the list leads the history is kept by using
  the same key in both (`UsedLeads`) and by eviction from the end.  Assumption:
  `CapacityAssumption`.
* `AskUserPluginsProofs`: `PluginsTypeCorrect`, `AccessFollowsDecision`,
  `LifeDecisionsStay`, `PluginUsesCache`, from `IInv`: every copy of a decision -
  in the service's cache, in a reply, in a client's cache - still says what it
  was made from.  Assumption: `AnswersAssumption`, an agent answers with text,
  with a policy type of the client or with a number beyond 16 bits.
* `AskUserProtocolProofs`: `ConnectionsAgree`, `ProtocolTypeCorrect`,
  `CancelIsExact`, `CancelRemovesForOne`.  The invariant `IInv` adds to
  `ConnectionMaps` that a pending connection is in the backlog once and not yet
  in the maps, and that what the loop has yet to serve is connected; without the
  second a reply could be sent to a descriptor that is closed.  The heart is
  `ForgetKeepsMaps`: removing descriptors from three maps that agree leaves
  three maps that agree.  The types need `TInv` besides, which adds that a daemon that is about to send has an answer (`HasAnswer`)
  and that the send loop looks only at users whose queue is not empty
  (`SendsReady`): without them a popup could send no answer at all, and
  `front()` be called on an empty queue.  With the types, a cancel is one step of
  which `CancelStep` says all: every queue the walk reaches loses the id, so that an id
  still queued is behind a queue that made the walk return.  That is the
  counterexample of `protocol_cancel`, shown to be the only way; and a cancel with
  one user (`CancelRemovesForOne`) removes what it should.  Assumption:
  `UsersAssumption`.
* `AskUserProtocolServiceProofs`: `NothingIsLost`, `TalkerImplementsService`.
  Each step of the talker is reduced to what it does to the set of queued ids
  and to the answers taken; the early return of `removeRequest` is why
  `NotificationService!TakeBack` may leave the request where it is.
* `AskUserProtocolAnswerProofs`: `TakenAnswersWereClicked`, `BusyIsAnswered`, from
  `PInv`: a running daemon has the only open daemon's end of its user, closed ends
  have nothing unread, and the agent has the right user for each descriptor
  (`EndsInv`); answers in hand, on the way and taken are clicks or errors
  (`FromClicks`); what was sent last on a busy connection of a running daemon is a
  request, which is on its way, in the daemon's hand or answered
  (`AnswersCome`).  `EndsInv` is what lets a step of one user's daemon
  leave the connections of all others alone.
* `AskUserProtocolOrderProofs`: `OnlyTakenBecomesSetting`,
  `RequestsKeepTheirBoundary`, `PopupsAreCurrent`.  Acknowledgements are in a
  stream only when the daemon waits for one and the agent has its answer
  (`AckInv`); a dismissal is behind a request or for a daemon that has one in
  hand, and only the first request of a stream is ever torn (`StreamInv`).  A
  daemon can only leave a torn stream, so that `AckInv` says nothing of one.
  `CurrentInv` says of every connection that a request which was sent last on it
  and is not taken back is the front of its user's queue, unless the daemon is
  about to end.
  `OnlyTakenBecomesSetting` has the assumption `AckSized = {}`; the run
  `protocol_ack_size` is the counterexample without it.

* `TranslationProofs`: `AgentCorrect`, `PopupCorrect`, `HitsCorrect`.  The
  inductive invariant says what the string on its way is: the encoding of the
  request, or what the agent or the daemon took out of it; every decoding step then
  comes down to a lemma about one encoding.  These rest on two facts about numbers
  as text: what `toString` writes is digits and nothing else, at least one of them, and reading
  them gives the number back (`NumberOfString`).  Writing and reading are recursive, and the prover cannot use an induction theorem of the library, which
  takes a predicate as its parameter; the lemmas take the least
  counterexample instead (`LeastNatural`, from the well-foundedness of `<`).
  From there `MemberOfField` takes one name off a stream whatever its characters
  are, and `RequestRoundTrip` and `NotificationRoundTrip` take all of them.  For keys
  the argument goes from the other end: the last length can be read back from a
  key's tail (`LastField`) since a separator is no digit, and one name after the
  other is the same (`HasherInjective`).  Assumptions: `NamesAssumption`, names are
  sequences of non-zero characters, and `RequestIdsAssumption`, ids have 16 bits.

Only model-checked: the three liveness properties, which are out of the
prover's reach.  The properties of the three findings do not hold as the runs
check them; `CancelRemoves` is proved for one user, and `SettingsWereTaken` where no
size looks like an acknowledgement.

## 5. What the models showed

* `CynaraTalker` (run `agent_stop`): a failed initialisation leaves the promise
  unset, and the process takes the exit meant for a thread that hangs.
* `removeRequest` (run `protocol_cancel`): the early return belongs into the
  branch of one user.  As every connected daemon's user gets an entry in
  `m_requests`, two sessions are enough to make cancels of the second fail.
  `CancelIsExact` proves that nothing else does.
* The acknowledgement (run `protocol_ack_size`): it shares its stream with
  requests and dismissals.  When an answer crosses the dismissal of its request,
  the daemon waits for an acknowledgement that does not come and compares the
  next byte with its code.  A dismissal ends it with "Incorrect ack", which is
  harmless: `NoStall` and `RequestsAreAnswered` hold, since the end of the stream
  is what brings the connection back to a known state.  A request of 172 bytes
  is taken for the acknowledgement, and the user's answer to a request that
  cynara has cancelled becomes a setting.
* An oversized request stays at the front of its queue and ends every life of
  the daemon (`protocol_live` and the condition of its property).
* `parseResponse` sets `m_fdStatus` when it drops a stale answer.  It need not:
  in every such case the daemon is about to end or the status is true already.
* The daemon's unterminated buffer is harmless (`PopupShowsTheRequest`): the
  lengths in the text end before what lies behind it.

## 6. The plan, and what is not modelled

The order was: `AgentContract`, `Agent` and its proofs; the cache and the plugins
with theirs; the protocol; then `NotificationService` to join agent and
protocol, the sizes of requests, `Translation`, and the remaining proofs.  All
of it is done.

Not modelled, and why:

* Partial transfers in `SocketStream::send` and `recv`.  No message is longer than
  8192 bytes, less than a socket buffer, so that the kernel moves each whole and
  the bodies of the loops run once.  A transfer that was continued would start
  at the beginning of the buffer again.
* The destructor of `NotificationTalker` (`NotificationTalker.cpp:145`), which
  clears the maps without `m_bfLock`.  Its race with the loop is undefined
  behaviour in the last moments of a process nothing waits for, and a model of
  its outcomes would say no more than "anything"; the model closes everything
  between two iterations.
* That `invalidate` (`ServicePlugin.cpp:134`) leaves checks in flight alone is in
  the model, as behaviour: no document promises otherwise, so that there is no
  property to hold the code to.
* The catch blocks for exhausted memory in both plugins.
* `AskUserTalker::stop` and `GuiRunner::stop`, which nothing calls; widgets, texts
  and their translation; logging, exceptions, paths and limits other than the
  request's size; the command line tool under `test/tools/`.
* cynara, the security manager and systemd are external: `Agent`,
  `AskUserPlugins` and `NotificationDaemon` say what they may do.
