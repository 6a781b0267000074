# A verification of Scarlet

Scarlet connects agents, the parties of a data federation, through shared Redis
structures ("scarlets"): mappers that hold one value per agent, federators that
fold such values, and messengers that give every agent an inbox.  On top of them
the *agentic harness* turns a user's question into *skill invocations*: a head
asks the workers to contribute their local share, one of them folds the shares
and answers.  This directory holds TLA+ models of that machinery, the TLC
configurations that check them and theorems about them checked by TLAPS.

Read the modules in this order, each group on its own: the inbox and what waits
for it (`Messenger`, `MessageRouter`), one invocation (`RunSkill`, `Worker`), the
data it computes on (`Mapper`, `SkillBarrier`, `Skills`, `QueryFeature` with
`DataSources`), the conversation that makes invocations (`Conversation`,
`ConversationView`, `Dialogue`), and who is there (`Registry`).

## 1. Inventory

| Part (source) | State | Operations | Talks to |
|---|---|---|---|
| Messenger inbox (`scarlets/messaging/Messenger.py`) | per agent one Redis hash: `__head__`, `__tail__`, a field per sequence number, a TTL | Send, Broadcast, Receive, `_ack`, `_nextSeq`, clearAll, heartbeat's EXPIRE | Redis, a command at a time; many senders, one poller per inbox |
| Agent registry (same file, `buses.py`) | a record per agent with `last_seen` and a TTL | Register, ReportStatus, GatherStatus, `_startHeartbeat`, `gather_workers` | Redis; the heartbeat thread and the agent's own threads share `_last_status` |
| Message router, timeout watcher (`router.py`, `timeout_watcher.py`) | `_queues`, `_callbacks`, `_deadlines` | on_key, receive_for, forget, stop; the polling and the scanning thread | Receive of one bus; every callback gets a thread |
| Skill dispatch (`head.py` run_skill) | closures of each attempt: request id, `resolved`, `turns_used`, a Timer | attempt, handle, wait_for_reply, on_timeout, check-in conversation | global router, global bus, dialogue, LLM |
| Conversation (`head.py` converse, `conversation_store.py`) | turn counter, message list, `_Joiner` | do_turn, submit, finish | run_skill, LLM |
| Worker (`worker.py`) and cancellation (`cancellation.py`) | `_tokens`, each token's event and callbacks | `_dispatch`, handle_message, create, cancel, forget, on_cancel, `_publish` | router's default handler, activity Mapper, head |
| Mapper store (`Mapper.py`, `RedisScarlet.py`, `RedisContract.py`) | a Redis Set of keys and one expiring hash per key | Map, AllGather, Reduce, Clear, clearAll, resetAll, lazy cleanup | Redis, a command at a time |
| Aggregating skills (`skills/sum.py`, `median.py`, `Federator.py`) | `ready_from`, deadline | contribute, coordinate, Aggregate | Mapper, local bus and router, token |
| Other skills (`query_feature`, `list_tags`, `combine`, `create_scarlet`, `safe_eval`) | none of their own | first answer, all answers, expression evaluation | local bus and router |
| Dialogue (`dialogue.py`) | `_history`, `_waiting` per conversation | start, reply, handle, `_respond`, forget | global bus, LLM |
| Definitions (`ScarletUtils.py`, `scarlet_minting.py`) | a record per scarlet, perhaps with a TTL | register, touch, mint | Redis, LLM |
| Data sources (`context.py` query_data_source, Composer's `auth`, `data_sources`, `session.py`; `broker/main.py`) | cached token, sessions, `_sources` and its file, the broker's pool | login, list, authorize, create/update/delete, query | HTTP between worker, Composer and broker; a file |
| Composer's view (`conversations.py`, `bus_registry.py`, `routers/`) | nothing but cached buses | collect, build_conversation, list_agents, get_stats | what Redis still holds |
| Data connectors, composer UI, legacy Streamlit app, logging | - | I/O and presentation | - |

Where the difficulty is: every Redis command of one call interleaves with those
of other processes; a process may die between two of them; keys expire; the
router, the watcher, callbacks, timers and dispatch threads of one process race;
an answer comes after its timeout or twice; the LLM raises.

What makes the parts correct:

* inbox: a message is received at most once, in order, and at least once if
  nothing fails; the reader is never stuck;
* router: a watch ends in exactly one of callback and timeout, and no message is
  lost between the two;
* run_skill: on_result is called once, by the attempt started last;
* worker: a cancel that finds the work in progress stops it; its callbacks start
  once; a dispatch is answered once;
* store: what was mapped and has not expired is gathered;
* skills: a result that says ok is made from every worker's share, and is the
  right number; nothing of an invocation stays behind;
* conversation: a round goes on once, with each call's own result, and the caller
  is released; what is rebuilt from the bus is what happened;
* dialogue: both sides hold the same messages, and nobody answers an answer;
* registry: who lives is found with what it last said, who died is forgotten, and
  a definition lasts as long as somebody uses it;
* data sources: a query runs only for whom the registry allowed, and nobody
  entitled is turned away without a cause.

## 2. What is modelled

| Module | Models | Correspondence |
|---|---|---|
| `Messenger` | the inbox of `Messenger.py` | One action per Redis command. `spc` is where a sending thread is in `Send`/`Broadcast`, `rpc` where the poller is in `_pollInbox`. `Faults` says which failures happen: HINCRBY, HSET, EXPIRE, ack, reads, crashes, expiry, clearAll. |
| `MessageRouter` | `router.py` with its `timeout_watcher.py` | One action per critical section (the router's lock, the watcher's lock) and per thread start: `OnKey`/`Schedule` are the two halves of `on_key`, `Route`/`CancelTimeout`/`Spawn` the three of `_run`, `Scan` and `TimeoutHandler` the timeout's two threads. |
| `OneShotWait` | what `on_key` promises | Abstract specification: none -> waiting -> answered, timed out or forgotten. |
| `RunSkill` | `run_skill` of `head.py` | `phase` is where `attempt(n)` is; `calls` the threads about to call `handle`; one record of the check-in variables per `on_timeout`: `resolved`, `timer`, `opener` (the thread composing the question), `talk` (the reply thread). `SetupRaises` and `LocalRaises` are the two places where a thread may die without on_result. The router appears as its one-shot promise. |
| `Invocation` | what `run_skill` promises | Abstract specification: Retry, Answer, Raise, of one running attempt. |
| `Worker` | `worker.py` and `cancellation.py` | `router` is where `_dispatch` is, on the router's thread, `thread` where each `handle_message` is. `tokens` is `_tokens`; a token is named by its thread. Publishing is two steps, snapshot and Map. |
| `Mapper` | `Mapper.py` over `RedisScarlet.py` over `RedisContract.py` | One action per Redis command: `MapBegin` SISMEMBER, `MapAdd` SADD, `MapPush` the HSET/EXPIRE transaction; `GatherBegin` SMEMBERS, `CheckExists`, `CleanUp` SREM, `Pull` EXISTS, `GetChunk` HGETALL. A value is the number of the Map that wrote it. |
| `SkillBarrier` | `contribute`/`coordinate` of `sum.py` and `median.py` | Composes with `Mapper` (EXTENDS): every worker maps and sends its ready message, the coordinator waits, then gathers through Mapper's reader. |
| `Skills` | `sum`, `median` with clearAll, `create_scarlet` with minting, `combine` with `safe_eval` | EXTENDS `SkillBarrier`; the number a Map stores stands for the list `Stored(w)`. `Sorted`, `Merged`, `DoubledMedian`, `Total`, `Aggregate` and `Eval` are the arithmetic; `AggregateRight` and `InGrammar` are the references, which count and do not sort, merge or evaluate. `Sorted` puts each number where its `Place` is, the number of those before it. An expression is the sequence of its nodes, operands before operators and the root last, each naming its operands by their places. `clear` is where `clearAll` is, one action per deletion. |
| `QueryFeature` | `query_feature.py`, and `list_tags.py` as its case without a broker | `contributor` is each worker's `contribute`, `coordinator` the loop with its `receive_for`, `queue` the router's queue. EXTENDS `DataSources` for what a holder behind a broker does. |
| `DataSources` | `query_data_source`, the Composer's login, list, authorize and edits, its file, the broker | `client` is where `query_data_source` is: login, list, after a 401 once more, ask, wait. Each request is one action of the server that answers it, because its handlers have no await; `persist` and `torn` are the file being written in place, `busy` and `authorizing` the event loops held. |
| `Conversation` | `converse` of `head.py`, `_Joiner`, `ConversationStore`, `reasoning.py` | `pc` is the thread in `do_turn` and `next` the call its loop is at; `flight` is each call's run_skill, in what RunSkill shows of it; `remaining` and `recorded` the joiner. `sink` and `traffic` are what has been published. |
| `ToolLoop` | what `converse` promises | Abstract specification: Ask, Answer, Conclude, strictly in turn. |
| `ConversationView` | `conversations.py` of the Composer | Operators over Conversation's `sink` and `traffic`: `ByRequest`, `AttemptsOf`, `Orphans`, `Unattributed`, `Status`. |
| `Dialogue` | `AgentDialogue` on two agents | `waiting` and `sessions` are `_waiting` and `_sessions`; every callback and `_respond` is a thread with its local copy of the history: `RespondRead`, chat, `RespondWrite`, `RespondSend`. |
| `Registry` | registration records, heartbeats and definitions: `Messenger.py`, `buses.py`, `ScarletUtils.py`, the Composer's `bus_registry`, `routers/scarlets`, `routers/agents`, `routers/dashboard` | `at` is where the main and the heartbeat thread of each member are, a Redis command at a time; any of them may raise, with or without its effect, and the code goes on where its `try` ends (`RegisterSetRaises`, `ReportSetRaises`, `DefRaises`, ...); `last` is `_last_status`. `Tick` is one heartbeat interval for every age and TTL. |
| `MC*` | - | Values of the constants for TLC. |
| `MessengerProofs`, `WorkerProofs`, `RegistryProofs` | - | Theorems about the module each is named after, see section 5. |
| `MessageRouterProofs` | - | About `MessageRouter`, where each message is, and the refinement of `OneShotWait`. |
| `RunSkillProofs` | - | About `RunSkill`, the refinement of `Invocation`, and `Dialogue`, the conversation behind its check-ins (the two share no name). |
| `SkillBarrierProofs` | - | About `Mapper`, `SkillBarrier` and `Skills`, each of which EXTENDS the one before; and, without any of them, about sums over finite sets. |
| `QueryFeatureProofs` | - | About `QueryFeature` and the `DataSources` it extends. |
| `ConversationProofs` | - | About `Conversation`, the refinement of `ToolLoop`, and `ConversationView`. |

How they compose: `SkillBarrier` runs on `Mapper` and `Skills` on `SkillBarrier`;
`QueryFeature` on `DataSources`; `ConversationView` reads `Conversation`.
`RunSkill` uses the router through `OneShotWait`'s promise, and `Conversation`
uses `RunSkill` through `Invocation`: its `Retry`, `Report` and `SkillRaises` are
the Retry, Answer and Raise of one call, whenever they come, and that an answer
comes unless a thread raises is `ResultArrives`.
`Dialogue` is the conversation behind `RunSkill`'s check-ins.

Abstractions common to all: payloads, names and texts are model values or small
sets; time is a nondeterministic choice of whether a deadline has passed; an LLM
call answers any of the outcomes the code tells apart, or raises.  Definitions
named `X_Something` next to `X` are plausible bugs of X; the checked properties
are known to fail with them in X's place.

## 3. Runs

| Run | Bounds | Shows |
|---|---|---|
| `Messenger_live` | 2 agents, 2 threads, 1 call each (a broadcast is two Sends) | without failures every Send is received (`SentIsReceived`), `NoStrandedInbox`, `InboxExpires` |
| `Messenger_faults` | 1 agent, 2 threads, 2 calls each, all failures but the ack's | `AtMostOnce`; while no hash is deleted in use: `InOrder` (order and cursors), `NoOverwrite` |
| `MessageRouter` | 2 registrations of one key, 1 waiter on another, 4 messages (two answers, a ready signal, an unsolicited one) | `NoMissedMessage`, `ExactlyOnePlace`, refinement of `OneShotWait`, `EveryWatchEnds` |
| `RunSkill` | 2 attempts, a check-in each, 2 questions per check-in, an LLM that fails, a `coordinate` that raises in process | `OneContinuation`, `LatestAttemptAnswers`, refinement of `Invocation`, `ResultArrives` |
| `RunSkill_checkins` | one attempt, one check-in | violation, see section 6 |
| `Worker` | 2 requests, 2 threads, 2 callbacks each, cancels received twice | `CancelNotMissed`, `TracksWork`, `CallbacksOnce`, `AnsweredOnce` |
| `Mapper` | 2 keys mapped twice, 2 readers, expiry, all failures | `OnlyOverlapHides` |
| `Skills` | 3 workers with an empty, a single and an unsorted list, squares, 7 expressions, 2 names; commands that raise, lost ready messages | `CompleteFold`, `AnswerRight` (of `AggregateRight`, `MintedStands`, `GrammarOnly`), `LeavesNothing`, `CoordinateReturns`, refinement of `SkillBarrier` |
| `QueryFeature` | 2 workers, pool of 1, 2 events (edits, crashes, expired sessions), a failing disk, a lost Send of the coordinator to itself | `AnswerFound` (`FirstAnswer`, `NotFoundRight`), `AccessRight` (`GrantedOnly`, `RefusedRight`), `DiskAgrees` |
| `Conversation` | 2 turns, up to 2 calls in each and 3 in all, one retry, one check-in, one lost event, every failure | `AdvancesOnce`, `OwnResults`, `EndsOnce`, refinement of `ToolLoop`, `Concludes`; the Composer's view: `ViewIsTrue` (`AttributedRight`, `NothingHidden`, `StatusIsTrue`) |
| `Dialogue` | 2 conversations, 2 questions each, one failure | `Undisturbed` (`HistoriesAgree`, `NoEcho`), `RepliesOnce`, `AnswersCome` |
| `Registry` | a worker with two lives and two reports in each, the Composer, one edit, one command that raises; ages 1 and 2, a TTL of 3 intervals | `LatestShown`, `DeadExcluded`, `KeysKept` (`DefinitionStays`, `NeverBlank`, `TtlKept`), `DeadForgotten` |

A property with names in brackets is their conjunction.  Type invariants: every
one but that of `Skills` is a theorem for any constants (section 5), and that of
`Skills` is one if Redis can be reached.  Those of `Worker`, `Skills`, `Dialogue`,
`Registry` and `QueryFeature` are also a conjunct of `TracksWork`, `AnswerRight`,
`Undisturbed`, `KeysKept` and `AnswerFound`; no run repeats the others.
`OnceInv`, `MutuallyExclusive` and `GathersAlone` are theorems as well: the first
is what the proof of `AtMostOnce` needs, the second follows from
`ImplementsOneShot`, the third is a step towards `CompleteFold`.

Why the bounds are enough.  *Messenger*: inboxes share no state, so one agent
shows what can go wrong in an inbox; two threads with two calls give concurrent
Sends, a Send overtaking the hole of another, and a message before and after an
expiry or a restart.  *MessageRouter*: keys share only the polling and the
scanning thread; the second registration is the re-armed watch, the second
answer the late one.  *RunSkill*: a second attempt is the only relation between
attempts.  *Worker*: requests share the router's thread, the publisher and
nothing else.  *Mapper*: a race needs one writer and one reader; the second
reader lets cleanups overlap.  *Skills*: a third worker is one that is neither
the coordinator nor the first to report; the lists give every total from none to
six, so both parities and a merge of unequal partitions; the identity transform
has the states of the square.  *QueryFeature*: the
second worker is the coordinator's rival for the pool and for being first, and
a lost Send of its own is as if it never answered; two events are a grant taken
and given back, or a crash in a write and a restart.
*Conversation*: one round races inside itself, the second is the one it must not
overlap; the third call is the second of a round whose first retried.
*Dialogue*: conversations share the agents' locks and inboxes only.  *Registry*:
members share the definition only; two lives make one inherit what the other
left, and the TTL is longer than both ages, as in the code (an hour against
minutes).  One command that raises, anywhere, already leaves every half state: a
record without its TTL, with an old status, or none, a definition without its TTL,
or none.  What takes an outage of several commands, a definition that runs out
although the Composer lives, is covered by the theorems, whose `MaxRaises` is any
number.

Bounds in the guards: `MaxSends`, `MaxSeq` (Messenger), `MaxRounds`,
`MaxReplies` (RunSkill), `MaxCallbacks` (Worker), `MaxMaps` (Mapper),
`MaxEvents` (DataSources), `MaxCalls`, `MaxAsked`, `MaxRetries`, `MaxCheckIns`,
`MaxLost` (Conversation), `MaxMessages`, `MaxFaults` (Dialogue), `MaxReports`,
`Lives`, `MaxEdits`,
`MaxRaises` (Registry).  `MaxAttempts`, `MaxTurns`, `MaxQuestions`,
`PoolSize` and RunSkill's `MaxCheckIns` are the program's own.

`CHECK_DEADLOCK FALSE` stands where the system really stops: the router after
stop(), an invocation or a conversation after its result, a worker, a store, a
dialogue or a registry with nothing asked of it or nobody alive.

## 4. Fairness

* `Messenger!FairSpec`: a thread inside Send goes on, and the poller polls for
  ever (`MessageRouter._run` has no other exit than stop()).  Nobody need ever
  call Send.
* `MessageRouter!FairSpec`: the polling thread and started threads run; for
  every key with a deadline some scan finds it late (`TimeoutWatcher._run` scans
  every half second).  No message need ever arrive.
* `RunSkill!FairSpec`: threads run, the watch times out (that is
  `EveryWatchEnds`), timers fire.  Nothing raises by fairness.  No coordinator need ever answer.  The LLM is
  assumed not to answer WAIT for ever (`MaxRounds`), see section 6.
* `SkillBarrier!FairSpec`, `Skills!SkillsSpec`: the coordinator's thread runs and
  its deadline passes.  No worker need ever report.
* `Conversation!FairSpec`: the thread in do_turn runs, and run_skill calls its
  on_result (`ResultArrives`).  Nothing raises by fairness, no retry or check-in
  need happen, and no event need be published.
* `Dialogue!FairSpec`: both pollers run and started threads run.  The model need
  not ask a second question.
* `Registry` states safety only, with time as ticks: that a dead member is forgotten
  is said of the tick by which it must be.
* `QueryFeature` states safety only; its loop ends with its deadline, as
  `CoordinateReturns` shows of the same loop in `Skills`.

## 5. What is proved

TLAPS checks these for every value of the constants, under each module's named
assumptions and the hypotheses given here.  A hypothesis `"x" \notin Faults`
leaves one failure out; the runs with that failure, or section 6, show why it is
needed.  Few of the properties are inductive: for each, what was added is said.

**The inbox** (`MessengerProofs`).

* `TypeCorrect` - `Spec => []TypeOK`: 13 actions, split by sender, reader and store.
* `OnceInvariant`, `ReceiveAtMostOnce` - if `"ack" \notin Faults`, `AtMostOnce`.
  It says nothing of messages still in the inbox.  `OnceInv` adds that a payload
  present at its recipient is never written there again, sits under one number
  only, and that a returned one is behind the cursor and behind the copy of the
  cursor a poll in progress holds.  The copy is what makes expiry and clearAll
  harmless: a poll that outlives its hash writes the old cursor back, which can
  lose messages but not repeat one.
* `NumbersAreOwn`, `SendsNeverOverwrite` - `NoOverwrite`, under every failure: a
  number in the hands of a Send was handed out by HINCRBY, to nobody else, and
  its field is empty (`NumberInv`).
* `ReceiveInOrder` - if `"ack" \notin Faults`, `InOrder`.  `OrderInv` says how far
  behind the cursor each place of a poll is, and that a payload carries the
  number it is stored under.
* `NeverStranded` - if neither `"hset"` nor `"crash"` is in Faults, whatever else
  fails, `NoStrandedInbox`: every number up to the tail has a payload or a Send on
  its way to it (`FilledInv`).
* `InboxesExpire` - if `"hset"`, `"expire"` and `"crash"` are not in Faults,
  `InboxExpires`, which is inductive.

**Router and watcher** (`MessageRouterProofs`).

* `TypeCorrect`, `ExactlyOneEnd`, `NothingMissed`.  A timeout handler asks only
  whether its key has a callback, not whose it is, so `MutuallyExclusive` needs an
  argument about tokens: the timeout of a watch is one token (about to be
  scheduled, a deadline, a handler thread), spent when the watch times out, and a
  key has at most one watch whose token is unspent.  A key is watched again only
  after its previous watch timed out (`MayWatch`), as `run_skill` does when a
  check-in decides to wait longer.
* `OnePlace` - `ExactlyOnePlace` counts places; the proof gives every message one
  holder and shows that each step hands it to another.
* `RouterImplementsOneShot` - `Spec => ImplementsOneShot`, the safety part of the
  refinement: every step is one step of one watch or a stutter.  That a callback
  gets a message no other call got is `OnePlace`'s invariant.

**An invocation and its check-ins** (`RunSkillProofs`).

* `TypeCorrect`, `OneThread`, `LatestAnswers`, `OnResultAtMostOnce`.
  `OneContinuation` says that the set of things that can continue the invocation
  (a running attempt, a live watch, a thread about to call handle, an unresolved
  check-in) has at most one member, none after on_result.  It is inductive with
  `LatestAttemptAnswers`: every step leaves the set alone (`QuietKeeps`), replaces
  its one member (`MoveKeeps`), or removes it and calls on_result (`EndKeeps`).
  OnResultOnce follows, because a call of on_result needs a member and leaves none.
* `RunSkillImplementsInvocation` - `Spec => ImplementsInvocation`.  `InvocationInv`
  adds that there is a latest attempt, that an attempt not begun has nothing under
  way (`NotBegun`), and that an attempt that raised, in its
  set-up or in the coordinate it ran itself, left no continuation.  So whoever
  continues belongs to the latest attempt, with no answer yet (`ActorIsLatest`);
  when nobody does, no step changes anything Invocation shows (`NothingRevives`).
  Handle maps to Answer or Retry, NoWorkers to Answer, SetupRaises and LocalRaises to Raise, and
  every other step is invisible to the caller.
* `OneConversation` - `Undisturbed`, of any number of conversations, though others
  fail.  `DialogueInv` puts every undisturbed conversation in one of three states,
  `Asking`, `Answering` and `Resting`, with one message or one thread under way in
  the first two and none in the last, and each history at its length.  That the
  initiator has a waiter from before the question leaves until its answer is heard
  is why no answer looks like a question.
* `RepliesAtMostOnce` - `RepliesOnce`, under every failure.

**The worker** (`WorkerProofs`).

* `BaseInvariant`, `CallbacksStartOnce`, `AnswersOnce` - `CallbacksOnce` and
  `AnsweredOnce`, even if dispatches and cancels are received twice.  `BaseInv`
  ties a token to its request, the pc of a thread to what it has answered, and
  says that every callback is kept until the event is set and started from then on.
* `DispatchInvariant`, `NoCancelMissed`, `RegistryTracksWork` - if
  `"dispatch" \notin Redelivered`, `CancelNotMissed` and `TracksWork`.  A dispatch
  in the inbox is then the first sign of its request (`InboxFirst`), one thread at
  most works for a request (`OneThreadEach`), and the registry's entry is its
  token from before the thread starts until its finally clause
  (`TokenWhileTracked`); a cancel, being behind its dispatch, finds it.

**Store and skills** (`SkillBarrierProofs`).

* `MapperTypeCorrect`, `HiddenOnlyByOverlap`.  `OnlyOverlapHides` is inductive
  with the fact that a key no cleanup overlapped has an idle writer while any
  reader cleans up: what that reader found missing still is.
* `BarrierTypeCorrect`, and, if `"unreachable" \notin Faults`, `FoldIsComplete` and
  `GatheringIsAlone`.  A ready message with `map_status` means a stored value; so
  the fold begins after every Map has returned, its reader finds every key and
  its cleanup removes none (`BarrierInv`).
* `SkillsFoldCompletely`, `MedianLeavesNothing`, `MintedNamesStand` - of the skills
  themselves, with clearAll, create_scarlet and combine, if `"unreachable" \notin
  Faults`: `CompleteFold`, `LeavesNothing`, and the conjuncts `SkillsTypeOK` and
  `MintedStands` of `AnswerRight`.  `SkillsInv` is `BarrierInv` until the clearing
  begins; from then on every worker and the reader are through (`WhileClearing`),
  so that nothing meets the deletions.  `Minting` says whose definition each name
  has.
* `SkillsAnswerRight` - under that hypothesis `AnswerRight`, with what the skills
  compute: for any finite number of workers, each with any list of integers, and
  for any expressions that are trees (`SkillsAssumption`).  `AnswersInv` adds to
  `SkillsInv` only that the lists are lists of integers and combine's expression is
  one of those given; a worker reads its list before it Maps, when nobody can have
  answered ok, and at the return of sum and median `SkillsInv` says that all
  workers were gathered.  The rest is about operators:
  - `AggregateIs`.  The fold of the code goes over the workers, each fold over its
    list, in the order CHOOSE gives; the reference is one sum over all pairs of a
    worker and a place.  `Sums(f, D, g)` says that g is the sum of f over every
    subset of D; it is the same whichever member is taken first (`SumsAnyOrder`),
    so there is one sum (`SumsUnique`) and it can be taken by columns
    (`SumOfSums`).
  - `MedianIs`.  A sorted list is an ascending enumeration of its places
    (`SortedIs`); the merge of ascending partitions is one of all of them, by
    induction over how many numbers are left (`MergeStep`, `MergeIs`); and in such
    an enumeration the k-th is the number of which fewer than k are smaller and at
    least k are not greater (`KthIs`).
  - `EvalIs`.  A node whose value is a number is in the grammar, and so are its
    operands numbers (`NumbersOfNumbers`).  Every node but the root is an operand:
    were some nodes of a tree with a number not numbers, the last of them would be
    an operand of one that is.  A node of the grammar is refused only for an operand
    that is (`GrammarUnrefused`), so none is the first.
  The induction over numbers, over subsets and along a measure that this needs
  (`NumberInduction`, `SubsetInduction`, `Recursion`) is stated with sets in place
  of predicates, and proved from the library's theorem that a nonempty set of
  numbers has a least member.  The recursive definitions are unfolded by showing
  that a function that obeys them exists.
* `SkillsImplementBarrier` - under the same hypothesis sum and median implement
  `SkillBarrier`.  It needs `"error" \in Faults`: a median of no numbers is, to the
  barrier, a fold that failed, which it does only where a command may raise.

**Asking the data sources** (`QueryFeatureProofs`).  The skill and the data
sources share no state but a worker's query, so each half has an inductive
invariant of its own.

* `RightAnswer` - `AnswerFound`: until the coordinator returns, what arrived is
  what its queue holds, unless its last `receive_for` found nothing, and only
  holders answer (`SkillInv`).
* `RegistryDecides` - `AccessRight`: whoever the Composer would grant, whose query
  waits or runs, or who has a result, was allowed since it asked (`Granting`); and
  a worker without an excuse meets a Composer that knows its session (`Excusing`).
* `FileAgrees` - `DiskAgrees`, with what each place of `_persist` has written.

**The conversation** (`ConversationProofs`).

* `TypeCorrect`, `GoesOnOnce`, `ResultsAreOwn`, `OneEnd` and `ImplementsToolLoop`,
  from one inductive invariant, `ConvInv`.  That only one thread goes on depends
  on what the counter of the `_Joiner` counts.  `ThisRound` says that it is the
  number of calls of the round without a recorded result, and that neither a call
  that has not reported nor one the loop has not reached has a result.  So a
  thread that brings the counter to 0 leaves no call that could do so again
  (`OneLess`, `SubmitsPending`), finds every result of the round (`Advancing`), and
  finds the loop over, because a loop that is not has a pending call of its own
  (`SubmitStep`).  `PastRounds` keeps what was written; the refinement maps Ask to
  Ask, either Advance to Answer, and the two ends to Conclude.
* `ViewIsRight` - `ViewIsTrue`, whichever events are lost.  `ViewInv` says that every
  event in the sink tells a step that was taken, and when a call has a result.

**Who is there** (`RegistryProofs`; the ages are at least 1 and the TTL is longer
than both).

* `LatestIsShown`, `DeadAreExcluded`, `KeysAreKept`, `DeadAreForgotten` -
  `LatestShown`, `DeadExcluded`, `KeysKept`, `DeadForgotten`, however many commands
  raise.  `AgentInv` is about one member: where its two threads can be
  together (`Shape`), that they agree on the last status unless a heartbeat ran
  into a report (`Agreed`), that its record is at most one interval old while it
  lives, unless a write raised (`Fresh`), that it is as old as its death and its TTL
  as far gone (`Aging`), and that one without a TTL is being registered or was left
  so by a Register that did not end (`Expiring`).  `DefInv` is about the definition they
  all renew: who is done with it left one there unless a command raised, and nobody
  left means that it runs out.  A step of one member leaves `AgentInv` of the others as
  it is.

What stays with TLC is *liveness* (`SentIsReceived`, `EveryWatchEnds`,
`ResultArrives`, `CoordinateReturns`, `Concludes`, `AnswersCome`): the prover has no rules for fairness and ENABLED; their
assumptions are in section 4.  Every invariant and every action property of a run
is a theorem.

## 6. Where code and documentation disagree

`RunSkill_checkins` exhibits one: `wait_for_reply` passes 0 to `on_timeout`
always, so `max_check_ins` caps nothing, and a coordinator that keeps answering
"wait" keeps the invocation alive.

The models reach the following as well, with other values of the constants.

Inbox, router, invocation, worker, store:

* A `Send` whose HSET fails after its HINCRBY leaves a hole the reader waits at
  for ever (`Faults` with `hset`, against `NoStrandedInbox`); the docstring of
  `_inboxKey` calls that unrepresentable.
* An ack whose HSET fails repeats the message (`Faults` with `ack`); an inbox
  that expires between read and ack comes back with its head before its tail
  (`InOrder` is conditional for that reason).
* `on_key` called again inside a callback, as `router.py` invites but no caller
  does, can be ended by the older watch's timeout handler; a late answer is
  queued, not ignored.
* An exception of the LLM in `_register_scarlets` of a retry ends the thread that
  would have called on_result, which `run_skill`'s docstring says fires exactly
  once.  So does a `coordinate` that raises on the thread of an invoking agent that
  coordinates itself (`run_in_process` has no try); `ResultArrives` excuses both.
* A dispatch received twice shares one token (`Redelivered` with `dispatch`); two
  publishers of the activity may write in the wrong order.
* The lazy cleanup of a reader removes a key whose chunk was written after it was
  looked at: the value is stored and not listed until the next Map.  Within a
  skill the barrier prevents it (`GathersAlone`); the activity mapper, which the
  Composer polls, has no barrier.
* `Map` says True when Redis could not be reached, so the fold leaves that worker
  out and says ok (`Faults` with `unreachable`, against `CompleteFold`).

Conversation and dialogue:

* An exception on any thread but the caller's leaves the caller of `converse`
  waiting without a timeout; `Concludes` says so with `ThreadDied`.
* `_respond` answers without a request_id, so the Composer can place a check-in's
  question but not its reply, which `conversations.py` says it threads.  A message
  without a request_id is in no list at all, though a comment there says that it
  "still shows, unattributed" (line 119): `unattributed` goes over request_ids.
* One redelivered reply, or a restart of the head between question and answer,
  and the two agents answer each other's answers from then on: a reply nobody
  waits for is a new conversation to `handle`.  `NoEcho` is for conversations no
  failure touched.
* `AgentDialogue.forget` is never called: histories and the waiter of a check-in
  that timed out stay.

Registry and definitions:

* A heartbeat writes back the status it read before a report, and goes on doing
  so; the docstring of `_startHeartbeat` says it keeps the last status.
  `LatestShown` is for workers whose heartbeat did not run into a report.
* `Register`, `ReportStatus` and both functions on definitions log what Redis raises
  and return as if they had succeeded.  Until the next heartbeat that goes through, a
  worker is then shown with its older status or not at all, its record may have no
  TTL, and its bus no definition; if it dies before that, the record without a TTL
  stays for ever.  The properties name these states (`unwritten`, `torn`,
  `unrenewed`).
* The docstrings of `gather_workers` (records never expire) and of `bus_registry`
  (definitions have no TTL, a bus cannot be brought into being again) describe an
  older program.
* `update_description` writes the definition without its TTL.

Skills and data sources:

* sum, and every invocation that is given up, clears nothing, and the key list
  has no TTL.
* sum's `n` is how many numbers there are, as a comment in `contribute` explains; the
  description the LLM chooses the skill by says "the number of contributing workers"
  (`sum.py`, line 61).  `AggregateRight` states what the code computes.
* create_scarlet mints although it was cancelled in the meantime, may take over
  the name of another scarlet (`overwrite=True`), and answers a name whose
  registration Redis refused.
* A division by zero is not a `SafeEvalError`: it leaves `combine` and becomes a
  failure of the worker that is not retried.  `safe_eval` evaluates from left to
  right, so an element outside the grammar is refused only if the evaluation gets
  there.
* `query_feature` calls silence "not found", and its 15 seconds are less than the
  30 a query at the broker may take; a local file that cannot be read raises
  outside its try, and is silence too.
* The broker's handler holds its event loop while the Composer authorizes, and
  the Composer's login holds its own; either makes the other's requests fail.  A
  403 of the broker is not retried with a new session.
* The file of the data sources is written in place and a failed write is only
  logged: a crash can cut it short, the next start loads what is readable, and
  the next edit makes that permanent; a grant taken away while the disk was full
  is back after a restart.  A query whose caller gave up keeps its thread of the
  pool.

## 7. What could follow

1. A composition of `Worker` with `MessageRouter`, for a default handler that
   raises on the polling thread, and a `Worker` under which a dispatch may be
   received twice.
2. `invoke_skill` over `RunSkill`, once some skill calls it and retries.
3. That `Conversation` allows a call whatever `Invocation` does, at any time: a
   simulation, which neither an invariant nor a refinement states.

## 8. What is not modelled

Configuration and start-up, which read the environment once; logging; the
connectors, which only call drivers; the HTTP and LLM clients, which are the
outcomes of their calls; the configuration store and the interpreter of scarlet
files in the Composer; the user interfaces and the notebooks.  Of modelled parts:
the progress texts of a token, `Mapper.resetAll`, the registry half of
`Messenger.clearAll` and `AgentDialogue.forget`, which nobody calls; the texts of
a conversation.  Real numbers are fractions in `Skills`, so rounding is left out,
and exponents are natural.  Real time is left out: a 15-second coordinate against
a value that lives an hour is an assumption of `SkillBarrier` (`~MayExpire`), and
that no call lasts a heartbeat interval one of `Registry`, not a result.  Redis keeps
its data: a server that restarts empty is left out, and so is a command that timed
out and reaches it after a later one of the same process.  A read that raises
(`GatherStatus`) changes nothing and is left out of `Registry`.  The final event of a
conversation and its `finish` follow each other on one thread and are one action
(`Conversation!Conclude`): in between, the Composer already shows as answered a
conversation whose caller still waits for its `on_done`.
