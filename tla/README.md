# A verification of rmw_gurumdds in TLA+

rmw_gurumdds is the ROS 2 middleware (rmw) on GurumDDS. The modules here model its
concurrent core; TLC checks them on small instances, and TLAPS proves the main safety
properties for every instance. `PROJECT.json` lists the parts, the runs, the hazards, the
source lines behind each definition, the theorems, and for every property a plausible bug
that makes it fail.

Paths below are in `rmw_gurumdds_cpp/src/` unless they say otherwise.

## The system

| Part | State | Operations | Talks to |
|---|---|---|---|
| Status events (`event_info_common.cpp`, `rmw_event.cpp`) | per endpoint: the DDS listener mask, a callback, a status copy, a changed flag and a guard condition per event | the DDS listener functions, `rmw_take_event`, `rmw_event_set_callback`, `set_on_new_message_callback`, `is_status_changed` | DDS threads call the listeners; `rmw_wait` asks `is_status_changed` and waits on the guard conditions |
| Wait sets, guard conditions (`wait.cpp`, `rmw_wait.cpp`, `rmw_guard_condition.cpp`) | per wait set: the DDS wait set, the cached pointers of the last call | create, destroy, trigger; `rmw_wait` with the WaitSet or by polling | readers, guard conditions, events, DDS |
| Context and nodes (`rmw_init.cpp`, `rmw_context_impl.cpp`, `rmw_node.cpp`) | `node_count` and the participant with all that nodes share | init, shutdown, fini; create and destroy a node; initialize and finalize the participant | the listener thread, the graph, DDS |
| Listener thread (`context_listener_thread.cpp`) | `thread_is_running`, the thread, its guard condition | start, wake up, handle `ros_discovery_info`, stop | the graph; the context starts and joins it |
| Services and clients (`rmw_client.cpp`, `rmw_service.cpp`) | `sequence_number`, two DDS endpoints each | send and take requests and responses, availability | each other, over two shared topics |
| ROS graph (`graph_cache.cpp`, the callbacks in `rmw_context_impl.cpp`) | per participant: known readers and writers, participants and their nodes' endpoints | on_xxx_created, on_xxx_deleted; announcements; `ros_discovery_info` | create and destroy calls, DDS threads, the listener thread, the peers |
| Publishers, subscriptions (`rmw_publisher.cpp`, `rmw_subscription.cpp`) | `sequence_number`, the DDS endpoint, the callback | create, destroy, publish, take, take a sequence | graph, events, codec |
| CDR codec (`cdr_*.cpp`, `message_*.inl`, and the entry points in `type_support_*.cpp`) | a buffer, its size and an offset | count the size, allocate, serialize, deserialize | publishers, subscriptions, services |
| Type descriptions, QoS conversion, names, queries, logging | none | text and table conversions, read-only queries | all |

What is hard here: DDS threads run callbacks between any two steps of the application;
several threads share an endpoint, a wait set's handles or a context; caches (of attached
pointers, of statuses, of the graph) may be stale when used; set-ups of a dozen steps fail
half-way; two topics, and the announcements and messages of discovery, are not ordered with
respect to each other. `PROJECT.json` lists these hazards line by line, with the
properties that cover each.

What makes each part correct: no status change disappears untold (events); no thread sleeps
on something ready, and no trigger is consumed unreported (wait sets); what nodes share
exists exactly while nodes do (context); a response answers the call it is returned for
(services); the graph shows what exists and only that (graph); two messages carry the same
number only if their publishers raced, no message waits untold, and a take that succeeds
hands over all it took (topics); what is accepted is what was sent, and nothing passes the
end of the buffer (codec).

## The modules

**EventInfo** models the events of one endpoint, a publisher or a subscription. A change
goes from DDS (`unread`) to a running listener (`inflight`) and is told to a callback or
recorded (`counter`, `changed`, `trigger`). `SetCallback` reads the status, tells it, and
reads `mask`. The two setters of a subscription (of events, of new messages) share `mask` but
no mutex, so that what follows is three steps: the update is written back (`WriteMask`),
`set_listener` gets a copy of `mask` by value (`CopyMask`), and installs it or fails
(`InstallListener`). Three history variables remember what this race does: `clobbered` has the
bits whose last update was overwritten, `older` the setters whose copy was replaced since, and
`outdated` says that the last `set_listener` failed or had such a copy. A behaviour is one of
the endpoints in `Endpoints`, which say what may change and what is given a callback.
The data of a status is its change counter; `CounterOf` and `CallbackOf` keep the listeners
that use another event's counter or callback. The variables `total`, `told`, `taken`,
`dropped` and `stranded` are history. `SharedCountConserved` adds up the two statuses that the
code counts with one counter.

**WaitSet** extends EventInfo with any number of threads in `rmw_wait`, with the DDS wait set or
without it (`Polling`). `Enter` is the part
up to the DDS wait: it compares the pointers with the cached ones (`NeedReattach`), attaches
again when they differ, and stores them. Waking up, timing out and failing are the ways out
of the DDS wait; `Process` and `ProcessEvents` fill the result, reset guard conditions and
ask the events, with the error on a null entry or a failed reset at its place. `PollScan` and
what follows are `wait_w_polling`. Handles are addresses: one that is destroyed may be created
again, and the cache does not notice. So are the `rmw_event_t` of a call (`EventObjects`), whose
event is `typeOf`: `RenewEvent` initializes one again for another event. The result of an
attachment is ignored, as in the code; `CanFail` has the conditions whose attachment, or reset,
may fail. `stale` remembers the entries that changed under a cache, and those that were not
attached.

**ContextLifecycle** models one context, its nodes and its listener thread. The
participant's resources are set up in the order `InitOrder` and deleted in the order
`FiniOrder`, one step each, any of which may fail, a creation before the pointer is assigned,
in it or after it (`StepFails`); a failed set-up runs the tear-down as the scope exits do. A resource is numbered by the initialization that made it, so that a second
participant over the first can be seen.

**TopicData** models the messages of one topic. Publishing threads share `sequence_number`,
whose increment is a load and a store; what they write arrives at the reader in some order.
Setting the new-message callback is two steps, as in the code: the unread samples are
counted and told (`CountForCallback`), then the listener is installed (`InstallCallback`), or
not, when that fails. `EventSetter` is the setter of an event, which sets the listener with its
copy of the shared mask at any time (EventInfo has how that copy comes about).
The three ways of taking are `Take`, `TakeSerialized` with `CopySerialized`, and
`rmw_take_sequence`: rounds that take a loan of up to `count` samples, the loop over the loan
that skips samples without data, and the return of the loan, each of which may fail. The
reader is reliable and keeps all, so that no sample is dropped; its cache with the states of
samples is external. The variables' fields `raced`, `missed` and `took` are history: they
remember another thread inside the increment, a sample that came while its callback was
counted for or set but the listener not installed, or whose count failed, and what a call took
out of the cache. The callbacks of
clients and services for new responses and requests have the same two steps
(`rmw_client.cpp:1098`, `rmw_service.cpp:968`) and no module of their own.

**CdrCodec** models one conversion after another: the pass that counts bytes, the allocation,
the pass that writes, and the reading by a process of any language and byte order of what
arrived, possibly cut short. A pass is a work list, `todo`, whose head is a member that
unfolds into calls of the buffer, or a call that moves the cursor `off`; what a call does
depends on the memory only when it reads. A loop over elements reads one element per step, as
the operators do, so that a count that is too large fails where the bytes run out. Before
that, memory is taken for as many elements as the count says; a C++ vector that cannot have
them throws what `deserialize_cdr_to_ros` does not catch, and the conversion ends as
`"escaped"`. The 4 bytes of the header are left out of `off` and
`size`, as they are in the code. `sent` and `got` are history, and `flawed` says that one of
the members below, which the code converts wrongly, was met. The services' enhanced mapping
takes the message path; the basic mapping adds a header for which nobody made room.

**Rpc** is what a service promises: only calls that were made are executed, and an answer is
that of the execution of the very call, once. **ServiceRpc** is how the code keeps it with
two topics shared by all the clients and servers: the request carries the client's guid and
number, the response carries them back, and a client skips the responses of others.
`ReadNumber`, `StoreNumber`, `WriteRequest` and `ReturnId` are the accesses to
`sequence_number` in `rmw_send_request`. Numbers are split in halves of `Half` values
(`ros_sn_to_dds_sn`), so that their overflow is reached. This is the enhanced mapping; the
requests of the basic one never serialize, which CdrCodec shows (`WriteFitsItsSize`).

**GraphCache** models the graph of every participant. A handle stands for one
`rmw_create_xxx` and what follows from it; `pc` is the place of the call. Creation,
destruction, the rollbacks and their failures are as in the code, including what they leave
behind: creations that fail may leave their endpoints in DDS (`Abandon`, `LeftBehind`), the
scope exits of services and clients remove nothing from the cache, a failed subscription is
looked for among the writers, a remote reader is never removed. Publishers and subscriptions
of a context with the LOCALHOST range are taken for internal ones and never enter the graph.

Outside the repository, and marked external: GurumDDS (endpoints, discovery, samples, wait
sets, listeners) and `rmw_dds_common` (the maps of the graph cache), as the code uses them.

`MC*.tla` give the constants for TLC; the `.cfg` files are the runs.

## The runs

| Run | Checks | Instance |
|---|---|---|
| `EventInfo.cfg` | conservation and telling of changes; two statuses with one counter lose nothing; the listener has the callbacks' bits; spurious triggers come only from setting a callback | four endpoints: a reader with an event and new messages (two setters); one with missed deadlines and changed liveliness, the former of which calls the latter's callback; one with lost messages and new messages; a writer with missed deadlines and lost liveliness, which share a counter. Two changes of each status, one of the two of liveliness |
| `WaitSetShared.cfg` | a waiting thread is armed for all but stale entries; a timeout is true; a quiet recorded change was reported | two threads, each with an `rmw_event_t` of one publisher, initialized again for either of its two events; one event has a callback and changes once; its attachment may fail |
| `WaitSetEntities.cfg` | types, a waiting thread is armed for all but stale entries; it is woken by its entries, and woken at all; a trigger is consumed only by a report | two threads, by the DDS wait or by polling; a reader and a guard condition that are destroyed and created again, the latter with attachments and resets that fail; null entries |
| `ContextFailures.cfg` | nodes are served; nothing is left after the last; thread, callback target and context outlive their users; the join returns | two nodes, three initializations, any step fails |
| `ContextReinit.cfg` | **violated**: see Findings | one node, thread creation fails |
| `ServiceRpcShared.cfg` | types, no own response is missed, refinement of Rpc | two clients, one server, failures, loss, departure |
| `ServiceRpcCalls.cfg` | an answer fits its call; an assured call is answered | one client, two threads, two servers, two calls, `Half` = 2 |
| `GraphLocal.cfg` | live handles are registered, ended ones leave no ghost, what is published exists | a publisher, a subscription, a service in one participant; any step fails, and may leave endpoints in DDS |
| `GraphPeers.cfg` | once all is handled the peer's cache agrees; a handle is seen | a service and a LOCALHOST subscription in two participants, one may leave |
| `TopicMessages.cfg` | numbers differ unless raced; only the window leaves a message untold; a take that succeeds lost nothing; `2 * count - 1` messages are enough room | two publishing threads, one taker with all three ways of taking, three samples, and a fourth one for `<<2, 3>>`, which cannot overrun with fewer; `<<count, capacity>>` is `<<2, 1>>`, `<<1, 1>>`, `<<2, 2>>` or `<<2, 3>>` |
| `TopicExactRoom.cfg` | **violated**: see Findings | one publisher, one taker that asks for 2 with room for 2 |
| `CdrCodec.cfg` | nothing passes the end; the write needs the size that was counted; what is accepted is what was sent; what arrives whole is accepted | 21 member values of all kinds and shapes; messages of one of them, or of a byte and any two; 0 to 12 bytes cut off; both languages and byte orders on both sides |

The bounds let each hazard happen at least once and then once more: two threads overlap, a
second change comes while the first is handled, an address is used again while cached, a
number passes its low half, a participant is initialized again after a failure. The passing
runs together take every action. Counters are bounded by `MaxChanges` (changes of a status),
`MaxNodes` and `MaxInits` (nodes and initializations), `MaxCalls` (calls per client),
`MaxGone` (departures), `MaxNumber` (numbers of messages) and `MaxSamples` (arrivals); the
graph's handles are each created once. The codec has no counter: `Messages`, `Missing` and
`Fill` are the messages, the bytes cut off and the content of fresh memory that are tried.
The byte in front of two members leaves the first unaligned, and the first leaves the second
at offsets of every kind; the missing bytes fall in values, in padding, in counts and, for the
short messages, in the header.

`WaitSetShared.cfg` declares the wait sets interchangeable and `TopicMessages.cfg` the
publishing threads; no run with liveness declares anything so. `WaitSetShared.cfg` also compares
states by `MCWaitView`, which leaves out what no later step and none of its properties reads:
the histories of EventInfo, the arguments and the result of calls that have ended, and what is
stale without being cached. `TopicMessages.cfg` has a constraint, `MCTogether`: races for a
number, and numbers that failed writes leave out, are followed only while nobody takes or sets
a callback, and the fourth sample only while `<<2, 3>>` is asked for without a callback
(`MCFourth`). Takes and callbacks never read a number, so that the combinations left out are
products of two behaviours that are each covered; the theorems of TopicDataProofs hold without
it.

Deadlock is checked in the runs of EventInfo, WaitSet, TopicData and CdrCodec, whose threads
go on for ever. The others stop when their handles, calls or initializations are used up, and say
`CHECK_DEADLOCK FALSE`.

**Fairness.** WaitSet: a thread that can go on does, and its DDS wait returns when a
condition it is attached to stays triggered; nothing obliges the application to take,
trigger or call. ContextLifecycle: the threads run, and the DDS wait wakes the listener.
ServiceRpc: a send or a take that began goes on to its end, a server with a request waiting
takes it and answers, and a client with a response waiting takes it; nothing obliges a client
to call, and discovery may never end. GraphCache: each participant's DDS thread and
listener thread run; nothing obliges the application to create or destroy. These are the
operating system's scheduler and the reliable readers and writers that the code configures.
TopicData and CdrCodec state safety only, and assume none.

## Findings

`ContextReinit.cfg`: `rmw_context_impl.hpp:90` says of `initialize_participant`
"Initializes the participant, if it wasn't done already". `initialize_node` decides by
`node_count`, which is still 0 when `graph_cache::enable` fails after the participant was
made (`rmw_context_impl.cpp:253`). The next node initializes a second participant over the
first.

`TopicExactRoom.cfg`: `rmw_take_sequence` accepts a sequence with room for `count` messages
and calls less than that "message sequence capacity is not sufficient"
(`rmw_subscription.cpp:899`). But every round of its loop takes up to `count` samples (`944`),
not those that are missing. Asked for 2, it finds 1 message in the first round; 2 more arrive;
the second round takes both and writes the third message beyond the end. What does hold, and
is proved, is that it writes at most `2 * count - 1`.

Behaviour that the models contain, and that the properties therefore name as exceptions:

- a deadline missed by a writer is counted as liveliness lost, and a reader's deadline
  listener asks for the liveliness callback (`event_info_common.cpp:46`, `565`);
- setting a callback leaves the guard condition of a recorded change up (`360`);
- a reader's two setters overwrite each other's bits of `mask`, or install an older copy of it
  last, and a failed `set_listener` leaves mask and callback as they are (`368`,
  `rmw_subscription.cpp:1159`);
- a change whose callback is removed while its listener runs is recorded and announced by
  nothing (`event_info_common.cpp:107`);
- a handle created at a cached address, or an `rmw_event_t` initialized there for another event,
  is not attached (`wait.cpp:49`), nor is one whose attachment fails (`348` to `393`);
- a null entry, or a guard condition that cannot be reset, returns an error after the triggers
  before it were taken back (`wait.cpp:510`);
- a failed trigger makes the retry skip the join (`context_listener_thread.cpp:235`);
- two threads that send through one client may get each other's number
  (`rmw_client.cpp:828`, `847`);
- failed creations of services, clients and subscriptions leave cache entries
  (`graph_cache.cpp:543`, `584`, `655`), and may leave their endpoints in DDS
  (`rmw_client.cpp:277`, `308`, `347` to `357`, `rmw_service.cpp:351` to `361`, and wherever a
  deletion fails as well, which is ignored); a destruction that failed to publish cannot be
  repeated (`512`, `559`); remote readers are never forgotten
  (`rmw_context_impl.cpp:182`); a late message brings a departed participant back
  (`graph_cache.cpp:719`);
- two threads that publish through one publisher may use one number
  (`rmw_publisher.cpp:351`);
- a message that arrives between the count and `set_listener` of a first callback is not
  told until the next one arrives (`rmw_subscription.cpp:1145`);
- a failing take has taken messages that nobody gets, in every round so far
  (`rmw_subscription.cpp:944`);
- in C, arrays of `wchar` are not written, and elements of `wchar` sequences are written as
  32 bits and read as 16; arrays and sequences of 64 bits lose their high half when their
  bytes are swapped (`cdr_deser_buffer.cpp:262`); a C++ vector that cannot be resized to the
  count that was read throws past `deserialize_cdr_to_ros` (`type_support_common.cpp:123`);
- the header of the basic mapping of services never fits the buffer that is allocated.

## The proofs

All for any values of the constants, from the named assumptions of each module. These say only
that the constants have their types; `FieldsFitTypes` of CdrCodec says what type support
guarantees of a message (a `bool` is 0 or 1, an array has its declared size, a nested message
the members of its type), and that counts stay below the 2^16 that the model tells apart.

- **EventInfoProofs**: types, `ChangesConserved`, `RecordedIsFlagged`, `DroppedWasTold`,
  `SharedCountConserved`. `DroppedWasTold` rests on `RecordedIsFlagged`: only because a
  recorded count is flagged does reading return it instead of overwriting it.
  `SharedCountConserved` is about the sum of the two statuses' changes, because a change moves
  from one to the other when it is counted. `ListenerMatchesCallbacks` needs to know what a
  setter that still has to install its listener is about to install (`MaskInv`): `mask` names
  the callbacks but for overwritten bits, a copy that is not `older` is what `mask` is, and with
  nobody about to install DDS has the mask of `mask`, unless the last call was `outdated`.
  `SpuriousOnlyByInstall` is an action property, proved action by action.
- **WaitSetProofs**: types, and that a step of WaitSet is a step of EventInfo or leaves its
  variables alone, so that the theorems above hold here too. `ArmedUnlessStale` and
  `WokenByEntries` follow from an invariant that says of every wait set: the cache names
  what is attached (but for stale entries), nothing else is attached, and what was active
  was attached. None of the properties alone is inductive: a cache that is right now is
  right in a later call only because `NeedReattach` compares every entry.
  `TimeoutMeansNothingReady` joins three of them: who times out was armed for what he asked,
  nothing he was armed for was up, and a change whose guard condition is down was reported
  before. `TriggerIsReported`: of all actions only `Process` lowers a guard condition that
  stays alive, and it lowers those of its own call.
- **ContextLifecycleProofs**: types and the five invariants of `ContextFailures.cfg`, from one
  invariant, `ContextInv`, with a clause for each place of the holder of
  `initialization_mutex`: which prefix of `InitOrder` exists while the participant is set up,
  which suffix of `FiniOrder` while it is torn down, and what is there while it serves. The
  properties speak of the moments when nobody holds the mutex, or of what other threads
  touch meanwhile, and none is inductive: that the last node leaves nothing needs every place
  before it. What exists is what the context points to, unless a step was left undone; the
  clauses for the callbacks and the listener say in which places they may still run, since
  DDS threads and the listener do not take the mutex.
- **ServiceRpcProofs**: types, `AnswersFitCalls`, and, for one sending thread, that
  ServiceRpc implements Rpc, by step simulation. The invariant ties the numbers a client has
  used to the requests, the servings and the responses that bear them. For
  `TakeFindsOwnResponse` it is not enough: a response taken twice would also end the loop
  without a new answer. `OnceInv` adds that each call is written, executed, responded to and
  answered at most once.
- **GraphCacheProofs**: types (no reader ever enters the map of the writers), and the three
  properties of `GraphLocal.cfg` from one invariant, which says for each step of the calls
  for a handle where its endpoints are. It is kept because a step of anything else leaves
  those endpoints alone: DDS's announcements of the participant's own endpoints and its own
  messages are ignored, and those of peers name other gids. `PeersAgree` is about two
  participants and what is between them, and follows from an invariant for each pair
  (`Acquaintance`): of the other's endpoints, the peer's cache has just the writers that it was
  told of, and at least the readers; and the last message the other sent is the last one in the
  peer's queue, or, when that is empty, what the peer knows of its nodes, unless it was lost.
  When all was announced and no message waits, the two agree.
- **TopicDataProofs**: types and the four properties of `TopicMessages.cfg`, each from an
  invariant of its own. `NumberInv`: an unraced thread between its load and its store holds
  the current number, alone; and every number that an unraced thread or sample bears lies at or
  below `sequence_number`, so that the next one is new. `UntoldInv` adds what the window needs:
  once the samples were counted, and with no listener about to run, those unread are missed.
  `RoomInv`: what a call has given and what it has on loan are together at most
  `2 * count - 1`, since a round begins only below `count`. `ResultInv`: what a call took is
  what it gave and what is left on loan, the former before the latter; the order across rounds
  holds because samples are taken from the front of the cache (`TakenFirst`).
- **CdrCodecProofs**: types, `InBounds` and `WriteFitsItsSize`, for messages nested to any
  depth. `InBounds` adds nothing to the types: each call tests the end before it moves the
  cursor, and the size changes only where a pass begins; the work is in the lemmas on the
  padding of the four widths and on the calls a member unfolds into. `WriteFitsItsSize`
  compares two passes over the whole message, without induction over it: the cursor and the
  work list of one step determine those of the next (`After`), and a *run* leads from one to
  another when every set that holds the first and is closed under `After` holds the second.
  The size pass is on the run of the message, and ends at `size`; the pass that writes is on
  the same run, which ends once. The basic mapping writes a header that was not counted: it is
  in the header, or at least 24 bytes ahead of the run, which the padding (7 bytes at most)
  cannot make up, so that it always runs into the end.
- **CdrReadProofs**: `AcceptedIsSent` and `WholeIsAccepted`, for messages nested to any depth
  and readers of any language and byte order, by one invariant (`CodecInv`). They are about
  the end of a conversion, and to keep them one must know at each step of the reader what the
  writer did at this offset. So the invariant remembers the *path* of the writer: a set of
  points (cursor, work list, values sent), each of which leads to another one by a step of the
  serializer, whose bytes are still in memory. The path grows while the message is written
  (a call never touches what is below the cursor) and keeps its points when the end is cut
  off. The reader's cursor is at a point of it. Its own work list is another one, since it
  learns lengths as it goes, but it *matches* the list of that point: each of its entries
  stands for a segment of the writer's list and for the values that are to come from it
  (`Reads`): a member for its field, a count for the count and the elements behind it, so
  many times `operator>>` for as many calls. A call that fits then loads what was put there,
  since swapping undoes the difference of the byte orders (`LoadedIsThere`), and leads to the
  next point; a call can only pass the end of what arrived if bytes are missing. At the
  reader's last entry only the final padding is left of the path, so that all was got. Path
  and match are sets closed under a step, as the runs above: neither needs induction over the
  length of a list, or over the nesting of types.

Every safety invariant and action property that a passing run checks is proved, and so is the
refinement of Rpc. Only liveness is model-checked and not proved, since fairness is out of the
prover's reach: `WaiterIsWoken`, `JoinReturns`, `CallIsAnswered` and `HandleIsSeen`.

## Not modelled

- Type descriptions, QoS conversion, names and mangling, the read-only queries, logging, the
  demo and the CMake modules keep no state: tables and text, which unit tests reach.
- `INCOMPATIBLE_TYPE` and the list of `TopicEventListener`: `add_event` returns when the
  endpoint is not in the list yet (`event_info_common.cpp:721`), so that the list stays empty
  and the event is never reported. There is no behaviour beyond this one.
- The content of a status beyond its change counter, and with it the signed liveliness counts
  that a callback is given as `size_t` (`event_info_common.cpp:608`).
- Content filters, `assert_liveliness`, `wait_for_all_acked` and the message info: each is one
  call of DDS, or a copy of its answer.
- A type identifier that neither side of the codec knows, and allocations that fail there, but
  for those of a count that was read.
- Detaching a condition from a DDS wait set is assumed to succeed, since the wait set has just
  listed it as attached (`wait.cpp:248`); a failing `set_enabled_statuses` is not modelled.

## Order of the modules, and what could follow

The modules were written in the order of what matters most: EventInfo and WaitSet on top of
it; ContextLifecycle; Rpc and ServiceRpc as its refinement; GraphCache; CdrCodec; TopicData.
What could follow, again in that order:

1. signed counts for the liveliness and matched statuses;
2. the new-request and new-response callbacks as instances of the callback of TopicData.
