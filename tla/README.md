# Formal models of the LazyParking client library

TLA+ models, TLC configurations and TLAPS proofs for
`LazyParkingWindowsCPPClientBL`, the business-logic DLL of the Windows client of
LazyParking. Paths below are relative to `src/LazyParkingWindowsCPPClientBL/`.

## 1. The system

A client program calls a C API (`API.h`); each model descriptor leads to an
object of class `Model` (`Model.cpp`). A model holds at most one session with
the server. During a session it owns two threads:

    application threads          writing thread            server
      Login, Logout,   Enqueue                   send
      requests, Set* ---------> m_RequestsQueue -------->  ...
          |                          ^                      |
          | flags                    | GetParkingStatus,    | recv
          v                          | GetNextExpired,      v
      m_IsConnected, ...  <--- reading thread <-------------
                                 | raises events
                                 v
                            the client's handlers (which may call the API again)

| Component | State | Operations | Talks to |
|---|---|---|---|
| Session engine, `Model` | three atomic flags, thread pointer, socket, cache of spot statuses, list of expired users | `Login`, `Logout`, eight requests, `SetNumberOfParkingSpots`, `SetIP`, `SetPort`, two synchronous getters, `~Model`, the two thread functions and eleven reply handlers | queue, reader, writer, events |
| Request queue, `BlockingQueue` | deque, mutex, condition variable | `Enqueue`, `Dequeue`, `Clear` | all threads |
| Reader, `SocketReader` | receive buffer and a window in it, open flag | `ReadBytes`, `ReadInt*` | `recv` |
| Writer, `SocketWriter` | send buffer and its fill, open flag | `WriteBytes`, `WriteInt*`, `Flush` | `send` |
| Request serialiser | first-message flag | `WriteRequest` | writer |
| Reply parser | none beyond the stream | `GetReply` | reader |
| Messages | lazily filled static maps | conversions between strings and enums | serialiser, parser |
| Events, `Event`, `Delegate` | linked list of callbacks | add, remove, `Invoke` | client |
| C API | two maps of descriptors, `s_InstanceCount` | `CreateModel`, `CleanupModel`, one function per method and per handler | all of it |

What is hard here:

* three flags that four parties read and write one at a time, so that a guard
  such as `m_IsConnected || m_IsConnecting` is two loads with other threads
  between them;
* thread lifetimes: `Login` joins the previous writing thread, which joins the
  reading thread, which runs the client's handlers;
* a login that ends only when the status of every parking spot has arrived, in a
  cache that the previous session has left full;
* failures half-way: `connectSocket` throws after the old thread is deleted,
  `recv` and `send` throw on threads nobody catches for;
* a list of expired users that two threads fill and empty without a lock, kept
  apart only by the order of requests and replies;
* two buffers whose arithmetic must survive any fragmentation of a TCP stream;
* a format, Java's, of which the serialiser writes back-references by number and
  the parser skips what it does not need by counting bytes.

What makes each component correct:

* session: one session at a time; nothing of an earlier session is sent in a
  later one; connected means logged in with a complete fresh cache; a request
  that is accepted is sent and answered by its event; a client that has
  been told it is logged in is refused neither a request nor its Logout; every call returns; one socket is open at a time;
* queue: first in, first out, no lost wake-up, no pop from an empty deque;
* reader: every byte of the stream is delivered once and in order, and `recv` is
  never asked for zero bytes (its answer 0 would pass for the end of the
  connection);
* writer: every byte reaches the wire once and in order, the loop ends, `Flush`
  keeps nothing back;
* serialiser and parser: a message means at one end what it meant at the other,
  and the parser gives up only when the stream has ended or a text is too long;
* expired users: what the client takes from the list is what the server has
  reported since the client asked, each user once;
* events: a handler is called while it is registered, and only then;
* API: a descriptor leads to the object it was made for or to nothing.

## 2. Modules

| Module | Models | Role |
|---|---|---|
| `SessionPromise` | | what a session promises its client |
| `Session` | `Model.cpp`, the calls of `API.cpp`, raising of events | the session engine, shown and, for a careful client, proved to implement `SessionPromise` |
| `MCSession` | clients | which calls a client makes, and when |
| `SessionProofs` | | proofs about `Session`: types, lives of the threads |
| `SessionTalkProofs` | | proofs about `Session`: socket, conversation, events |
| `SessionPromiseProofs` | | proofs about `Session` with a careful client, which calls from its thread or from its handlers: what the flags mean to it, and that `Session` implements `SessionPromise` |
| `ExpiredUsers`, `ExpiredUsersProofs` | `Model.cpp:266-292`, `427-443` | the list of expired users and the chain of requests that fills it |
| `FifoQueue` | | what the writing thread relies on |
| `BlockingQueue` | `BlockingQueue.h` | shown to implement `FifoQueue` |
| `BlockingQueueProofs` | | proofs, the refinement among them |
| `TokenProvider` | | what the parser relies on (`ITokenProvider.h`) |
| `SocketReader`, `SocketReaderProofs` | `SocketReader.cpp` | window over the incoming stream, shown and proved to implement `TokenProvider` |
| `SocketWriter`, `SocketWriterProofs` | `SocketWriter.cpp` | buffer before the outgoing stream |
| `Messages` | `Message.cpp`, `Message.h`, what the methods of `Model` make of their arguments | requests, replies, names of constants |
| `Tokens` | `WriteInt*`, `ReadInt*`, what the two buffers do to a value | units of the streams |
| `RequestSerializer`, `ReplyMessageParser` | the files of these names | a request as tokens; a reply out of tokens |
| `JavaStream` | the server, outside the repository | reads requests, writes replies |
| `Wire`, `MCWire` | a connection | composes the five above |
| `Registry`, `RegistryProofs` | `API.cpp`, `Delegate.h`, `Event.h`, `Model.cpp:8-51` | descriptors, lists of callbacks, Winsock |

`Session` uses the queue as `FifoQueue` describes it (an `Append` and a `Head`
in one step each), which `BlockingQueue` is shown to justify. `Wire` uses the
reader as `TokenProvider` describes it (a read is answered in full, up to the
buffer's length, or the stream has ended), which `SocketReader` is proved to
justify, and of the writer that a write across the buffer's end is spoiled and
every other one is not, which `socket_writer` and `long_request` show.

### Session

One step is one access to something that two threads share: a load or a store of
a flag, an `Enqueue`, a `Dequeue`, a join, a message. `pc` says where each
application thread (and each handler, which is the caller `Reader`) is inside a
method; `wr` and `rd` say where the two threads are. The names of the labels
follow the methods: `login.connecting` is the load of `m_IsConnecting` in
`Login`. `Branch` is such a load; the early returns go to a `refused` label.

| Variable | Code |
|---|---|
| `isConnected`, `isConnecting`, `isDisconnecting` | `m_IsConnected`, ... |
| `queue` | `m_RequestsQueue`, oldest first |
| `spots`, `cache` | `m_NumberOfParkingSpots`; `m_CachedStatuses` with, for a valid entry, the number of the session that reported it |
| `writingThread` | `m_WritingThread`: null, live, or pointing to a deleted object |
| `latestLogin`, `nextSpot`, `event` | `latestLoginReply`, the loop variable of `handleLoginReply`, the event whose handlers run |
| `toServer`, `toClient`, `server`, `sockets` | the connection |
| `fault` | why the process has ended (`ProcessEnds`, label "ended"): an uncaught exception on a thread, or a use of a deleted thread object |
| `session`, `owed`, `view`, `calls`, `extras` | history and bounds: `owed` counts the calls accepted since the latest Login (itself included) whose events are to come, `view` is what the client has been told (a call of `Logout` changes it when its request joins the queue) |

Three groupings of accesses into one step are deliberate. `WriterSend` is a
`Dequeue` and a `WriteRequest`, because only this thread takes from the queue
and nobody else writes to the socket. `ReceiveStatus` and `ReceiveLogout` load
`m_IsConnected` in the step that receives the message, because the only other
writer of that flag, the writing thread, stores to it after it has joined the
reading thread. `SetApply` replaces the array in one step: what another thread
would see of a half-replaced array is a data race, and `CacheKeptWhileReading`
says that no step replaces the array while the reading thread may use it.

The eight requests share a guard and differ in their type and in whether they
check their arguments; what the checks are is abstracted to "the arguments are
bad" (`RequestBadArguments`, `LoginBadArguments`). The server is not in the
repository: `ServerAnswers` gives one reply to each request in order, with the
replies the code distinguishes, and `ServerPushes` the unsolicited statuses for
which `ParkingStatusUpdate` exists. A client is a function from methods to what
it has been told (`Views`) when it calls them, one for its threads and one for
its handlers.

### SessionPromise

The client's view of a session: where it stands (`view`), which accepted calls
still owe it an event (`owed`), the event being raised. Its `Next` says when a
call may be accepted or refused and when an event may be raised. A Login is
accepted only when the last session has settled; nothing is promised of one that
is refused, for the code refuses some that come soon after `LogoutReply`. A client
that has been told it is logged in is refused neither a request nor its Logout:
it stays "in" until a Logout is accepted, so that a guard which turned such a
Logout away would break the promise. One Logout is under way at most. `LoginReply`
reports a success if and only if the server accepted; every event has a call of the
same session behind it; nothing else is owed when `LogoutReply` comes. `Session`
maps to it by `Promise`, where all of these are one property, `KeepsPromise`. The
promise is to a client that the session runs draw; others are told under "other
behaviours" below.

### ExpiredUsers

As much of a session as a chain of requests meets. `RequestExpiredUsers` is a step
per flag it loads, then the steps of `RequestSteps`; `GetNextExpiredUser` is two
loads (with the test for emptiness in the second), the pop, and the decrement;
`handleGetNextExpiredReply` is `Push`, `Count`, `RequestNext`, or `Raise`. Another
thread may log out at any time (`Leave`, `LeaveEnqueue`), which cuts the chain, and
the client may log in again with what is left in the list. `Patient` is a client
that does what API.h:77 says: it asks again, or takes users, when the event has
told it that the list is prepared.

### Messages, Tokens, RequestSerializer, ReplyMessageParser, JavaStream, Wire

A token is a byte, an integer or a run of characters, with a value and a length in
bytes. The serialiser writes tokens; the parser reads or skips bytes, and gets
`Noise` when it is not at a token's beginning or takes more or less than it has.
So a skip of one byte too few spoils what follows, as it does in the code, with no
byte modelled. Texts are runs of characters of one kind with a length, which is
all that the code looks at. `GetReply` is a pipeline in the order of the code, one
operator per group of reads; `Read` has the reader's clamp and the assertion on
the number of bytes, `short` that the stream has no more bytes (the reading thread
waits, or the closed connection makes an assertion fail), `bad` that an assertion has
failed.

`JavaStream` reads a request by Java's grammar, quoted in the comments of
`RequestSerializer.cpp`: it assigns handles to classes, strings and instances in
the order in which they come, resolves references, and knows the server's classes,
their identities and fields. It is independent of the serialiser's order of writes.
`WriteReply` is laid out as the comments of `ReplyMessageParser.cpp:125-161` have it.

In `Wire` any request that a method of `Model` accepts is made (`Messages` has their
checks), crosses the send buffer (`Committed`) and is read by the server; then any
reply is written and read by `GetReply`, and the server may close with only the
first bytes of what it has sent having arrived. A long has 16 bits in `MCWire`, so that
the overflow of `date * 1000` is within reach.

### BlockingQueue

`Acquire` is a lock's constructor; `Push`, `Erase`, `Test` and `Pop` run inside
and `Release` the mutex; `Notify` comes after the release, as in the code; `Wake`
is a spurious wake-up, after which the mutex is acquired and the predicate
tested again. Popping an empty deque is undefined; the model then takes "no
request", which the type invariant excludes.

### SocketReader and SocketWriter

Bytes are numbered: the i-th byte of the stream is i, so that a buffer says
which bytes `memmove`, `memcpy`, `recv` and `send` have put where. One step is a
call's prologue, one turn of its loop, or its return. Closing (a result of 0)
and errors (an exception, after which the process ends) may happen at each turn.

### Registry

A node is an address; the allocator gives freed ones out again. `Link` and
`Unlink` are `AddCallback` and `RemoveCallback`, whole calls of the API around
them (`AddEventHandler`, `RemoveEventHandler`) are one step, and `Invoke` is a
step per handler called and per handler returned, between which handlers and
other threads add and remove. `From` is what a loop along `m_Next` meets: the one
path of different nodes that `m_Next` links up to `nullptr`. `Following` reads `m_Next` after the handler has
returned, from a node that may have been freed. `CleanupModel` begins what
`ModelDestroyed` ends when the thread that runs the handlers has been joined. The
map's entries of a destroyed model stay, with addresses that come into use again.
The maps are not synchronised, so calls are taken one at a time, as if clients
held a lock. When a handler asks for its model while `erase` destroys it, `Finds`
allows either answer. When Session raises an event it has no list: Registry says
who is called.

## 3. Runs

Every cfg turns deadlock checking off where the system may stop: a client that
has made its `MaxCalls` calls, a peer that has closed. `blocking_queue` and
`registry` keep it on.

| Run | Shows |
|---|---|
| `session_careful` | one application thread that logs in at any time, makes requests and logs out when it has been told it is logged in, and sets the number of spots at any time but during a login: requests only reach a session that will send them, connected means fresh, a set `m_IsDisconnecting` has a Logout behind it, the cache stays while it is filled, and `SessionPromise` is implemented |
| `session_handlers` | when everything but `Login` and clean-up is called from handlers, at any moment: the guards still agree with the session, and `SessionPromise` is implemented |
| `session_anytime` | any call at any moment from a thread and from handlers, with unset flags, failing connections: one session at a time, nothing stale sent, the conversation on the wire well formed, no event without a call of its session, one socket |
| `session_live` | under fairness every accepted call gets its event in its own session and every call returns |
| `blocking_queue` | no lost wake-up, no pop of nothing (in `TypeOK` and `IsFifo`: it would hand on no request), and `FifoQueue` with its fairness |
| `registry` | two models and their lists of callbacks while events are raised: a list is what the client subscribed, a usable descriptor leads to its own node, `Invoke` calls each callback it owes a call and no other, and ends; no node leaks; Winsock is up while a model lives |
| `socket_reader` | the window: types, room for `recv`, and `TokenProvider`: order, amount, nothing left at a close |
| `socket_writer` | count and complete flushes for any writes and any `send`; order as long as no write takes two turns of the loop and no `send` is partial |
| `wire` | every request is read as it was made if its texts have at most 208 characters together (with 209 one is not: the bound is tight) and its date in milliseconds fits a long; every reply returned is the one sent, never half of one; `GetReply` throws on an open connection only for a text longer than 512, and never waits for bytes that no reply has |
| `expired_users` | a patient client's list is used by one thread at a time and holds what the server has reported, over logouts and sessions; under fairness a chain ends in its event or its session in a logout |

Each of the following runs has one property that a comment of the repository
states and that TLC refutes; `PROJECT.json` quotes the comment for each.

| Run | What happens |
|---|---|
| `failed_reconnect` | a failed connection leaves a dangling thread pointer, which the next `Login` joins |
| `long_request` | a write across the end of the send buffer repeats its first bytes |

Other behaviours that TLC shows with a change to one of these configurations, and
that the reader should know of (`AppMay`, `HandlerMay`: who calls what, when):

| Behaviour | Configuration | Property TLC refutes |
|---|---|---|
| `Model.h:45`: flags without a value let a request pass before any login | `UnsetFlag = {FALSE, TRUE}`, requests while "out" | `RequestsOnlyInSession` |
| the guard's two loads around the two stores of `Model.cpp:472-473`: `SetNumberOfParkingSpots` deletes the array under the reading thread | two spot counts, Set while "pending" | `CacheKeptWhileReading` |
| the same two loads in `~Model`: it does not log out and joins for ever | clean-up while "pending", `FairSpec` | `CallsReturn` |
| the guard's two loads around the two stores of `Model.cpp:323-324`: a request made after `LogoutReply` is accepted into a queue nobody empties | requests while "out" | `RequestsOnlyInSession` |
| the loads of `Model.cpp:103` around the same stores: a `Login` made after `LogoutReply` is refused, though API.h:42 allows it | `session_careful` with `AppMay <- Documented` | `LoginAccepted`, below the table |
| `Login` in a handler (of `LogoutReply`, say) joins the thread it runs on (`Model.cpp:111`) | Login by handlers while "out", `FairSpec` | `CallsReturn` |
| a Logout accepted while connecting: its reply is reported as a successful login (`Model.cpp:499-504`), and `LogoutReply` is never raised | Logout while "pending", `LoginReplies = {"Success"}`, `FairSpec` | `Answered` |
| the two loads of `Model.cpp:128` around the two stores of `Model.cpp:472-473`: a `Logout` called just before `LoginReply` is refused to a client that is logged in by then | Logout while "pending" | `KeepsPromise` |
| a Logout overtaken by the end of its session leaves `m_IsDisconnecting` set for the next one | Logout while "pending" | `DisconnectingHasLogout` |
| a request enqueued behind a handler's Logout is never sent | requests by the thread, Logout by a handler, while "in" | `RequestsOnlyInSession` |
| a second `RequestExpiredUsers` before the first one's event: two chains fill the list while the client empties it (nothing in API.h:74-79 forbids the call) | `expired_users` with `Patient = FALSE` | `ListUsedByOne` |
| a request whose texts have 209 characters or more is spoiled where it crosses the send buffer's end | `wire` with `LongestTexts = 209` | `RequestsArrive` |
| a date whose milliseconds do not fit a long arrives as another | `wire` without `Representable` | `RequestsArrive` |
| a failed `getaddrinfo` leaves a socket open (`Model.cpp:540`) | `ConnectFailures = {"getaddrinfo"}` | `OneSocket` |
| a callback that removes itself (`Delegate.h:91` reads its freed node) | `registry` with `RemovesWhileRaised = TRUE` | `InvokeReachesDue` |
| a descriptor of a cleaned-up model removes another model's callback (`API.cpp:115` leaves it in the map) | `registry` with `StaleDescriptors = TRUE` | `ListsAreSubscriptions` |
| a partial `send` repeats the head of the buffer (`SocketWriter.cpp:72`) | `socket_writer` with `WriteSizes = {1, 3}` | `WireInOrder` |

`LoginAccepted` is no definition of the project; it is
`[][\A t \in Apps : view = "out" /\ pc[t] = "login.disconnecting" => pc'[t] # "login.refused"]_vars`.
`Login` loads `m_IsConnected` before, and `m_IsDisconnecting` after, the writing thread has
cleared both.

Read in the source, with no run of their own: a `RequestExpiredUsers` whose guard loads
`m_IsConnected` before and `m_IsDisconnecting` after the writing thread has cleared them returns true,
and no event follows (which is why `ChainEnds` asks for a reading thread that runs); `ChangePassword` accepts an empty user
name (`Model.cpp:169`; API.h:56 says it must not be empty), `CancelReservation` does not
check its identifier (`Model.cpp:153`; Model.h:83 says it must be greater than 0), and a reply's date
before 1970 becomes one in the far future, because `dateFieldTemp` is unsigned
(`ReplyMessageParser.cpp:29`, `75`; `Seconds` has it so).

The clients of the passing session runs are drawn so that these disagreements
are outside them: `Careful` never calls `Logout` or `SetNumberOfParkingSpots`
during a login, nor cleans up then; `Handlers` never call `Login` or clean up.

### Bounds

* Calls: 6 (`session_careful`, `session_handlers`) allow two full sessions with
  a request each (login, request, logout, twice); 4 with every client
  (`session_anytime`) allow a session and a second login; the table above needs
  at most five.
* Spots: 1 or 2, starting at 2. One spot is a login that completes at once, two
  make it wait for the last; changing between them replaces the array.
* `MaxExtras` = 1: one pushed status and one expired user, which is one turn of
  each loop that they feed.
* Two request types, one with checked arguments and one chained
  (`GetNextExpired`), stand for the eight, which share their code path.
* Queue: two producers and four calls; a lost wake-up needs one producer and one
  call, an overtaking two.
* Reader: a buffer of 5, reads up to 7, a stream of 12: more than two buffers, a
  read that forces a `memmove`, and reads equal to and longer than the buffer.
* Registry: two models, two events, three nodes, three descriptors: a list of
  three has a first, a middle and a last; three descriptors for three nodes let a
  node be used again behind a stale one. Nothing else grows.
* Wire: two messages under way, so that the second begins where the first ends; the
  buffers of `Model.h`; texts of no, few, 208, 209 and (replies) 513 characters;
  dates on both sides of the overflow; cuts in the header, inside every kind of
  field, at their ends and at the end of the message. One spot: it is a number that is passed on.
* Expired users: two users and up to three reported, so that order, repetition and
  a list of several can go wrong; four calls over three sessions, so that a chain
  cut in one session meets the next.
* Writer: a buffer of 4 with a write of 9 (twice round) and writes that fill it
  exactly; `StreamLength` bounds what is written.

### Fairness

`FairSpec` of `Session` asks for weak fairness of each caller inside a method,
of the writing thread, of the reading thread (whose handlers return) and of the
server's answers: the operating system runs threads that can run, and nothing
in the code can disable a step of a thread once it is enabled except the thread
itself. The client is never obliged to call, the server never to push, and the
connection never to fail. `BlockingQueue` asks the same of producers inside a
call and of the consumer, which the loop at `Model.cpp:314` brings back; no
spurious wake-up is owed. `Registry` asks it of a thread inside `Invoke`,
whose handlers return. `ExpiredUsers` asks it of a call under way, of a logout under way,
and of both threads of the session; the server answers. `Wire` states none: it has no liveness, and `RepliesTaken` says as an
invariant what keeps the reading thread from waiting for ever. Mutexes are not assumed to be fair: producers stop
after `MaxCalls`.

## 4. Proofs

TLAPS checks these for every value of the constants.

| Theorem | Says | Assumes |
|---|---|---|
| `SessionProofs!TypeCorrect` | `Session` keeps its types | |
| `SessionProofs!OneSessionAtATime` | `OneSession` | `SingleClient` |
| `SessionProofs!NoRequestSurvives` | `NoStaleRequest` | `SingleClient` |
| `SessionTalkProofs!SocketPerSession` | `OneSocket` | `SingleClient`, `AddressesResolve` |
| `SessionTalkProofs!OneConversation` | `Conversation` | `SingleClient` |
| `SessionTalkProofs!EventsHaveCalls` | `NoEventWithoutCall` | `SingleClient` |
| `SessionPromiseProofs!PromiseKept` | `KeepsPromise`: `Session` implements `SessionPromise` | `CarefulClient`, `KnownAnswers` |
| `SessionPromiseProofs!RequestsAreSent`, `ConnectedIsFresh`, `CacheKept` | `RequestsOnlyInSession`; `ConnectedMeansFresh`; `CacheKeptWhileReading` | `CarefulClient`, `KnownAnswers` |
| `SessionPromiseProofs!FlagHasLogout` | `DisconnectingHasLogout`, while no thread has thrown | `CarefulClient`, `KnownAnswers` |
| `ExpiredUsersProofs!Typed`, `Prepared`, `OneUser` | `ExpiredUsers` keeps its types; `PreparedAsReported`; `ListUsedByOne` | `Patient` |
| `BlockingQueueProofs!Typed` | `BlockingQueue` keeps its types: nothing is popped from an empty deque | |
| `BlockingQueueProofs!Synchronised` | `MutexHeld`, `PopFindsItem`, `NoLostWakeup` | |
| `BlockingQueueProofs!ImplementsFifo` | every step is a step of `FifoQueue` or a stutter | |
| `RegistryProofs!Typed`, `Winsock`, `Ownership` | `Registry` keeps its types; `WinsockHeld`; `NodesOwned` | |
| `RegistryProofs!Subscriptions`, `Descriptors` | `ListsAreSubscriptions`; `DescriptorsLead` | no `StaleDescriptors` |
| `RegistryProofs!InvokeCallsDue` | `InvokeReachesDue` | neither `StaleDescriptors` nor `RemovesWhileRaised` |
| `SocketReaderProofs!WindowInBuffer`, `AlwaysRoom` | the invariants of `socket_reader` | |
| `SocketReaderProofs!InOrder`, `AtMostAsked`, `AllDelivered` | bytes in order, no more than asked for, none left at a close | |
| `SocketReaderProofs!Implements` | `IsTokenProvider`: the reader implements `TokenProvider` | |
| `SocketWriterProofs!Typed` | `SocketWriter` keeps its types | |
| `SocketWriterProofs!LoopProgresses`, `NoByteLost` | the loop of `WriteBytes` never meets a full buffer; `CountKept` | |
| `SocketWriterProofs!FlushSendsAll` | `FlushedRequests` | |
| `SocketWriterProofs!OrderKept` | `WholeWritesInOrder` | |
| `SocketWriterProofs!WholeRequestsInOrder` | `WireInOrder` | `Fits`: requests no longer than the buffer, no partial sends |

`SingleClient` is one application thread whose handlers neither log in nor clean
up. Without it the theorems are false, not only unproved: two threads in `Login`
pass its guard together. `CarefulClient` covers the clients of `session_careful` and
of `session_handlers`, for any requests, spot counts and bounds. It has one thread,
which logs in and cleans up. Requests and Logout are made either by this thread
(`ThreadLeads`), between its Login and its Logout and, for the Logout, when it has been
told that it is logged in, or by the handlers (`HandlersLead`), whenever they like; the spots
are set by handlers at any time and by the thread when it is not in a login. It does not
clean up during a login, nor, if the handlers lead, before it has been told that it is
out; the flags start as FALSE. The table of
section 3 has, for the conditions that the code itself does not enforce, what happens
without them. Connections may
fail here, which the two runs leave out. `KnownAnswers` says that the server
refuses a Login for no other reason than the two that `LoginReply` reports.

*Session.* `OneSession` is not inductive: that no thread runs at `login.clear`
follows from how the threads' lives hang together. `Lifecycle` in
`SessionProofs` relates `writingThread`, `wr`, `rd` and the one caller's label:
a thread runs only behind a live pointer or between `login.spawn` and
`login.assign`, `wr = "done"` only after the reading thread has been joined, and
so on. `NoStaleRequest` needs `OwnRequests` besides: what is enqueued between
`login.clear` and the start of the writing thread belongs to the new session,
because the reading thread, and with it every handler, is off.

What `SessionTalkProofs` shows holds whenever the client calls, and whatever the
unset flags, the server and the connection do. `AddressesResolve` excludes a failed
`getaddrinfo`, which leaves its socket open (section 3). The socket and the
conversation follow from `Lifecycle`, from `HandlersDone` (no handler runs once the
reading thread has ended) and from where the Login is between `login.enqueue` and the
server (`Talk`). That every event has a call needs more, for handleLoginReply logs
out by itself after a refusal, with no call behind it, and the reply to that Logout
is reported as the LoginReply. `Attempt` says that `m_IsConnecting` covers an attempt
to log in, so that no second one begins; `Answer` that the answer to a Login comes
first and once; `Doubt` that a `m_IsConnected` left over from the session before has
`m_IsDisconnecting` beside it, because `Login` tests the two together; `RefusedLogin`
where the uncalled-for Logout stands and that `m_IsConnected` is clear beside it. Then
`LoginOwed`, `LogoutOwed` and `RequestsOwed` bound what this session owes from below by what is
under way: a LoginReply while an attempt is pending, a LogoutReply while a Logout
travels that will be reported as one, and as many events as requests in the queue and
on the wire.

*SessionPromise.* The refinement is proved step by step: `StepKept` says that every
step is one of `SessionPromise` or changes nothing of what it shows, with a lemma for
each kind of step (a call's first access, the rest of a call, the writing thread, each
of the reading thread's handlers). What a step of the client needs is `Core`, what the
flags mean to a client that knows what it has been told: `FlagsMean` says for each flag
where the threads must be when it is set, `LogoutMarked` that a Logout that is in the
queue or has been sent (`Sent`) or is about to be enqueued has set `m_IsDisconnecting`,
so that there is one in a session, `LogoutBehind` that the flag has such a Logout behind
it, `Standing` where the
session is for each `view` (while the client is "in" the writing thread is in its loop with
no Logout in the queue, and until `LogoutReply` `m_IsConnected` is set), and `At` what the loads that a call of the client's thread has
made so far still say at its next label, whatever the two threads have stored since. The
last is what a guard of two or three loads rests on, and it is why the client must be
careful. `ReaderAt` says the same of the calls of handlers, with other facts
(`HandlerAt`): a handler runs on the reading thread, so the session stands still while it
calls, and what its loads say stays true unless the client's thread changes it, which
`Sides` excludes: thread and handlers do not both make requests and log out. That a
handler finds `m_IsConnected` set, unless it is one of the session's last, rests on the
account of what is owed: before the flag is set no request can have been made that is
answered now. So `Core` and `Accounts` are one induction (`CoreAccountsInvariant`). What a
step of the reading thread needs is the account of what is owed: `Accounts` and `TwoEnds` say that
the events owed are exactly the calls of this session under way (`SessionTalkProofs` has them from
below only), so that nothing else is owed when `LogoutReply` comes. `FreshCache` says of the
loop of `handleLoginReply` and of the statuses on the wire that what the cache holds in
front of `nextSpot` is of this session; with it `m_IsConnected` means fresh.
`Ended` is there because a thread that throws takes the process with it: nothing
is asked of the flags then.

*ExpiredUsers.* The list has no lock; what keeps its users apart is that a chain is
one request that travels. `OnePlace` says so: the request is in the queue, or its
answer is on the way, or the reading thread handles the answer, never in two of these places,
and in none while no chain runs or a call has yet to enqueue it.
`Lifetimes` ties the flags to the threads' ends, so that a session has at most one
Logout, with nothing behind it on the wire; `Contents` says what the list holds
while a chain runs. `Patient` is needed: without it two chains run.

*BlockingQueue.* The four invariants are inductive together: `PopFindsItem`
needs `MutexHeld` to keep `Clear` out between the predicate and the pop, and the
type of what has been taken needs `PopFindsItem`. The refinement maps the deque
to its reverse; `ReversePush` and `ReversePop` are the two facts on sequences.

*Registry.* The lists exist only as addresses; the proofs name them. `Shape(L)` says of
a family `L` of sequences, one per model and event, that heads and `m_Next` lead along
it (`Leads`), that no node is in two of them (`Apart`), and that it holds what is
allocated (`Owns`); the invariant is that there is such a family, and each action
names the next one. This much holds for every client: freed nodes are used again, but
never while a list has them. `Subscribed(L)` adds that the callbacks of the nodes are
the subscriptions and that the map leads to the nodes; it needs that no descriptor of
a cleaned-up model is passed, for its entry leads to an address that is someone else's.
`Position` says where an `Invoke` is: at the k-th node of its list, or behind its last,
with the callbacks due being those of the rest. A step of `Invoke` goes to k + 1, an
addition in front shifts k, and a removal before or behind k, but not of the node that
`Invoke` is at, keeps it at a node of the list. With `RemovesWhileRaised` it is false.
`IsFiniteSet(Nodes)` and `IsFiniteSet(ModelDescriptors)` are assumptions of `Registry`:
addresses and integers are finite.

*SocketReader.* `Implements` maps every step to one of `TokenProvider` or a
stutter; that the bytes shown are the next of the stream is what the invariant's
window gives. The strengthening says that the bytes in the window are the ones
after those delivered, that what is missing is what is needed less what is held,
and that there is room for it behind the window.

*SocketWriter.* `CountKept` needs that only a write under way leaves bytes to
commit, and that a request of which nothing has been written occupies nothing.
Order needs that the first turn of a write begins with the byte after those on
the wire and in the buffer (from `CountKept`), and that a `send` of the whole
buffer puts on the wire the run of bytes that it holds. `Fits` then gives
`WireInOrder` itself, because buffered and uncommitted bytes together fit the
buffer and `whole` stays true.

Only model-checked: all liveness (`Answered`, `CallsReturn`, `InvokeEnds`, `ChainEnds`, the
fairness part of `IsFifo`) and `Wire`. The last is beyond the prover: its
modules recurse over tokens, and what a recursive operator computes for every
input needs an induction that the installed provers cannot instantiate.

## 5. Plan

Done: the modules, runs and proofs above. Left, in order of importance:

1. `StatusCache`: fields of a status read by `GetParkingSpotStatus` while the
   reading thread writes them (`Model.cpp:296-304`, `451-454`).
2. Two application threads in `Login` and in `Registry`, with `s_InstanceCount` split
   into its loads and stores.

## 6. Not modelled

* Wording of errors, `Exceptions.cpp`, `dllmain.cpp`, precompiled headers, the mock
  build (`_MOCKUP`).
* Weak memory: the flags are sequentially consistent atomics, and the mutex orders
  the queue.
* What a status says, and `GetParkingSpotStatus`, which only reads it: read while
  the reading thread writes it, a `std::string` is a data race with no outcome to
  reason about, and the two flags may be of two reports, which no comment excludes.
* The lazily filled maps of `Message.cpp`: in one model each is used by one thread; two
  models in session at once race on them, again with no outcome to reason about. The maps
  of descriptors likewise: `Registry` takes calls one at a time.
* Bytes of integers (`htons` and the like) and characters of texts: values pass
  through unchanged.

Winsock and the server are outside the
repository and modelled only as far as the code depends on them.
