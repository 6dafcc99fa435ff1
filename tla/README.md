# Formal models of the Evaluation component

TLA+ models of the program in `Code/evaluation/src`: the evaluation component
of a search engine, an HTTP server that hands out query IDs and takes reports
of search results, which it passes on to the Link Analysis component. The
models are translated from the C++ source, not from the design documents,
which describe more than is there (a data store, a thread pool). Paths below
are relative to the repository, or to `Code/evaluation/src` if they are only a
file name.

`PROJECT.json` maps each definition to the lines it stands for and lists the
hazards, runs, mutants, findings and theorems.

## 1. The system

| Component | State | Operations | Interacts with |
|---|---|---|---|
| **main** (`main.cpp`) | shutdown pipe, signal handler | read options, set up SIGINT, run the server | the handler writes to the pipe the server polls; it logs from wherever it interrupted |
| **HTTPServer** (`HTTPServer.cpp:83-147`) | listener socket | `init`, `run`: poll pipe and listener, accept, run a worker to its end | kernel accept queue; one worker at a time, no threads |
| **HTTPWorker** (`HTTPServer.cpp:149-338`, `HTTPServer.h:80-128`) | its connection; a static query ID counter | `run`: parse within a 10 ms receive timeout, check, dispatch to one of six handlers or `notFound` | client; Link Analysis over a connection of its own |
| **parseRequest, parseResponse** (`HTTPServer.cpp:195-276`) | the message so far | first line, headers, body | call SocketStream; the tests read the server's replies with parseResponse |
| **Messages** (`HTTPServer.h:17-78`, `HTTPServer.cpp:24-81`) | method, resource or code, status; headers, body | constructors, `to_string` | printed by `TCPSocket::send`, read by the two parsers |
| **SocketStream** (`TCPSocket.h:86-108`, `TCPSocket.cpp:319-371`) | buffer, position, sticky `m_timed_out` | `hasNext`, `nextWord`, `nextLine`, `remaining`, `passedBuffer` | calls `recv` when it reaches the end of its buffer |
| **TCPSocket** (`TCPSocket.cpp:32-317`) | descriptor, cached timeouts; registry of ports, shared by all threads | create, close, move, bind, listen, accept, connect, setTimeout, send, recv | kernel; a mutex around the registry |
| **Logger** (`Logger.h`, `Logger.cpp`) | map of workers (console, files), a level each; a shared mutex for the map, a mutex for each worker | LOG, add, change, remove a worker | every other component, from any thread and from the signal handler |
| **evaltool** (`Code/evaltool/evaltool.py`) | none | one command, one request | a client of the server |

What is hard here, and what makes each part correct:

* *The server* is sequential, but the world around it is not: clients connect,
  pause, send part of a request and reset whenever they like, SIGINT arrives
  at any instruction, the process crashes and is started again. Correct: no
  connection is lost or answered twice, nothing is acted on that was not fully
  sent, a shutdown request is obeyed soon and with the right exit status,
  query IDs do not repeat.
* *The parsers* read text whose cuts they cannot see. Correct: the result
  depends on the text, not on the cuts; what one side prints the other reads;
  no substring starts beyond the buffer.
* *A send* may take several calls, each of which takes some of the message, is
  interrupted, or meets a peer that has gone; and the socket is closed after
  it with the peer's data perhaps unread. Correct: bytes in order and once, a
  result that is true, and a worker that only the peer can hold up.
* *Sockets* are shared through two tables, the kernel's descriptors and the
  program's ports, that are updated at different moments. Correct: an object
  owns its descriptor, the registry describes the sockets there are, a cached
  timeout is the real one.
* *The logger* is the only part with locks. Correct: whole messages, once
  each, in order, no worker destroyed in use, no deadlock.

`PROJECT.json` lists these hazards line by line.

## 2. The modules

| Module | What it models |
|---|---|
| `HTTPWorker` | No state. What `HTTPWorker::run` and the handlers answer to a request (`Status`), which requests take a query ID or forward a click, and what can be left of a request whose end did not arrive (`Truncations`). |
| `HTTPServer` | The process: start, signal set-up, `init`, the poll loop, the worker, forwards, SIGINT, clients, crash and restart. |
| `EvaluationService` | Abstract specification: requests are answered at most once or dropped when the service goes down, IDs are fresh, clicks are passed on once. |
| `Evaltool` | No state. The request that each command of `evaltool.py` makes, in the terms of `HTTPWorker`; the clients of the server's runs are these and three others. |
| `SocketStream` | The stream's calls, over a peer that sends a text in pieces and may stop. |
| `MessageParser` | What the two parsers share: one action for each call on the stream, the headers, the body, and a reference definition of both (`HeadersOf`, `BodyOf`), which knows the whole text and looks at the places in it where lines and words start. |
| `RequestParser`, `ResponseParser` | `parseRequest` and `parseResponse` with their first lines, and what a text means to each (`RequestMeaning`, `ResponseMeaning`). |
| `HTTPMessage` | No state. The constructors of messages, and the texts `to_string` may make of one. |
| `HTTPParser` | Both parsers, and their properties. |
| `Transfer` | One message through `TCPSocket::send`, from the request's last bytes to the close of the socket, with the kernels' buffers, FIN, RST, `EINTR`, `SIGPIPE` and the peer. |
| `TCPSocket` | Socket objects, the registry of ports and the kernel's sockets, for several threads. |
| `Logger` | LOG and the changes to workers, step by step, with a signal handler on top of the main thread. |
| `HTTPServerProofs`, `HTTPServerRefinement` | Theorems about `HTTPServer`. |
| `TransferProofs`, `TCPSocketProofs`, `LoggerProofs` | Theorems about the module of that name. |
| `HTTPParserProofs`, `HTTPMeaningProofs`, `HTTPPrintedProofs` | Theorems about `HTTPParser` for any texts: of its positions, with lemmas about texts; of what a text means; of texts that `to_string` printed. |
| `MC*` | Small instances for TLC. |

How they fit together. `HTTPServer` extends `HTTPWorker` for the decisions and
takes the parser and the sends at their results. `Parse` sees either the
request its client sent or one of its `Truncations`; that this choice is right
is what `SeenOrTruncated` checks against the parser itself. `Send` either
reaches the client or not, or ends the process (`BrokenPipe`); what leads to
which, and when a call of send may fail to return at all, is in `Transfer`. Of
the logger `HTTPServer` has only `SignalInLog`, the hang that `Logger` shows in
detail (`Hung`). `ReadAsPrinted` joins the printing side (`HTTPMessage`) to the
reading side (`HTTPParser`). It holds of messages a text can carry, which two
assumptions of `HTTPParser` describe (`RequestsAssumption`,
`ResponsesAssumption`): words without white space, header names without a colon
and different in more than case, values and a status that end with their line,
a body that is empty or not all white space, a code that `stoul` reads back
from its digits. The messages the program makes are such: their words and codes
are constants, their two headers are set by the constructors, and their bodies
are printed by the JSON library. Headers are compared as a function from names
to values: a `TODO` at `HTTPServer.h:9` asks that they keep their order, which an
`unordered_map` does not, and `ReadAsPrinted` says nothing of it.

How state corresponds to the code:

* `HTTPServer!pc` is the statement the main thread is at: `setup` (main before
  `set_up_signal_handling` is done), `init`, `loop` (about to poll), `poll`
  (blocked in it), `accept` (poll has reported the listener), `parse` and
  `send` (in the worker), `connect` and `push` (forwarding), `hung`
  (self-deadlock in the handler), `down` (no process). `pipe`, `cur`, `seen`,
  `ID` are the shutdown pipe, the worker's socket, its request and the static
  counter; `queue` is the kernel's accept queue. Of a connection, `request`,
  `arrived`, `reset` and `slow` are what its client sends, whether all of it is
  there, whether the client has gone, and whether it goes on sending without a
  pause of 10 ms and reads nothing, which it may begin and end at any time
  (`ChangePace`); `HeldUp` says when the worker waits for it. `reply`, `forwards`,
  `issued`, `signals`, `caught` and `late` are history.
* A request is a record of what the code tells apart: which API function, POST
  or not, `Content-Type` right or not, how `Content-Length` compares to the
  body, what the body is.
* `MessageParser!call` is the call on the stream that is under way, `message`
  the request or response being filled in. The reading loops of SocketStream
  are functions of the buffer (`WordEnd`, `LineEnd`, `SkipSpace`); when such a
  loop would come to the end of the buffer, `Recv` happens first. This is what
  `grab_if_needed(++m_pos)` does. Characters are model strings: `"T"` and `"L"`
  are the two header names that matter, `"t"` and `"l"` their lower case, `"V"`
  followed by `"1"` is HTTP/1.1. `None` is `std::nullopt`, of which only that
  it is no message is assumed (`NoneAssumption`).
* `Transfer!pc` is where the thread is: `parse` (in a recv), `copy` (in
  `::send`), `close`, `done`, `killed` (by SIGPIPE). `sent` is the variable of
  `TCPSocket::send`, `copied` what the call of `::send` under way has taken.
  `handed`, `got` and `ending` are what the kernels have for the peer, `unread`
  what they have from it, `error` the error a reset has left at the socket. The
  bytes of a message are its positions.
* `TCPSocket!StartClose` and `FinishClose` are the two halves of `close()`
  between which the mutex is not held. `bind` holds it throughout and is one
  step. In the constants each object has a thread that owns it. `create`,
  `listen`, `accept` and `setTimeout` are as in the code, also in uses that no
  caller makes: `lost` and `astray` record the descriptors that a `create` on an
  open object loses, and the objects that a `create` or an `accept` leaves with
  a cached timeout that is not their socket's.
* `Logger!Begin` and `End` stand for the pieces in which a message is written,
  with the worker's mutex held from one to the other.

Operators whose comment calls them mutants are faulty variants of the
definition that follows them, to show that the properties can fail; no
specification uses them.

## 3. The runs

Run any of them with `tlc -config <cfg> <module>`.

| Run | Module, cfg | Distinct states | Shows |
|---|---|---|---|
| `server_safety` | `MCHTTPServer_safety` | 1,622,007 | `TypeOK`, `OneReplyThenForward`, `NoTruncatedReport`, `NoPartialBody`, `OneAcceptAfterSignal`, `FailureOnlyFromPoll`, `NoConnectionLost`, `NoSilentClose`, and that the server implements `EvaluationService` |
| `server_ids` | `MCHTTPServer_ids` | 9,830 | `IdsRepeatOnlyAfterWrap` with a counter that wraps |
| `server_liveness` | `MCHTTPServer_liveness` | 299,217 | `ShutdownIsReached`, `EveryConnectionIsClosed` |
| `parser` | `MCHTTPParser_parse` | 207,209 | `TypeOK`, `NoOutOfRange`, `PiecesDoNotMatter`, `RejectedForGood`, `SeenOrTruncated`, `ReadAsPrinted`, `ParseReturns` |
| `transfer` | `MCTransfer_transfer` | 3,970 | `TypeOK`, `InOrderOnce`, `TrueMeansWhole`, `FailureExplained`, `HeldUpOnlyByPeer`, `ReaderIsServed` |
| `sockets` | `MCTCPSocket_sockets` | 903,233 | `TypeOK`, `DescriptorsOwned`, `NoLeak`, `NoGhostPort`, `PortsExclusive`, `CurrentTimeout`, no deadlock |
| `logger` | `MCLogger_log` | 411,162 | `TypeOK`, `WorkerStays`, `WrittenOnceWhereDue`, `MessagesWhole`, `InOrderOfCalls`, `LogReturns`, `HandlerReturns` |

The other runs end in a counterexample: a statement of the repository's
documents, comments or tests that the code does not keep.

| Run | The code | Who says otherwise |
|---|---|---|
| `server_unique` | `HTTPServer.h:108`: the query ID counter starts at 0 in every run | `README.md:88`: unique "even if the Evaluation component crashes" |
| `server_graceful` | `HTTPServer.cpp:117`: `EINTR` from `poll` is an error, so SIGINT to an idle server makes it fail | `main.cpp:40`, `main.cpp:59`: graceful shutdown |
| `server_initfail` | `HTTPServer.cpp:106`: `EXIT_FAILURE` returned as a `bool` is success | `HTTPServer.cpp:105`, `main.cpp:152` |
| `server_hang` | `main.cpp:59`: the handler logs, and can wait for a mutex of the thread it interrupted | the message it logs, "sending shutdown to HTTP server..." |
| `sockets_exclusive` | `TCPSocket.cpp:98`: closing an accepted connection takes the listener's port out of the registry | `Code/unittest/test_tcp.cpp:21` |

The passing properties say what remains true in spite of these:
`FailureOnlyFromPoll` that a shutdown makes the process fail only when SIGINT
finds poll idle, `ShutdownIsReached` that it is obeyed once the byte is in the
pipe, unless the handler hangs later or the peer of the moment holds the worker
up for ever, `IdsRepeatOnlyAfterWrap` that IDs are unique within a run of the
process, `PortsExclusive` that a port is only doubled if a connection or a
socket with a port of the kernel's choice had it too, `NoLeak` and
`CurrentTimeout` that only a `create` on an open object loses a descriptor, and
that what an object has cached is its socket's timeout unless `create` or
`accept` brought the two together with different ones. (What is cached are
milliseconds; the comment at `TCPSocket.h:57`, "Current timeout in seconds", is
wrong about that.)
`NoPartialBody` says that the late comparison of `Content-Length` still never lets
part of a body through, `TrueMeansWhole` that a result of true does not mean
that the peer has the message - a reset may overtake it - but does for a peer
that comes to the regular end of the stream, and `HeldUpOnlyByPeer` in which
two ways a peer can hold up the only thread: leaving a long reply unread, since
there is no send timeout, and sending on with pauses below 10 ms, since the
timeout is for one recv.

### Bounds

* *Server.* Two connections suffice for every relation between two clients
  (one served while the other waits, resets or is accepted after a signal);
  three in `server_ids`, so that the counter of width 2 wraps and repeats.
  Two signals: the first may set the pipe, the second may hang or kill. Two
  lives: one crash and what is left after it. A backlog of 1 or 2 makes the
  queue full. The requests of `MCAll` are one that takes an ID, one that
  forwards, a report that is bad but whose beginning is good (`Text`), the same
  with a wrong length, and one that does not parse. In `server_liveness` one of
  the two clients may hold the worker up (`SlowConns`), before or after the
  other is served; two add nothing to that, as the worker has one at a time.
  In the other runs none may: `slow` bears on fairness only.
* *Parsers.* Up to five characters after a good first line, over space,
  newline, colon and a letter, reach every way the headers and the body can
  begin and end; up to four cover bad first lines and, over CR, newline, space,
  digit and letter, the ways a status line can go wrong. Printed messages have
  the codes 200 and 400, and no body, a body, or a body of two lines that looks like a header. `MaxRecv` =
  4 characters at a time, so that a recv may bring more than one call needs and
  less than another does. All texts are read by both parsers.
* *Transfer.* Buffers of 2 bytes, and messages of 1, 3 and 6: what fits at once,
  in two rounds, in three. Three signals, so that one call is interrupted with
  nothing taken, one with something, and one more.
* *Sockets.* Three objects of two threads, three descriptors: a listener, its
  connection and a rival. One port to bind, two for the kernel to choose from.
  One of the two timeout options, as neither is looked at for the other: none,
  one the kernel takes and one of a second, which it refuses.
* *Logger.* Two threads and the handler, two workers, two levels, two changes
  to the workers; one thread logs twice, for the order of its messages.

`CHECK_DEADLOCK FALSE` is set where the system may really stop: a server whose
bounded signals and lives are used up, a parser that has returned, threads
whose bounded calls are made. The sockets run checks for deadlock.

### Fairness

* `HTTPServer!FairSpec`: weak fairness of the steps that return by themselves:
  the loop's, and the lookup and connection to Link Analysis, which give up in
  the end; strong fairness of `Accept`, since the loop tries again whenever
  `accept` fails and descriptors are not short for ever; and strong fairness of
  the worker's conversation with its client for as long as that does not hold
  it up (`Converse /\ ~HeldUp`). The last is what the code gives: the 10 ms are
  for one `recv` of a loop without end (`TCPSocket.cpp:145`, `363-371`) and `send`
  has no timeout (`122-130`), so a client that sends a piece every few
  milliseconds, or leaves a reply unread, has the only thread for as long as it
  likes. Replies are not short enough to fit the socket buffers whatever the
  client does: one of them repeats the client's `Content-Length` header, which
  may be of any length (`HTTPServer.cpp:179`, `186`). But one pause of 10 ms ends
  the reading, and a reply that is read again and again comes to its end. For
  the click sent to Link Analysis (`Push`), which has no timeout either, no
  fairness is assumed. Nor is anything assumed of clients, signals, crashes and
  restarts: that a peer holds the worker up for ever is an outcome which both
  liveness properties name, by `[]HeldUp`; `Transfer!HeldUpOnlyByPeer` shows in
  detail that it is the only one.
* `HTTPParser!FairSpec`: the thread runs on when it can. Not even that `recv`
  returns is assumed: `ParseReturns` is about what follows a recv that yielded
  nothing. The texts of the model are finite, the peer's need not be, and while
  pieces come the parser reads on.
* `Transfer!FairSpec`: the thread runs on when it can, and TCP delivers a reset.
  The peer does as it likes; only `ReaderIsServed` is about one that reads on.
* `Logger!FairSpec`: every thread inside LOG goes on when it can. The number of
  LOG calls is bounded, so that no thread is passed over for ever by a mutex,
  which the standard does not promise in general.

## 4. What is proved

For all sets of connections and requests, any width of the query ID, any
backlog and any number of signals and restarts, from the assumptions named in
`HTTPServer` (`RequestsAssumption`, `BoundsAssumption`, `NoneAssumption`):

| Theorem | States |
|---|---|
| `TypeCorrect` | `Spec => []TypeOK` |
| `SignalsHandled` | `OneAcceptAfterSignal` |
| `FailuresSignalled` | `FailureOnlyFromPoll` |
| `IdsUnique` | `IdsRepeatOnlyAfterWrap` |
| `ConnectionsKept` | `NoConnectionLost` |
| `RepliesCorrect` | `OneReplyThenForward` |
| `NeverSilent` | `NoSilentClose` |
| `ReportsSound` | `NoTruncatedReport` |
| `BodiesWhole` | `NoPartialBody` |
| `ImplementsService` | the server implements `EvaluationService` |

The argument. None of these is inductive alone, so each has a stronger
invariant, and the later ones build on the earlier:

* `TypeInv` adds to `TypeOK` that a worker has a connection, and that accept
  finds one in the queue (`WorkerHasWork`): poll reports the listener only if
  the queue is not empty, and nothing but `Accept` and the end of the process
  shortens it.
* `SignalInv`: once a signal was handled the pipe stays readable, so the
  loop can reach neither a blocked poll nor another accept from its top.
* `IdInv`: the IDs issued so far are `0, 1, 2, ...` modulo `IdSpace`, and the
  counter is their number modulo `IdSpace`. Two equal remainders are a multiple
  of `IdSpace` apart.
* `QueueInv` adds to `NoConnectionLost` that there is a connection being served
  only while the worker runs.
* `ReplyInv`: a waiting connection has no reply, one that is being forwarded
  has exactly one, of status 200, and no forward yet.
* `SeenInv`: what the worker works with is the request of its connection or a
  truncation of it; `CutReports` shows that no truncation of a report with an
  honest `Content-Length` is accepted unless the report would be, and
  `CutBodiesRefused` that no truncation with part of a body is dispatched.
* The refinement proof sorts the steps of the server into those that map to
  `ComeUp`, `GoDown`, `Ask`, `Answer`, `GiveID`, `Pass` or a stutter, using all
  of the above and `ListenInv` (the listener is open exactly when the service
  is up).

About `TCPSocket`, for any threads, objects, descriptors, ports and timeouts,
from its `PortsAssumption` (no port is 0) and `NoneAssumption`:

| Theorem | States |
|---|---|
| `SocketsTyped` | `Spec => []TypeOK` |
| `SocketsOwned` | `DescriptorsOwned` |
| `NoneLeaked` | `NoLeak` |
| `TimeoutsCurrent` | `CurrentTimeout` |
| `RegistryBacked` | `NoGhostPort` |
| `PortsShared` | `PortsExclusive` |

They share one inductive invariant, `Inv`, which adds to the properties:

* `Closing`: a thread is inside one `close()` at most, of an object that has a
  descriptor, and what it will assign from is the thread's own. So no other
  thread moves a descriptor away between the halves of `close()`.
* `SocketsOK`: a new socket has no port, a listener has one, and a port nobody
  named is in `unregistered`.
* `Backed` and `Registered`: what the registry and the *live* sockets (open, and
  not being closed by anyone; a lost one stays live) say of each other. `NoGhostPort` alone is not inductive:
  between the halves of `close()` the port has left the registry and its socket
  is still open, and another thread may have bound the port anew.

`TakesKeeps` carries `FinishClose` and `Move`: it names for each object after
the step the one its descriptor came from. `OpensKeeps` carries `Create` and
`Accept`, `LosesKeeps` a `create` that fails, and `ChangesKeep` the four operations that change one socket.

About `Transfer`, for any lengths, buffers and number of signals
(`LengthsAssumption`, `BoundsAssumption`): `TransferTyped`, `BytesInOrder`,
`ResultTrue` and `FailuresExplained` state `TypeOK`, `InOrderOnce`,
`TrueMeansWhole` and `FailureExplained`. The invariant says that what was
handed on is the first `sent + copied` bytes of the message, that nothing is
copied once the call is over, that send has returned exactly if the thread is
past it, with true exactly if all was sent, that the peer reads the end of the
stream only after the close, and that an error at the socket is the work of a
peer that has gone.

About `Logger`, for any threads, workers, levels and calls:

| Theorem | States |
|---|---|
| `LoggerTyped` | `TypeOK` |
| `WorkersStay` | `WorkerStays` |
| `NeverTorn` | `MessagesWhole` |
| `CallsInOrder` | `InOrderOfCalls` |
| `LoggedOnce` | `WrittenOnceWhereDue` |

The argument goes in layers. `LockInv`: a task inside LOG is a reader of the
map, so that no change to the map comes between its steps, and the mutex of a
worker is held exactly by the task that writes there. `WholeInv`: an unfinished
message is the last entry of its stream and belongs to the holder of the mutex.
`OrderInv`: each entry is of a call its task has begun, and one of the current
call only stands in streams the task has come past (`Past`). `OnceInv`: up to
where the task has come, each worker that is due has its message once, and
from there on no worker has it.

About the parsers, for any texts and any `MaxRecv`: `NeverOutOfRange` states
`NoOutOfRange`, and `ParserTyped` states `TypeOK`. A position found by `Find` is
one of the buffer, or where the search began (`FindRange`); so a call leaves
`pos` inside the buffer, or one past its end where it took a line, and after a
line comes only `hasNext`, whose yes means that there is a character from `pos`
on. The minimum in `Find` exists because the naturals are well founded
(`MinOfNaturals`).

And what the two parsers make of a text, for any texts, any `MaxRecv` and any
`None` that is no message:

| Theorem | States |
|---|---|
| `TextsReadWhole` | `PiecesDoNotMatter` |
| `RejectionIsFinal` | `RejectedForGood` |
| `OnlyTruncationsAreSeen` | `SeenOrTruncated` |

The argument. The parser must not be compared to the meaning of its buffer
while it reads, for that changes with every recv: the last word of a buffer may
be the beginning of a longer one, and a request whose first line seems complete
may yet get a fourth word. So `ReadInv` speaks of every text `s` that the buffer
may still become (`Fits`): before a timeout all that begin with it, after one
the buffer alone. `ReadOf(s)` says for each `call` what is known of all of them:
in the first line that the words read are those of `s` up to `pos`
(`RequestRead`, `ResponseRead`), with a word that was not found meaning that
nothing but white space is left; in the headers that `message` lacks only what
the lines from `pos` on give (`HeadersRead`); at the end that the result is the
meaning of `s`. A recv leaves fewer such texts (`FewerFit`), so it keeps the
invariant without a word about what it brought; and each call that returns has
seen the character that ends its word or line, or a timeout, so that what it
found is there in all the texts (`FindIs`, `LineIs`, `WordIs`). Then there is
one lemma for each action: `RequestWords`, `RequestVersion`, `RequestRest`,
`ResponseVersion`, `ResponseCode`, `ResponseStatus`, `AskedForMore`,
`HeaderLine`, `AskedForBody`, `BodyRead`. TLC finds `ReadInv`, with `s` among the
texts that begin with the buffer, in all states of the run `parser`. The
theorems are `ReadInv` at the end: for `s` the buffer, and for `s` the whole
text, which is one the buffer may become as long as nothing timed out.

`OnlyTruncationsAreSeen` adds what a text that was cut can mean
(`CutIsTruncated`). If the cut is in the first line, there are neither headers
nor a body (`OneLine`); behind it the words are what they were (`SameLine`); and
if some body is left, the line that ends the headers came whole, so that the
headers are what they were too and the body is shorter by what was lost
(`SameHeaders`): a right `Content-Length` becomes a wrong one (`LengthsCut`).
With this theorem `NoTruncatedReport` and `NoPartialBody`, proved for a server
that chooses any truncation, hold for every way the network can cut a request.

To be proved about, the reference definitions say where lines and words start
and nothing of a loop; the parsers' reading loops were functions of positions
before.

And that what was printed is read: `PrintedIsRead` states `ReadAsPrinted`, for
any `Requests` and `Responses` that satisfy the assumptions of section 2, with
any number of headers, printed in any order and received in any pieces. A text
that was printed holds its parts one after the other (`Has`, `TextIs`). In the
first line the words start where they were printed and nowhere else
(`FirstLineIs`). The lines of the headers are joined by a recursive function;
what it yields is the last of a sequence of texts each of which is the one
before it and one line more (`Joined`, `CanBeJoined`, `FlattenIs`), so that all
of the lines are there (`PartsThere`), and after `k` of them `HeadersAt` has the
first `k` headers (`ReadTo`, `OneMorePrinted`, `AllPrintedRead`): both by the
least place where it would fail. As names differ in more than case, no line
takes the place of an earlier one; as an enumeration of a finite set leaves
nothing out (`AllListed`), the headers found are all that were printed. The
empty line ends them, since it has no colon (`BodyThere`). This gives
`RequestMeaning` and `ResponseMeaning` of a printed text (`RequestRoundTrip`,
`ResponseRoundTrip`), and `TextsReadWhole` that the parsers return them.
`ToString` of a number is not known to the provers: that a code is read back
is part of `ResponsesAssumption`, and TLC evaluates it for the codes of its
instance.

Only model-checked: the liveness properties (`ShutdownIsReached`,
`EveryConnectionIsClosed`, `ParseReturns`, `LogReturns`, `HandlerReturns`,
`HeldUpOnlyByPeer`, `ReaderIsServed`), as fairness is beyond the prover.

## 5. What is not modelled

* The command line of `main`: a loop over `argv` before anything else runs. Its
  early returns are `SetUpFails`, its option `-c` is one more `AddWorker`, and
  the numbers it lets through are constants here.
* Of `evaltool`, the arguments and the printing of replies; its `proxy` raises
  `NotImplementedError`.
* `Util` and `TimeUtil`, which format errno and the time, and `getIP`, which
  keeps no state: that a lookup fails is `ConnectLinkAnalysis` failing.
* The contents of replies other than their status and query ID, and JSON.
* A peer's host that vanishes without a word, after which TCP itself gives up a
  send in the end (`ETIMEDOUT`): to the program it is a peer that leaves.
* Callers that use a socket in ways none does. The models let them `create` on an
  open object, which is the one leak in the code (`TCPSocket.cpp:66`), and give
  a listener a timeout, which its connections then have without knowing; every
  caller creates on a closed object and sets timeouts on connections only. An
  object is used by one thread, as everywhere in the repository.
* `line.back()` of an empty line (`TCPSocket.cpp:349`), which is undefined: in the
  build it reads a byte of libstdc++'s string that is no CR, so `StripCR` leaves
  an empty line as it is.
* A first `setTimeout` in `HTTPWorker::run` that fails: 10 ms is a value the
  kernel takes.
* A `::close()` or a `getsockname()` that fails on an open descriptor: Linux
  gives neither a reason to, and the object would keep a descriptor that is gone.
* Logging inside the other models, except for the lock the handler can meet.
* `std::shared_mutex` writers are not preferred over readers, and `LOG`'s
  formatting on the stack cannot fail.
* Real sizes: `RECV_BUFFER_SIZE`, 32-bit lengths, the 32 bits of `sent`.
  `Content-Length` is compared, not computed, so that the truncation of `stoul` to 32 bits does not show.
* The branch of `run` for poll events other than POLLIN, which a listening
  socket does not report.
* `addWorker`, `setLevel` and `removeWorker` are one step: the program calls
  them before its signal handler is installed, and they hold the map's mutex
  alone throughout.

## 6. Plan

Done, in this order: `HTTPWorker`, `HTTPServer` with its runs and findings,
`EvaluationService` and the refinement, the proofs about the server,
`SocketStream` and `RequestParser`, `TCPSocket`, `Logger`, the proofs about
`TCPSocket`; then `Transfer` with its proofs, `ResponseParser`, `HTTPMessage`
and their composition with the request parser, `Evaltool`, the proofs about
`Logger`, and those about `HTTPParser`, of its positions first, then of what a text
means, then of texts that were printed.

What could follow: the logger's changes step by step, as a test that adds
workers while others log would see them; the command line, should it come to
check its values; and an abstract specification of a connection that both
`HTTPServer` and `Transfer` implement, in place of the correspondence stated in
section 2.
