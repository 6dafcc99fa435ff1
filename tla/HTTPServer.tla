----------------------------- MODULE HTTPServer -----------------------------
(***************************************************************************)
(* The evaluation process: main (main.cpp), HTTPServer::run's poll loop    *)
(* and the worker it runs for one connection at a time (HTTPServer.cpp),   *)
(* with what surrounds them: clients that connect, send slowly and reset,  *)
(* SIGINT, the kernel's accept queue, the Link Analysis server, a crash    *)
(* and a restart.  One connection carries one request.  The socket calls   *)
(* are taken at their result; logging is left out, but for the lock that a *)
(* signal handler can find held by the thread it interrupts.               *)
(***************************************************************************)
EXTENDS HTTPWorker, Sequences

CONSTANTS
  Conns,        (* the connections clients may open                        *)
  Requests,     (* the requests they may send                              *)
  SlowConns,    (* those of Conns whose clients may hold the worker up     *)
  IdSpace,      (* number of values of the unsigned int ID (2^32)          *)
  Backlog,      (* room in the listener's accept queue                     *)
  MaxSignals,   (* bound: SIGINTs delivered to one run of the process      *)
  MaxLives,     (* bound: times the process is started                     *)
  None          (* no connection, no request, no query ID                  *)

ASSUME RequestsAssumption == Requests \subseteq RequestType
ASSUME BoundsAssumption   == /\ IdSpace \in Nat \ {0}
                             /\ Backlog \in Nat
                             /\ MaxSignals \in Nat
                             /\ MaxLives \in Nat
ASSUME NoneAssumption     == None \notin Conns \cup RequestType \cup Nat

VARIABLES
  pc,           (* where the main thread is; "down": there is no process   *)
  exit,         (* how the last run of the process ended                   *)
  life,         (* number of the last run of the process                   *)
  (* memory and descriptors of the process, gone when it ends              *)
  listening,    (* the listener socket is listening                        *)
  pipe,         (* the shutdown pipe holds a byte; nothing ever reads it   *)
  cur,          (* connection of the worker                                *)
  seen,         (* what parseRequest returned to the worker                *)
  ID,           (* v0getQueryID's static counter                           *)
  issued,       (* history: the IDs taken from it, in order                *)
  (* the connections                                                       *)
  queue,        (* the kernel's accept queue                               *)
  phase,        (* idle, queued, served by the worker, or closed           *)
  request,      (* the request its client sends                            *)
  arrived,      (* all of that request has reached the server              *)
  reset,        (* the client has closed or reset its end                  *)
  slow,         (* it sends on with pauses below 10 ms, and reads nothing  *)
  (* history: what the world has seen                                      *)
  reply,        (* replies handed to the connection's socket               *)
  forwards,     (* clicks of the connection that Link Analysis received    *)
  signals,      (* SIGINTs delivered in this life                          *)
  caught,       (* where the first of them found the main thread           *)
  late          (* connections accepted after it                           *)

memory   == <<listening, pipe, ID, issued>>
worker   == <<cur, seen>>
client   == <<request, arrived, reset, slow>>
network  == <<queue, phase, client>>
outcome  == <<reply, forwards>>
shutdown == <<signals, caught, late>>
vars     == <<pc, exit, life, memory, worker, network, outcome, shutdown>>

PC      == {"down", "setup", "init", "loop", "poll", "accept", "parse",
            "send", "connect", "push", "hung"}
Exits   == {"none", "success", "failure", "killed"}
Phases  == {"idle", "queued", "served", "closed"}
Replies == [status: Statuses, life: Nat, id: Nat \cup {None}]

TypeOK ==
  /\ pc \in PC /\ exit \in Exits /\ life \in Nat
  /\ listening \in BOOLEAN /\ pipe \in BOOLEAN
  /\ cur \in Conns \cup {None} /\ seen \in RequestType \cup {None}
  /\ ID \in 0..(IdSpace - 1) /\ issued \in Seq(Nat)
  /\ queue \in Seq(Conns)
  /\ phase \in [Conns -> Phases]
  /\ request \in [Conns -> Requests \cup {None}]
  /\ arrived \in [Conns -> BOOLEAN] /\ reset \in [Conns -> BOOLEAN]
  /\ slow \in [Conns -> BOOLEAN]
  /\ reply \in [Conns -> Seq(Replies)] /\ forwards \in [Conns -> Nat]
  /\ signals \in Nat /\ caught \in PC \cup {"nowhere"} /\ late \in Nat

Init ==
  /\ pc = "down" /\ exit = "none" /\ life = 0
  /\ listening = FALSE /\ pipe = FALSE
  /\ cur = None /\ seen = None
  /\ ID = 0 /\ issued = <<>>
  /\ queue = <<>>
  /\ phase = [c \in Conns |-> "idle"]
  /\ request = [c \in Conns |-> None]
  /\ arrived = [c \in Conns |-> FALSE] /\ reset = [c \in Conns |-> FALSE]
  /\ slow = [c \in Conns |-> FALSE]
  /\ reply = [c \in Conns |-> <<>>] /\ forwards = [c \in Conns |-> 0]
  /\ signals = 0 /\ caught = "nowhere" /\ late = 0

-----------------------------------------------------------------------------
(* The process starts and ends.                                            *)

Goto(place) == pc' = place /\ UNCHANGED <<exit, life>>

(* main begins a new run.                                                  *)
Start ==
  /\ pc = "down" /\ life < MaxLives
  /\ pc' = "setup" /\ exit' = "none" /\ life' = life + 1
  /\ signals' = 0 /\ caught' = "nowhere" /\ late' = 0
  /\ UNCHANGED <<memory, worker, network, outcome>>

(* The process is gone, and its memory with it: the query ID counter will  *)
(* start at zero again.  The kernel closes every connection it had queued  *)
(* or accepted.                                                            *)
Gone(how) ==
  /\ pc' = "down" /\ exit' = how
  /\ listening' = FALSE /\ pipe' = FALSE /\ cur' = None /\ seen' = None
  /\ ID' = 0 /\ issued' = <<>> /\ queue' = <<>>
  /\ phase' = [c \in Conns |-> IF phase[c] = "idle" THEN "idle" ELSE "closed"]
  /\ UNCHANGED <<life, client, outcome>>

(* main returns what HTTPServer::run returned, as an exit status.          *)
RunReturns(ok) == Gone(IF ok THEN "success" ELSE "failure")

(* SIGKILL, a failed allocation, an exception that nothing catches.        *)
Crash == pc # "down" /\ Gone("killed") /\ UNCHANGED shutdown

(* main: options, then the shutdown pipe and the signal handler.           *)
SetUpSignals == /\ pc = "setup"
                /\ Goto("init")
                /\ UNCHANGED <<memory, worker, network, outcome, shutdown>>

SetUpFails == pc = "setup" /\ Gone("failure") /\ UNCHANGED shutdown

(* HTTPServer::init creates, binds and listens.                            *)
Listen == /\ pc = "init"
          /\ Goto("loop") /\ listening' = TRUE
          /\ UNCHANGED <<pipe, ID, issued, worker, network, outcome, shutdown>>

(* When it fails, run returns EXIT_FAILURE, which is not zero, as a bool.  *)
EXIT_FAILURE == 1

ListenFails == /\ pc = "init"
               /\ RunReturns(EXIT_FAILURE # 0)
               /\ UNCHANGED shutdown

-----------------------------------------------------------------------------
(* HTTPServer::run's loop.                                                 *)

(* Mutant: the listener is looked at before the shutdown pipe.             *)
PollListenerFirst ==
  /\ pc = "loop"
  /\ Goto(IF queue = <<>> THEN "poll" ELSE "accept")
  /\ UNCHANGED <<memory, worker, network, outcome, shutdown>>

(* poll returns at once when a descriptor is readable, and the shutdown    *)
(* pipe is looked at first; with nothing readable the thread blocks.       *)
PollShutdown == /\ pc = "loop" /\ pipe
                /\ RunReturns(TRUE)
                /\ UNCHANGED shutdown

Poll == /\ pc = "loop" /\ ~pipe
        /\ Goto(IF queue = <<>> THEN "poll" ELSE "accept")
        /\ UNCHANGED <<memory, worker, network, outcome, shutdown>>

PollWakes == /\ pc = "poll" /\ queue # <<>>
             /\ Goto("accept")
             /\ UNCHANGED <<memory, worker, network, outcome, shutdown>>

(* accept takes the oldest connection, and a worker is made for it.        *)
Accept ==
  /\ pc = "accept"
  /\ Goto("parse")
  /\ cur' = Head(queue) /\ queue' = Tail(queue)
  /\ phase' = [phase EXCEPT ![Head(queue)] = "served"]
  /\ late' = IF signals > 0 THEN late + 1 ELSE late
  /\ UNCHANGED <<memory, seen, client, outcome, signals, caught>>

(* Mutant: the server gives up when accept fails.                          *)
AcceptFailureIsFatal == pc = "accept" /\ RunReturns(FALSE) /\ UNCHANGED shutdown

(* accept fails (no descriptor left): the connection stays in the queue.   *)
AcceptFails == /\ pc = "accept"
               /\ Goto("loop")
               /\ UNCHANGED <<memory, worker, network, outcome, shutdown>>

-----------------------------------------------------------------------------
(* The worker.                                                             *)

(* Mutant: the worker does not close its socket.                           *)
WorkerLeaks == Goto("loop") /\ cur' = None /\ seen' = None /\ UNCHANGED phase

(* ~HTTPWorker closes the connection and the loop goes on.                 *)
WorkerDone == /\ Goto("loop")
              /\ cur' = None /\ seen' = None
              /\ phase' = [phase EXCEPT ![cur] = "closed"]

WorkerGoesOn(place) == Goto(place) /\ UNCHANGED <<worker, phase>>

(* Mutants: a request that cannot be parsed is not answered; there is no   *)
(* receive timeout.                                                        *)
ParseSilent ==
  /\ pc = "parse"
  /\ IF request[cur].version = "none"
       THEN WorkerDone
       ELSE Goto("send") /\ seen' = request[cur] /\ UNCHANGED <<cur, phase>>
  /\ UNCHANGED <<memory, queue, client, outcome, shutdown>>

ParseWaits ==
  /\ pc = "parse"
  /\ arrived[cur] \/ reset[cur]
  /\ seen' \in {request[cur]} \cup Truncations(request[cur])
  /\ Goto("send")
  /\ UNCHANGED <<memory, cur, network, outcome, shutdown>>

(* parseRequest reads until a recv yields nothing.  By then it has the     *)
(* whole request, or only what arrived before the client paused for 10 ms, *)
(* reset the connection, or a SIGINT interrupted the recv.                 *)
Parse ==
  /\ pc = "parse"
  /\ \/ arrived[cur] /\ seen' = request[cur]
     \/ (~arrived[cur] \/ reset[cur]) /\ seen' \in Truncations(request[cur])
  /\ Goto("send")
  /\ UNCHANGED <<memory, cur, network, outcome, shutdown>>

(* Mutants: run does not return after an error reply; the counter is only  *)
(* advanced if the send succeeds; it is wider than the IDs.                *)
SendNoReturn ==
  /\ pc = "send"
  /\ LET said(status) == [status |-> status, life |-> life, id |-> None]
     IN reply' = [reply EXCEPT ![cur] =
          IF Dispatched(seen) THEN Append(@, said(HandlerStatus(seen)))
          ELSE @ \o <<said(RejectStatus(seen)), said(HandlerStatus(seen))>>]
  /\ WorkerDone
  /\ UNCHANGED <<memory, queue, client, forwards, shutdown>>

SendCounts(Advance(_)) ==
  /\ pc = "send"
  /\ reply' = [reply EXCEPT ![cur] = Append(@,
                 [status |-> Status(seen), life |-> life, id |-> ID])]
  /\ IF TakesID(seen) THEN ID' = Advance(ID) /\ issued' = Append(issued, ID)
                      ELSE UNCHANGED <<ID, issued>>
  /\ WorkerDone
  /\ UNCHANGED <<listening, pipe, queue, client, forwards, shutdown>>

SendThenCount == SendCounts(LAMBDA n : IF reset[cur] THEN n ELSE (n + 1) % IdSpace)
SendUnbounded == SendCounts(LAMBDA n : n + 1)

(* The reply that run or the handler chose goes to the socket.  ID++ is    *)
(* evaluated whether or not the send succeeds, and a failed send is only   *)
(* logged.                                                                 *)
Send ==
  /\ pc = "send"
  /\ reply' = [reply EXCEPT ![cur] = Append(@,
                 [status |-> Status(seen), life |-> life,
                  id |-> IF TakesID(seen) THEN ID ELSE None])]
  /\ IF TakesID(seen)
       THEN ID' = (ID + 1) % IdSpace /\ issued' = Append(issued, ID)
       ELSE UNCHANGED <<ID, issued>>
  /\ IF Forwards(seen) THEN WorkerGoesOn("connect") ELSE WorkerDone
  /\ UNCHANGED <<listening, pipe, queue, client, forwards, shutdown>>

(* ::send has no MSG_NOSIGNAL and SIGPIPE is not ignored: a send on a      *)
(* connection that its peer has reset ends the process.  Link Analysis may *)
(* do so at any time.                                                      *)
BrokenPipe == /\ \/ pc = "send" /\ reset[cur]
                 \/ pc = "push"
              /\ Gone("killed")
              /\ UNCHANGED shutdown

(* v0reportSearchResults after its reply: look the host up, connect (a     *)
(* SIGINT makes it fail) and send.  A failure is only logged.              *)
ConnectLinkAnalysis ==
  /\ pc = "connect"
  /\ WorkerGoesOn("push") \/ WorkerDone
  /\ UNCHANGED <<memory, queue, client, outcome, shutdown>>

Push ==
  /\ pc = "push"
  /\ forwards' \in {forwards, [forwards EXCEPT ![cur] = @ + 1]}
  /\ WorkerDone
  /\ UNCHANGED <<memory, queue, client, reply, shutdown>>

-----------------------------------------------------------------------------
(* SIGINT.                                                                 *)

Signalled == /\ signals < MaxSignals
             /\ signals' = signals + 1
             /\ caught' = IF signals = 0 THEN pc ELSE caught
             /\ UNCHANGED late

(* Before the handler is installed the default action ends the process.    *)
SignalUnhandled == pc = "setup" /\ Signalled /\ Gone("killed")

(* A poll that is blocked, with nothing readable, is cut short by a signal.*)
BlockedInPoll == pc = "poll" /\ queue = <<>>

(* The handler writes to the pipe, and the thread goes on.                 *)
SignalHandled == /\ pc \notin {"down", "setup", "hung"} /\ ~BlockedInPoll
                 /\ Signalled
                 /\ pipe' = TRUE
                 /\ UNCHANGED <<pc, exit, life, listening, ID, issued, worker,
                                network, outcome>>

(* The handler writes to the pipe, but poll then returns -1 (EINTR), which *)
(* run takes for an error.                                                 *)
SignalInPoll == BlockedInPoll /\ Signalled /\ RunReturns(FALSE)

(* The handler logs first.  If it interrupted the main thread inside LOG,  *)
(* it waits for a mutex that its own thread holds.                         *)
SignalInLog == /\ pc \notin {"down", "setup", "poll", "hung"}
               /\ Signalled
               /\ Goto("hung")
               /\ UNCHANGED <<memory, worker, network, outcome>>

-----------------------------------------------------------------------------
(* The clients.                                                            *)

Connect(c, r) ==
  /\ phase[c] = "idle" /\ listening /\ Len(queue) < Backlog
  /\ queue' = Append(queue, c)
  /\ phase' = [phase EXCEPT ![c] = "queued"]
  /\ request' = [request EXCEPT ![c] = r]
  /\ UNCHANGED <<pc, exit, life, memory, worker, arrived, reset, slow, outcome,
                 shutdown>>

Open(c) == phase[c] \in {"queued", "served"} /\ ~reset[c]

Arrive(c) ==
  /\ Open(c) /\ ~arrived[c]
  /\ arrived' = [arrived EXCEPT ![c] = TRUE]
  /\ UNCHANGED <<pc, exit, life, memory, worker, queue, phase, request, reset,
                 slow, outcome, shutdown>>

Reset(c) ==
  /\ Open(c)
  /\ reset' = [reset EXCEPT ![c] = TRUE]
  /\ UNCHANGED <<pc, exit, life, memory, worker, queue, phase, request,
                 arrived, slow, outcome, shutdown>>

(* It begins to send without a pause of 10 ms and to read nothing, or      *)
(* makes such a pause and reads.                                           *)
ChangePace(c) ==
  /\ Open(c) /\ c \in SlowConns
  /\ slow' = [slow EXCEPT ![c] = ~slow[c]]
  /\ UNCHANGED <<pc, exit, life, memory, worker, queue, phase, request,
                 arrived, reset, outcome, shutdown>>

-----------------------------------------------------------------------------
(* What the process does by itself once it is started.                     *)
Loop     == \/ SetUpSignals \/ SetUpFails \/ Listen \/ ListenFails
            \/ PollShutdown \/ Poll \/ PollWakes \/ Accept \/ AcceptFails
Converse == Parse \/ Send \/ BrokenPipe

Run == Loop \/ Converse \/ ConnectLinkAnalysis \/ Push

Signal == SignalUnhandled \/ SignalHandled \/ SignalInPoll \/ SignalInLog

Clients == \E c \in Conns : \/ \E r \in Requests : Connect(c, r)
                            \/ Arrive(c)
                            \/ Reset(c)
                            \/ ChangePace(c)

Next == Run \/ Start \/ Crash \/ Signal \/ Clients

Spec == Init /\ [][Next]_vars

(* The receive timeout is for one recv of a loop without end, and sends    *)
(* have none (TCPSocket.cpp:122-130, 145, 363-371).  So the worker waits   *)
(* for as long as the client of its connection sends on without a pause of *)
(* 10 ms, or does not read a reply, which may be of any length: it repeats *)
(* what the client gave as Content-Length (HTTPServer.cpp:179, 186).  Nor  *)
(* need Link Analysis read the click, of any length too, that it is sent.  *)
HeldUp == \/ pc = "parse" /\ slow[cur] /\ ~arrived[cur] /\ ~reset[cur]
          \/ pc = "send" /\ slow[cur] /\ ~reset[cur]
          \/ pc = "push"

(* The scheduler runs a thread that can run, and a shortage of descriptors *)
(* does not make accept fail for ever.  Lookup and connect give up in the  *)
(* end.  The worker gets on with its client whenever that lets it: after a *)
(* pause of 10 ms recv returns, and a reply comes to its end when it is    *)
(* read often enough.  Nothing is assumed of clients, Link Analysis,       *)
(* signals, crashes and restarts.                                          *)
FairSpec == /\ Spec
            /\ WF_vars(Loop \/ ConnectLinkAnalysis)
            /\ SF_vars(Accept)
            /\ SF_vars(Converse /\ ~HeldUp)

-----------------------------------------------------------------------------
(* Safety.                                                                 *)

(* The query IDs of one run of the process repeat only when the counter    *)
(* has wrapped: two calls of GetQueryID that got the same ID are at least  *)
(* IdSpace calls apart (HTTPServer.h:108-109).                             *)
IdsRepeatOnlyAfterWrap ==
  \A i, j \in DOMAIN issued :
    i < j /\ issued[i] = issued[j] => j - i >= IdSpace

(* A connection gets at most one reply, whichever checks and handlers its  *)
(* request went through, and Link Analysis hears of its click at most      *)
(* once, and only after a reply of 200 ("Respond before continuing to      *)
(* propagate data", HTTPServer.cpp:306).                                   *)
OneReplyThenForward ==
  \A c \in Conns :
    /\ Len(reply[c]) <= 1
    /\ forwards[c] <= 1
    /\ forwards[c] = 1 => reply[c] # <<>> /\ reply[c][1].status = 200

(* However a report was cut short by a pause, a reset or a signal, it is   *)
(* accepted, and its click passed on, only if the request its client set   *)
(* out to send would have been - unless that request's own Content-Length  *)
(* was wrong, and the part that arrived happens to have that length.       *)
NoTruncatedReport ==
  \A c \in Conns :
    /\ request[c] # None /\ request[c].length # "wrong"
    /\ request[c].resource = "ReportSearchResults"
    => /\ forwards[c] > 0 => Forwards(request[c])
       /\ reply[c] # <<>> /\ reply[c][1].status = 200
            => Status(request[c]) = 200

(* A request that is dispatched to a handler has its body as its client    *)
(* wrote it, or has lost all of it with what came before: a part of a body *)
(* never reaches a handler, although run compares Content-Length only when *)
(* some body was read (HTTPServer.cpp:165-182) - again unless the length   *)
(* that the client announced was wrong.                                    *)
NoPartialBody ==
  pc = "send" /\ Dispatched(seen) /\ request[cur].length # "wrong"
    => seen.body \in {request[cur].body, "empty"}

(* Once a SIGINT has been handled, run's loop accepts at most one more     *)
(* connection: the one that poll had already reported.                     *)
OneAcceptAfterSignal == late <= 1

(* A SIGINT that finds the server setting up, about to poll, accepting or  *)
(* serving a client never makes the process fail, however many more follow *)
(* it: only one that finds poll idle can.                                  *)
FailureOnlyFromPoll == exit = "failure" => caught \in {"nowhere", "poll"}

(* The process loses no connection: the accept queue holds, once each, the *)
(* connections that are queued, and the worker holds the one being served. *)
NoConnectionLost ==
  /\ \A i, j \in DOMAIN queue : queue[i] = queue[j] => i = j
  /\ \A c \in Conns : /\ phase[c] = "queued" <=> \E i \in DOMAIN queue : queue[i] = c
                      /\ phase[c] = "served" <=> c = cur

(* A connection that the process closes without a reply is one of those    *)
(* closed by the end of the process: no path through the worker forgets to *)
(* answer.                                                                 *)
NoSilentClose ==
  [][\A c \in Conns :
       phase[c] # "closed" /\ phase'[c] = "closed" /\ reply'[c] = <<>>
         => pc' = "down"]_vars

-----------------------------------------------------------------------------
(* Liveness.                                                               *)

(* Once the handler has written to the pipe the process ends - unless      *)
(* another SIGINT finds the main thread logging, or the peer that the      *)
(* worker is with, and only that one, holds it up for ever.                *)
ShutdownIsReached == pipe ~> (pc \in {"down", "hung"} \/ []HeldUp)

(* Every connection in the accept queue is served and closed in the end,   *)
(* or closed by the end of the process, however its client and those       *)
(* before it send, pause and reset - with the same two exceptions.         *)
EveryConnectionIsClosed ==
  \A c \in Conns :
    phase[c] = "queued" ~> (phase[c] = "closed" \/ pc = "hung" \/ []HeldUp)

-----------------------------------------------------------------------------
(* HTTPServer implements EvaluationService: a reply is its answer, the     *)
(* listener its being up.                                                  *)
Outcome(c) ==
  IF reply[c] # <<>>
    THEN IF reply[c][1].status = 200 THEN "accepted" ELSE "refused"
  ELSE IF phase[c] = "idle" THEN "new"
  ELSE IF phase[c] = "closed" THEN "dropped" ELSE "waiting"

Service == INSTANCE EvaluationService
             WITH up <- listening, given <- issued,
                  state <- [c \in Conns |-> Outcome(c)],
                  passed <- {c \in Conns : forwards[c] > 0}

(* Every behaviour of the process, with its crashes, signals and restarts, *)
(* is one that the service allows.                                         *)
ServiceSpec == Service!Spec

-----------------------------------------------------------------------------
(* What the documentation and the code's own text say, and the code does   *)
(* not do.                                                                 *)

(* README.md:88 of the repository: a query ID "is guaranteed to be unique  *)
(* between all calls of this function, even if the Evaluation component    *)
(* crashes".                                                               *)
UniqueQueryID ==
  \A c, d \in Conns :
    /\ c # d
    /\ reply[c] # <<>> /\ reply[c][1].id # None
    /\ reply[d] # <<>>
    => reply[c][1].id # reply[d][1].id

(* main.cpp:40 and main.cpp:59, "Graceful Shutdown handling" and "SIGINT   *)
(* received, sending shutdown to HTTP server...": a SIGINT that reaches    *)
(* the handler does not make the process fail.                             *)
GracefulShutdown == signals > 0 /\ caught # "setup" => exit # "failure"

(* The same text: a SIGINT that reaches the handler ends the process.      *)
SignalEndsProcess == signals > 0 ~> pc = "down"

(* HTTPServer.cpp:104-106 and main.cpp:152: a server that fails to         *)
(* initialize makes main return EXIT_FAILURE, so that EXIT_SUCCESS means   *)
(* that a shutdown was asked for.                                          *)
SuccessMeansShutdown == exit = "success" => signals > 0
=============================================================================
