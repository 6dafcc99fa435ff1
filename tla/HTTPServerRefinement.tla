------------------------ MODULE HTTPServerRefinement ------------------------
(***************************************************************************)
(* HTTPServer implements EvaluationService, for any sets of connections    *)
(* and requests, any width of the query ID and any bounds.                 *)
(***************************************************************************)
EXTENDS HTTPServerProofs

(* The listener is open exactly while run's loop is; before that nothing   *)
(* waits and no ID was given.                                              *)
ListenInv ==
  /\ pc \in {"down", "setup", "init"} => ~listening
  /\ pc \notin {"down", "setup", "init", "hung"} => listening
  /\ ~listening => issued = <<>> /\ queue = <<>> /\ cur = None

(* What the service's being up rests on survives each step: run opens the  *)
(* listener as it enters the loop and the end of the process closes it; no *)
(* signal and no client touches it.                                        *)
LEMMA ListenStep ==
  ASSUME TypeInv, QueueInv, ListenInv, [Next]_vars
  PROVE  ListenInv'
<1> USE DEF ListenInv, PC, Serving, memory, worker, network
<1> pc \in PC /\ listening \in BOOLEAN /\ (pc \in Serving \cup {"hung"} \/ cur = None)
  BY DEF TypeInv, TypeOK, QueueInv
<1>closed. ASSUME NEW how, Gone(how) PROVE ListenInv'
  BY <1>closed DEF Gone
<1>idle. CASE Clients \/ UNCHANGED vars
  BY <1>idle DEF Clients, Connect, Arrive, Reset, ChangePace, vars
<1>signal. CASE Signal
  BY <1>signal, <1>closed
     DEF Signal, SignalUnhandled, SignalHandled, SignalInPoll, SignalInLog, Goto, RunReturns
<1>process. CASE Start \/ Crash
  BY <1>process, <1>closed DEF Start, Crash
<1>run. CASE Run
  <2> USE DEF Goto, RunReturns
  <2>start. CASE SetUpSignals \/ SetUpFails \/ Listen \/ ListenFails
    BY <2>start, <1>closed DEF SetUpSignals, SetUpFails, Listen, ListenFails
  <2>loop. CASE PollShutdown \/ Poll \/ PollWakes \/ Accept \/ AcceptFails
    BY <2>loop, <1>closed DEF PollShutdown, Poll, PollWakes, Accept, AcceptFails
  <2>handler. CASE Parse \/ Send \/ BrokenPipe \/ ConnectLinkAnalysis \/ Push
    BY <2>handler, <1>closed DEF Parse, Send, BrokenPipe, ConnectLinkAnalysis, Push,
                                 WorkerDone, WorkerGoesOn
  <2> QED
    BY <1>run, <2>handler, <2>loop, <2>start DEF Run, Loop, Converse
<1> QED
  BY <1>run, <1>process, <1>signal, <1>idle DEF Next

(* The service the process offers is up exactly while it listens.          *)
LEMMA ListenKept == Spec => []ListenInv
<1>1. Init => ListenInv
  BY DEF Init, ListenInv
<1>2. QED
  BY <1>1, ListenStep, QueueKept, PTL DEF Spec

-----------------------------------------------------------------------------
(* The abstract state of a step.                                           *)
State  == [c \in Conns |-> Outcome(c)]
Passed == {c \in Conns : forwards[c] > 0}

Invs == TypeInv /\ QueueInv /\ ReplyInv /\ IdInv /\ ListenInv

(* A step that changes no reply and opens or closes no unanswered          *)
(* connection is not seen by the service.                                  *)
LEMMA Unseen ==
  ASSUME UNCHANGED <<listening, issued, reply, forwards>>,
         \A c \in Conns : \/ phase'[c] = phase[c]
                          \/ reply[c] # <<>>
                          \/ phase[c] = "queued" /\ phase'[c] = "served"
  PROVE  UNCHANGED Service!vars
<1>1. \A c \in Conns : Outcome(c)' = Outcome(c)
  BY DEF Outcome
<1>2. UNCHANGED State /\ UNCHANGED Passed
  BY <1>1 DEF State, Passed
<1>3. QED
  BY <1>2 DEF Service!vars, State, Passed

(* The end of the process is the service going down, if it was up.         *)
LEMMA DownStep ==
  ASSUME Invs, NEW how \in Exits, Gone(how)
  PROVE  [Service!Next]_(Service!vars)
<1>1. /\ listening' = FALSE /\ issued' = <<>> /\ UNCHANGED <<reply, forwards>>
      /\ phase' = [c \in Conns |-> IF phase[c] = "idle" THEN "idle" ELSE "closed"]
  BY DEF Gone, outcome
<1>2. phase \in [Conns -> Phases] /\ listening \in BOOLEAN
  BY DEF Invs, TypeInv, TypeOK
<1>3. \A c \in Conns :
        Outcome(c)' = IF Outcome(c) = "waiting" THEN "dropped" ELSE Outcome(c)
  BY <1>1, <1>2 DEF Outcome, Phases
<1>4. UNCHANGED Passed
  BY <1>1 DEF Passed
<1>5. CASE listening
  <2>1. State' = [c \in Conns |-> IF State[c] = "waiting" THEN "dropped"
                                                          ELSE State[c]]
    BY <1>3 DEF State
  <2>2. Service!GoDown
    BY <1>1, <1>4, <1>5, <2>1 DEF Service!GoDown, State, Passed
  <2>3. QED
    BY <2>2 DEF Service!Next
<1>6. CASE ~listening
  <2>1. \A c \in Conns : phase[c] \notin {"queued", "served"}
    BY <1>6, NoneAssumption DEF Invs, ListenInv, QueueInv, NoConnectionLost
  <2>2. \A c \in Conns : Outcome(c)' = Outcome(c)
    BY <1>2, <1>3, <2>1 DEF Outcome, Phases
  <2>3. UNCHANGED State
    BY <2>2 DEF State
  <2>4. UNCHANGED <<listening, issued>>
    BY <1>1, <1>2, <1>6 DEF Invs, ListenInv
  <2>5. QED
    BY <1>4, <2>3, <2>4 DEF Service!vars, State, Passed
<1>7. QED
  BY <1>2, <1>5, <1>6

(* A client's connection is the arrival of a request.                      *)
LEMMA AskStep ==
  ASSUME Invs, NEW c \in Conns, NEW r \in Requests, Connect(c, r)
  PROVE  Service!Next
<1>1. /\ phase[c] = "idle" /\ listening
      /\ phase' = [phase EXCEPT ![c] = "queued"]
      /\ UNCHANGED <<listening, issued, reply, forwards>>
  BY DEF Connect, memory, outcome
<1>2. phase \in [Conns -> Phases] /\ reply[c] = <<>>
  BY <1>1 DEF Invs, TypeInv, TypeOK, ReplyInv
<1>3. Outcome(c) = "new" /\ Outcome(c)' = "waiting"
  BY <1>1, <1>2 DEF Outcome
<1>4. \A d \in Conns : d # c => Outcome(d)' = Outcome(d)
  BY <1>1, <1>2 DEF Outcome
<1>5. State[c] = "new" /\ State' = [State EXCEPT ![c] = "waiting"]
  BY <1>3, <1>4 DEF State
<1>6. UNCHANGED Passed
  BY <1>1 DEF Passed
<1>7. Service!Ask(c)
  BY <1>1, <1>5, <1>6 DEF Service!Ask, State, Passed
<1>8. QED
  BY <1>7 DEF Service!Next

(* Only an accepted request takes an ID.                                   *)
LEMMA TakesIDIsOk ==
  ASSUME NEW r \in RequestType, TakesID(r) PROVE Status(r) = 200
  BY DEF TakesID, Status, HandlerStatus

(* A reply is an answer; one that carries a query ID gives a fresh one.    *)
LEMMA AnswerStep ==
  ASSUME Invs, Send
  PROVE  Service!Next
<1> DEFINE answer == [status |-> Status(seen), life |-> life,
                      id |-> IF TakesID(seen) THEN ID ELSE None]
<1>1. /\ listening /\ cur \in Conns /\ reply[cur] = <<>> /\ seen \in RequestType
      /\ phase[cur] = "served" /\ reply \in [Conns -> Seq(Replies)]
      /\ phase \in [Conns -> Phases]
  BY DEF Send, Invs, ListenInv, TypeInv, TypeOK, WorkerHasWork, ReplyInv, QueueInv,
         NoConnectionLost
<1>2. PICK c \in Conns : c = cur
  BY <1>1
<1>3. /\ reply' = [reply EXCEPT ![c] = Append(reply[c], answer)]
      /\ UNCHANGED <<listening, forwards>>
      /\ \/ phase' = phase
         \/ phase' = [phase EXCEPT ![c] = "closed"]
  BY <1>2 DEF Send, WorkerGoesOn, WorkerDone
<1>4. reply'[c] # <<>> /\ reply'[c][1] = answer
  BY <1>1, <1>2, <1>3
<1>5. Outcome(c) = "waiting"
  BY <1>1, <1>2 DEF Outcome
<1>6. Outcome(c)' = IF Status(seen) = 200 THEN "accepted" ELSE "refused"
  BY <1>4 DEF Outcome
<1>7. \A d \in Conns : d # c => Outcome(d)' = Outcome(d)
  BY <1>1, <1>3 DEF Outcome
<1>8. State[c] = "waiting"
  BY <1>5 DEF State
<1>9. State' = [State EXCEPT ![c] = IF Status(seen) = 200 THEN "accepted"
                                                         ELSE "refused"]
  BY <1>6, <1>7 DEF State
<1>10. UNCHANGED Passed
  BY <1>3 DEF Passed
<1>11. CASE TakesID(seen)
  <2>1. issued' = Append(issued, ID)
    BY <1>11 DEF Send
  <2>2. State' = [State EXCEPT ![c] = "accepted"]
    BY <1>1, <1>9, <1>11, TakesIDIsOk
  <2>3. ID \in 0..(IdSpace - 1) /\ Service!Fresh(ID)
    <3>1. ID \in 0..(IdSpace - 1) /\ issued \in Seq(Nat) /\ DOMAIN issued = 1..Len(issued)
      BY DEF Invs, TypeInv, TypeOK
    <3>2. QED
      BY <3>1, BoundsAssumption DEF Invs, IdInv, Back, Service!Fresh
  <2>4. Service!GiveID(c, ID)
    BY <1>1, <1>3, <1>8, <1>10, <2>1, <2>2, <2>3 DEF Service!GiveID, State, Passed
  <2>5. QED
    BY <2>3, <2>4 DEF Service!Next
<1>12. CASE ~TakesID(seen)
  <2>1. UNCHANGED issued
    BY <1>12 DEF Send
  <2>2. \E verdict \in {"accepted", "refused"} :
          State' = [State EXCEPT ![c] = verdict]
    BY <1>9
  <2>3. Service!Answer(c)
    BY <1>1, <1>3, <1>8, <1>10, <2>1, <2>2 DEF Service!Answer, State, Passed
  <2>4. QED
    BY <2>3 DEF Service!Next
<1>13. QED
  BY <1>11, <1>12

(* Link Analysis hearing of a click is the service passing it on.          *)
LEMMA PassStep ==
  ASSUME Invs, Push
  PROVE  [Service!Next]_(Service!vars)
<1>1. /\ listening /\ cur \in Conns /\ forwards[cur] = 0
      /\ forwards \in [Conns -> Nat] /\ phase \in [Conns -> Phases]
      /\ Len(reply[cur]) = 1 /\ reply[cur][1].status = 200
  BY DEF Push, Invs, ListenInv, TypeInv, TypeOK, WorkerHasWork, ReplyInv
<1>2. PICK c \in Conns : c = cur
  BY <1>1
<1>3. /\ phase' = [phase EXCEPT ![c] = "closed"]
      /\ UNCHANGED <<listening, issued, reply>>
      /\ \/ forwards' = forwards
         \/ forwards' = [forwards EXCEPT ![c] = forwards[c] + 1]
  BY <1>2 DEF Push, WorkerDone, memory
<1>4. reply[c] # <<>>
  BY <1>1, <1>2, Len(<<>>) = 0
<1>5. \A d \in Conns : Outcome(d)' = Outcome(d)
  BY <1>1, <1>3, <1>4 DEF Outcome
<1>6. UNCHANGED State
  BY <1>5 DEF State
<1>7. CASE forwards' = forwards
  BY <1>3, <1>6, <1>7 DEF Service!vars, State
<1>8. CASE forwards' = [forwards EXCEPT ![c] = forwards[c] + 1]
  <2>1. State[c] = "accepted" /\ c \notin Passed
    BY <1>1, <1>2, <1>4 DEF State, Passed, Outcome
  <2>2. Passed' = Passed \cup {c}
    BY <1>1, <1>2, <1>8 DEF Passed
  <2>3. Service!Pass(c)
    BY <1>1, <1>3, <1>6, <2>1, <2>2 DEF Service!Pass, State, Passed
  <2>4. QED
    BY <2>3 DEF Service!Next
<1>9. QED
  BY <1>3, <1>7, <1>8

(* The steps of the process that the service does not see, but for its     *)
(* coming up.                                                              *)
LEMMA OtherSteps ==
  ASSUME Invs, [Next]_vars, ~Send, ~Push, ~(\E how \in Exits : Gone(how)),
         ~(\E c \in Conns, r \in Requests : Connect(c, r))
  PROVE  [Service!Next]_(Service!vars)
<1> USE DEF memory, worker, network, outcome, Goto, Exits
<1>1. CASE Listen
  <2>1. ~listening /\ listening' = TRUE /\ UNCHANGED <<issued, phase, reply, forwards>>
    BY <1>1 DEF Listen, Invs, ListenInv
  <2>2. UNCHANGED State /\ UNCHANGED Passed
    BY <2>1 DEF State, Passed, Outcome
  <2>3. Service!ComeUp
    BY <2>1, <2>2 DEF Service!ComeUp, State, Passed
  <2>4. QED
    BY <2>3 DEF Service!Next
<1>2. CASE Accept
  <2>1. /\ phase' = [phase EXCEPT ![Head(queue)] = "served"]
        /\ UNCHANGED <<listening, issued, reply, forwards>>
    BY <1>2 DEF Accept
  <2>2. queue # <<>> /\ queue \in Seq(Conns) /\ phase \in [Conns -> Phases]
    BY <1>2 DEF Accept, Invs, TypeInv, TypeOK, WorkerHasWork
  <2>3. Head(queue) \in Conns /\ phase[Head(queue)] = "queued"
    BY <2>2 DEF Invs, QueueInv, NoConnectionLost
  <2>4. ASSUME NEW c \in Conns
        PROVE  phase'[c] = phase[c] \/ (phase[c] = "queued" /\ phase'[c] = "served")
    BY <2>1, <2>2, <2>3
  <2>5. QED
    BY <2>1, <2>4, Unseen
<1>3. CASE ConnectLinkAnalysis
  <2>1. /\ pc = "connect" /\ UNCHANGED <<listening, issued, reply, forwards>>
        /\ phase' = phase \/ phase' = [phase EXCEPT ![cur] = "closed"]
    BY <1>3 DEF ConnectLinkAnalysis, WorkerGoesOn, WorkerDone
  <2>2. cur \in Conns /\ Len(reply[cur]) = 1 /\ phase \in [Conns -> Phases]
    BY <2>1 DEF Invs, TypeInv, TypeOK, WorkerHasWork, ReplyInv
  <2>3. reply[cur] # <<>>
    BY <2>2, Len(<<>>) = 0
  <2>4. QED
    BY <2>1, <2>2, <2>3, Unseen
<1>4. CASE Run /\ ~Listen /\ ~Accept /\ ~ConnectLinkAnalysis
  <2>1. UNCHANGED <<listening, issued, reply, forwards, phase>>
    BY <1>4 DEF Run, Loop, Converse, SetUpSignals, SetUpFails, ListenFails, PollShutdown, Poll,
                PollWakes, AcceptFails, Parse, BrokenPipe, RunReturns
  <2>2. QED
    BY <2>1, Unseen
<1>5. CASE Start \/ Crash
  <2>1. UNCHANGED <<listening, issued, reply, forwards, phase>>
    BY <1>5 DEF Start, Crash
  <2>2. QED
    BY <2>1, Unseen
<1>6. CASE Signal
  <2>1. UNCHANGED <<listening, issued, reply, forwards, phase>>
    BY <1>6 DEF Signal, SignalUnhandled, SignalHandled, SignalInPoll, SignalInLog,
                RunReturns
  <2>2. QED
    BY <2>1, Unseen
<1>7. CASE Clients
  <2>1. UNCHANGED <<listening, issued, reply, forwards, phase>>
    BY <1>7 DEF Clients, Arrive, Reset, ChangePace
  <2>2. QED
    BY <2>1, Unseen
<1>8. CASE UNCHANGED vars
  <2>1. UNCHANGED <<listening, issued, reply, forwards, phase>>
    BY <1>8 DEF vars
  <2>2. QED
    BY <2>1, Unseen
<1>9. QED
  BY <1>1, <1>2, <1>3, <1>4, <1>5, <1>6, <1>7, <1>8 DEF Next

(* Every behaviour of the process - whatever clients send and when, with   *)
(* its signals, crashes and restarts - is a behaviour of the service.      *)
THEOREM ImplementsService == Spec => ServiceSpec
<1>1. Init => Service!Init
  <2> SUFFICES ASSUME Init PROVE Service!Init
    OBVIOUS
  <2>1. listening = FALSE /\ issued = <<>>
    BY DEF Init
  <2>2. \A c \in Conns : Outcome(c) = "new" /\ ~(forwards[c] > 0)
    BY DEF Init, Outcome
  <2>3. State = [c \in Conns |-> "new"] /\ Passed = {}
    BY <2>2 DEF State, Passed
  <2>4. QED
    BY <2>1, <2>3 DEF Service!Init, State, Passed
<1>2. Invs /\ [Next]_vars => [Service!Next]_(Service!vars)
  <2>1. ASSUME Invs, [Next]_vars PROVE [Service!Next]_(Service!vars)
    BY <2>1, DownStep, AskStep, AnswerStep, PassStep, OtherSteps
  <2>2. QED
    BY <2>1
<1>3. QED
  BY <1>1, <1>2, QueueKept, RepliesKept, IdsKept, ListenKept, PTL
     DEF Spec, ServiceSpec, Service!Spec, Invs
=============================================================================
