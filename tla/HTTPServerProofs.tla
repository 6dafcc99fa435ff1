-------------------------- MODULE HTTPServerProofs --------------------------
(***************************************************************************)
(* Proofs about HTTPServer, for any sets of connections and requests, any  *)
(* width of the query ID and any bounds.                                   *)
(***************************************************************************)
EXTENDS HTTPServer, TLAPS

-----------------------------------------------------------------------------
(* What the worker's decisions return.                                     *)

(* Every request is answered with one of the statuses the code sends.      *)
LEMMA StatusType == ASSUME NEW r \in RequestType PROVE Status(r) \in Statuses
  BY DEF RequestType, Resources, Statuses, Status, HandlerStatus, ReportStatus,
         RejectStatus

(* A request that was cut short is parsed into a request.                  *)
LEMMA TruncationsType ==
  ASSUME NEW r \in RequestType PROVE Truncations(r) \subseteq RequestType
<1>1. ASSUME NEW t \in CutLine(r) PROVE t \in RequestType
  <2>1. PICK v \in Versions :
          t = [r EXCEPT !.version = v, !.json = FALSE, !.length = "missing",
                        !.body = "empty"]
    BY <1>1 DEF CutLine, Versions
  <2>2. QED
    BY <2>1 DEF RequestType, Lengths, Bodies
<1>2. ASSUME NEW t \in CutHeaders(r) PROVE t \in RequestType
  <2>1. PICK cut \in BOOLEAN \X Lengths :
          t = [r EXCEPT !.json = cut[1], !.length = cut[2], !.body = "empty"]
    BY <1>2 DEF CutHeaders
  <2>2. QED
    BY <2>1 DEF RequestType, Lengths, Bodies
<1>3. ASSUME NEW t \in CutBody(r) PROVE t \in RequestType
  <2>1. CutLengths(r) \subseteq Lengths /\ CutBodies(r) \subseteq Bodies
    BY DEF CutLengths, CutBodies, RequestType, Lengths, Bodies
  <2>2. PICK cut \in CutLengths(r) \X CutBodies(r) :
          t = [r EXCEPT !.length = cut[1], !.body = cut[2]]
    BY <1>3 DEF CutBody
  <2>3. cut[1] \in Lengths /\ cut[2] \in Bodies
    BY <2>1, <2>2
  <2>4. QED
    BY <2>2, <2>3 DEF RequestType
<1>4. QED
  BY <1>1, <1>2, <1>3 DEF Truncations

(* A click is only forwarded after a 200.                                  *)
LEMMA ForwardsAfterOk ==
  ASSUME NEW r \in RequestType, Forwards(r) PROVE Status(r) = 200
  BY DEF Forwards, Status, HandlerStatus

(* The counter stays within its width.                                     *)
LEMMA ModRange == ASSUME NEW n \in Nat PROVE n % IdSpace \in 0..(IdSpace - 1)
  BY BoundsAssumption

(* A queue that has just been joined is not empty.                         *)
LEMMA AppendIsNotEmpty ==
  ASSUME NEW S, NEW q \in Seq(S), NEW e \in S PROVE Append(q, e) # <<>>
<1>1. Len(Append(q, e)) = Len(q) + 1 /\ Len(q) \in Nat
  OBVIOUS
<1>2. Len(<<>>) = 0
  OBVIOUS
<1>3. QED
  BY ONLY <1>1, <1>2

-----------------------------------------------------------------------------
(* The state has the declared types in every behaviour: in particular the  *)
(* query ID stays below IdSpace, and whatever a cut-short request looks    *)
(* like is a request.  The conjuncts of TypeOK about the worker do not     *)
(* stand by themselves (a worker that sends has a connection and something *)
(* to answer), hence the second conjunct.                                  *)
WorkerHasWork ==
  /\ pc \in {"parse", "send", "connect", "push"} => cur \in Conns
  /\ pc \in {"parse", "send"} => request[cur] \in Requests
  /\ pc \in {"send", "connect", "push"} => seen \in RequestType
  /\ pc = "accept" => queue # <<>>
  /\ \A i \in DOMAIN queue : request[queue[i]] \in Requests

TypeInv == TypeOK /\ WorkerHasWork

(* TypeInv is inductive.                                                   *)
LEMMA TypeKept == Spec => []TypeInv
<1> USE BoundsAssumption, NoneAssumption, RequestsAssumption
        DEF TypeInv, TypeOK, WorkerHasWork
<1>1. Init => TypeInv
  <2> SUFFICES ASSUME Init PROVE TypeInv
    OBVIOUS
  <2>1. reply \in [Conns -> Seq(Replies)]
    BY DEF Init
  <2>2. phase \in [Conns -> Phases] /\ forwards \in [Conns -> Nat]
    BY DEF Init, Phases
  <2>3. queue \in Seq(Conns) /\ issued \in Seq(Nat)
    BY DEF Init
  <2>4. request \in [Conns -> Requests \cup {None}] /\ ID \in 0..(IdSpace - 1)
    BY DEF Init
  <2>5. arrived \in [Conns -> BOOLEAN] /\ reset \in [Conns -> BOOLEAN]
    BY DEF Init
  <2>6. WorkerHasWork
    BY DEF Init
  <2>7. QED
    BY <2>1, <2>2, <2>3, <2>4, <2>5, <2>6 DEF Init, PC, Exits
<1>2. TypeInv /\ [Next]_vars => TypeInv'
  <2> SUFFICES ASSUME TypeInv, [Next]_vars PROVE TypeInv'
    OBVIOUS
  <2> USE DEF PC, Exits, Phases, memory, worker, client, network, outcome,
              shutdown, Goto
  <2>0. ASSUME NEW how \in Exits, Gone(how),
               signals' \in Nat, caught' \in PC \cup {"nowhere"}, late' \in Nat
        PROVE  TypeInv'
    <3>1. phase' \in [Conns -> Phases]
      BY <2>0 DEF Gone
    <3>2. queue' \in Seq(Conns) /\ issued' \in Seq(Nat) /\ ID' \in 0..(IdSpace - 1)
      BY <2>0 DEF Gone
    <3>3. WorkerHasWork'
      BY <2>0 DEF Gone
    <3>4. QED
      BY <2>0, <3>1, <3>2, <3>3 DEF Gone
  <2>1. CASE SetUpSignals
    BY <2>1 DEF SetUpSignals
  <2>2. CASE SetUpFails
    BY <2>0, <2>2 DEF SetUpFails
  <2>3. CASE Listen
    BY <2>3 DEF Listen
  <2>4. CASE ListenFails
    BY <2>0, <2>4 DEF ListenFails, RunReturns
  <2>5. CASE PollShutdown
    BY <2>0, <2>5 DEF PollShutdown, RunReturns
  <2>6. CASE Poll
    BY <2>6 DEF Poll
  <2>7. CASE PollWakes
    BY <2>7 DEF PollWakes
  <2>8. CASE Accept
    BY <2>8 DEF Accept
  <2>9. CASE AcceptFails
    BY <2>9 DEF AcceptFails
  <2>10. CASE Parse
    BY <2>10, TruncationsType DEF Parse
  <2>11. CASE Send
    <3> DEFINE answer == [status |-> Status(seen), life |-> life,
                          id |-> IF TakesID(seen) THEN ID ELSE None]
    <3>1. answer \in Replies
      BY <2>11, StatusType DEF Send, Replies
    <3>2. reply' \in [Conns -> Seq(Replies)]
      BY <2>11, <3>1 DEF Send
    <3>3. ID' \in 0..(IdSpace - 1) /\ issued' \in Seq(Nat)
      <4>1. CASE TakesID(seen)
        <5>1. ID + 1 \in Nat
          OBVIOUS
        <5>2. ID' = (ID + 1) % IdSpace /\ issued' = Append(issued, ID)
          BY <2>11, <4>1 DEF Send
        <5>3. (ID + 1) % IdSpace \in 0..(IdSpace - 1)
          BY <5>1, ModRange, Zenon
        <5>4. ID \in Nat /\ Append(issued, ID) \in Seq(Nat)
          OBVIOUS
        <5>5. QED
          BY <5>2, <5>3, <5>4, Zenon
      <4>2. CASE ~TakesID(seen)
        BY <2>11, <4>2 DEF Send
      <4>3. QED
        BY <4>1, <4>2
    <3>4. phase' \in [Conns -> Phases]
      BY <2>11 DEF Send, WorkerDone, WorkerGoesOn
    <3>5. QED
      BY <2>11, <3>2, <3>3, <3>4 DEF Send, WorkerDone, WorkerGoesOn
  <2>12. CASE BrokenPipe
    BY <2>0, <2>12 DEF BrokenPipe
  <2>13. CASE ConnectLinkAnalysis
    BY <2>13 DEF ConnectLinkAnalysis, WorkerDone, WorkerGoesOn
  <2>14. CASE Push
    <3>1. \/ forwards' = forwards
          \/ forwards' = [forwards EXCEPT ![cur] = forwards[cur] + 1]
      BY <2>14 DEF Push
    <3>2. cur \in Conns /\ forwards \in [Conns -> Nat]
      BY <2>14 DEF Push
    <3>3. forwards[cur] + 1 \in Nat
      BY <3>2
    <3>4. forwards' \in [Conns -> Nat]
      BY <3>1, <3>2, <3>3
    <3>5. phase' \in [Conns -> Phases]
      BY <2>14 DEF Push, WorkerDone
    <3>6. QED
      BY <2>14, <3>4, <3>5 DEF Push, WorkerDone
  <2>15. CASE Start
    BY <2>15 DEF Start
  <2>16. CASE Crash
    BY <2>0, <2>16 DEF Crash
  <2>17. CASE SignalUnhandled
    <3>1. signals' \in Nat /\ caught' \in PC \cup {"nowhere"} /\ late' \in Nat
      BY <2>17 DEF SignalUnhandled, Signalled
    <3>2. QED
      BY <2>0, <2>17, <3>1 DEF SignalUnhandled
  <2>18. CASE SignalHandled
    <3>1. signals' \in Nat /\ caught' \in PC \cup {"nowhere"} /\ late' \in Nat
      BY <2>18 DEF SignalHandled, Signalled
    <3>2. QED
      BY <2>18, <3>1 DEF SignalHandled
  <2>19. CASE SignalInPoll
    <3>1. signals' \in Nat /\ caught' \in PC \cup {"nowhere"} /\ late' \in Nat
      BY <2>19 DEF SignalInPoll, Signalled
    <3>2. Gone("failure")
      BY <2>19 DEF SignalInPoll, RunReturns
    <3>3. QED
      BY <2>0, <3>1, <3>2
  <2>20. CASE SignalInLog
    <3>1. signals' \in Nat /\ caught' \in PC \cup {"nowhere"} /\ late' \in Nat
      BY <2>20 DEF SignalInLog, Signalled
    <3>2. QED
      BY <2>20, <3>1 DEF SignalInLog
  <2>21. ASSUME NEW c \in Conns, NEW r \in Requests, Connect(c, r)
         PROVE  TypeInv'
    <3>1. /\ queue' \in Seq(Conns) /\ phase' \in [Conns -> Phases]
          /\ request' \in [Conns -> Requests \cup {None}]
      BY <2>21 DEF Connect
    <3>2. \A d \in Conns : request[d] \in Requests => request'[d] \in Requests
      BY <2>21 DEF Connect
    <3>3. \A i \in DOMAIN queue' : request'[queue'[i]] \in Requests
      BY <2>21, <3>2 DEF Connect
    <3>4. queue' # <<>>
      <4>1. queue' = Append(queue, c)
        BY <2>21 DEF Connect
      <4>2. queue \in Seq(Conns)
        OBVIOUS
      <4>3. QED
        BY ONLY <4>1, <4>2, AppendIsNotEmpty, c \in Conns
    <3>5. UNCHANGED <<pc, exit, life, listening, pipe, ID, issued, cur, seen,
                      arrived, reset, slow, reply, forwards, signals, caught,
                      late>>
      BY <2>21 DEF Connect
    <3>6. WorkerHasWork'
      BY <3>2, <3>3, <3>4, <3>5
    <3>7. QED
      BY <3>1, <3>5, <3>6
  <2>22. ASSUME NEW c \in Conns, Arrive(c) PROVE TypeInv'
    BY <2>22 DEF Arrive
  <2>23. ASSUME NEW c \in Conns, Reset(c) PROVE TypeInv'
    BY <2>23 DEF Reset
  <2>24. ASSUME NEW c \in Conns, ChangePace(c) PROVE TypeInv'
    BY <2>24 DEF ChangePace
  <2>25. CASE UNCHANGED vars
    BY <2>25 DEF vars
  <2>26. QED
    BY <2>1, <2>2, <2>3, <2>4, <2>5, <2>6, <2>7, <2>8, <2>9, <2>10,
       <2>11, <2>12, <2>13, <2>14, <2>15, <2>16, <2>17, <2>18, <2>19, <2>20,
       <2>21, <2>22, <2>23, <2>24, <2>25
       DEF Next, Run, Loop, Converse, Signal, Clients
<1>3. QED
  BY <1>1, <1>2, PTL DEF Spec

(* The variables of the process, its connections and the histories have    *)
(* their types in every behaviour.                                         *)
THEOREM TypeCorrect == Spec => []TypeOK
<1>1. TypeInv => TypeOK
  BY DEF TypeInv
<1>2. QED
  BY <1>1, TypeKept, PTL

-----------------------------------------------------------------------------
(* SIGINT: once a signal was handled the pipe stays readable, so that the  *)
(* loop can neither block in poll nor reach accept again from its top.     *)
SignalInv ==
  /\ pc # "down" => exit = "none"
  /\ pc = "setup" => signals = 0
  /\ signals > 0 /\ pc \notin {"down", "hung"} => pipe
  /\ signals = 0 \/ pc \in {"setup", "init", "poll", "accept"} => late = 0
  /\ signals = 0 <=> caught = "nowhere"
  /\ pc \in {"init", "poll"} => caught \in {"nowhere", pc}
  /\ OneAcceptAfterSignal
  /\ FailureOnlyFromPoll

(* SignalInv is inductive, relative to TypeInv.                            *)
LEMMA SignalsKept == Spec => []SignalInv
<1> USE DEF SignalInv, OneAcceptAfterSignal, FailureOnlyFromPoll, PC, Exits
<1>1. Init => SignalInv
  BY DEF Init
<1>2. TypeInv /\ SignalInv /\ [Next]_vars => SignalInv'
  <2> SUFFICES ASSUME TypeInv, SignalInv, [Next]_vars PROVE SignalInv'
    OBVIOUS
  <2> signals \in Nat /\ late \in Nat /\ pc \in PC /\ pipe \in BOOLEAN
    BY DEF TypeInv, TypeOK
  <2> USE DEF memory, worker, client, network, outcome, shutdown, Goto, Gone
  <2>1. CASE SetUpSignals
    BY <2>1 DEF SetUpSignals
  <2>2. CASE SetUpFails
    BY <2>2 DEF SetUpFails
  <2>3. CASE Listen
    BY <2>3 DEF Listen
  <2>4. CASE ListenFails
    BY <2>4 DEF ListenFails, RunReturns, EXIT_FAILURE
  <2>5. CASE PollShutdown
    BY <2>5 DEF PollShutdown, RunReturns
  <2>6. CASE Poll
    BY <2>6 DEF Poll
  <2>7. CASE PollWakes
    BY <2>7 DEF PollWakes
  <2>8. CASE Accept
    BY <2>8 DEF Accept
  <2>9. CASE AcceptFails
    BY <2>9 DEF AcceptFails
  <2>10. CASE Parse
    BY <2>10 DEF Parse
  <2>11. CASE Send
    BY <2>11 DEF Send, WorkerDone, WorkerGoesOn
  <2>12. CASE BrokenPipe
    BY <2>12 DEF BrokenPipe
  <2>13. CASE ConnectLinkAnalysis
    BY <2>13 DEF ConnectLinkAnalysis, WorkerDone, WorkerGoesOn
  <2>14. CASE Push
    BY <2>14 DEF Push, WorkerDone
  <2>15. CASE Start
    BY <2>15 DEF Start
  <2>16. CASE Crash
    BY <2>16 DEF Crash
  <2>17. CASE SignalUnhandled
    BY <2>17 DEF SignalUnhandled, Signalled
  <2>18. CASE SignalHandled
    BY <2>18 DEF SignalHandled, Signalled, BlockedInPoll
  <2>19. CASE SignalInPoll
    BY <2>19 DEF SignalInPoll, Signalled, BlockedInPoll, RunReturns
  <2>20. CASE SignalInLog
    BY <2>20 DEF SignalInLog, Signalled
  <2>21. ASSUME NEW c \in Conns, NEW r \in Requests, Connect(c, r)
         PROVE  SignalInv'
    BY <2>21 DEF Connect
  <2>22. ASSUME NEW c \in Conns, Arrive(c) PROVE SignalInv'
    BY <2>22 DEF Arrive
  <2>23. ASSUME NEW c \in Conns, Reset(c) PROVE SignalInv'
    BY <2>23 DEF Reset
  <2>24. ASSUME NEW c \in Conns, ChangePace(c) PROVE SignalInv'
    BY <2>24 DEF ChangePace
  <2>25. CASE UNCHANGED vars
    BY <2>25 DEF vars
  <2>26. QED
    BY <2>1, <2>2, <2>3, <2>4, <2>5, <2>6, <2>7, <2>8, <2>9, <2>10,
       <2>11, <2>12, <2>13, <2>14, <2>15, <2>16, <2>17, <2>18, <2>19, <2>20,
       <2>21, <2>22, <2>23, <2>24, <2>25
       DEF Next, Run, Loop, Converse, Signal, Clients
<1>3. QED
  BY <1>1, <1>2, TypeKept, PTL DEF Spec

(* At most one connection is accepted after a SIGINT was handled, for any  *)
(* number of signals and connections.                                      *)
THEOREM SignalsHandled == Spec => []OneAcceptAfterSignal
<1>1. SignalInv => OneAcceptAfterSignal
  BY DEF SignalInv
<1>2. QED
  BY <1>1, SignalsKept, PTL

(* When the process fails after a SIGINT, its first one found poll idle,   *)
(* for any number of signals and connections.                              *)
THEOREM FailuresSignalled == Spec => []FailureOnlyFromPoll
<1>1. SignalInv => FailureOnlyFromPoll
  BY DEF SignalInv
<1>2. QED
  BY <1>1, SignalsKept, PTL

-----------------------------------------------------------------------------
(* Query IDs.  Seen from the counter, the last IdSpace IDs that were given  *)
(* count back from it, around the end of its range.                        *)
Back(d) == IF d <= ID THEN ID - d ELSE ID - d + IdSpace

IdInv ==
  /\ \A i \in DOMAIN issued : Len(issued) + 1 - i <= IdSpace
        => issued[i] = Back(Len(issued) + 1 - i)
  /\ IdsRepeatOnlyAfterWrap

(* The counter is reduced only when it is at the end of its range.         *)
LEMMA NextID ==
  ASSUME ID \in 0..(IdSpace - 1)
  PROVE  (ID + 1) % IdSpace = IF ID = IdSpace - 1 THEN 0 ELSE ID + 1
  BY BoundsAssumption

(* No step but GetQueryID's takes an ID, and only the end of the process   *)
(* forgets the ones that were taken.                                       *)
LEMMA IdSteps ==
  ASSUME [Next]_vars
  PROVE  \/ ID' = (ID + 1) % IdSpace /\ issued' = Append(issued, ID)
         \/ ID' = 0 /\ issued' = <<>>
         \/ UNCHANGED <<ID, issued>>
<1> USE DEF Gone, RunReturns, Goto, memory
<1>1. CASE Run
  BY <1>1 DEF Run, Loop, Converse, SetUpSignals, SetUpFails, Listen, ListenFails, PollShutdown,
              Poll, PollWakes, Accept, AcceptFails, Parse, Send, BrokenPipe,
              ConnectLinkAnalysis, Push
<1>2. CASE Start \/ Crash
  BY <1>2 DEF Start, Crash
<1>3. CASE Signal
  BY <1>3 DEF Signal, SignalUnhandled, SignalHandled, SignalInPoll, SignalInLog
<1>4. CASE Clients
  BY <1>4 DEF Clients, Connect, Arrive, Reset, ChangePace
<1>5. CASE UNCHANGED vars
  BY <1>5 DEF vars
<1>6. QED
  BY <1>1, <1>2, <1>3, <1>4, <1>5 DEF Next

(* The IDs that were given stay where the counter says they are.           *)
LEMMA IdsKept == Spec => []IdInv
<1> USE DEF IdInv, IdsRepeatOnlyAfterWrap
<1>1. Init => IdInv
  BY DEF Init
<1>2. TypeInv /\ IdInv /\ [Next]_vars => IdInv'
  <2> SUFFICES ASSUME TypeInv, IdInv, [Next]_vars PROVE IdInv'
    OBVIOUS
  <2>1. ID \in 0..(IdSpace - 1) /\ issued \in Seq(Nat)
    BY DEF TypeInv, TypeOK
  <2>2. CASE ID' = (ID + 1) % IdSpace /\ issued' = Append(issued, ID)
    <3>1. ID' = IF ID = IdSpace - 1 THEN 0 ELSE ID + 1
      BY <2>1, <2>2, NextID
    <3>2. /\ Len(issued') = Len(issued) + 1
          /\ issued'[Len(issued')] = ID
          /\ \A i \in DOMAIN issued : issued'[i] = issued[i]
          /\ DOMAIN issued' = DOMAIN issued \cup {Len(issued')}
          /\ DOMAIN issued = 1..Len(issued)
      BY <2>1, <2>2
    <3>3. \A i \in DOMAIN issued : Len(issued) + 1 - i < IdSpace => issued[i] # ID
      BY <2>1, <3>2, BoundsAssumption DEF Back
    <3>4. IdsRepeatOnlyAfterWrap'
      BY <2>1, <3>2, <3>3, BoundsAssumption
    <3>5. ASSUME NEW i \in DOMAIN issued', Len(issued') + 1 - i <= IdSpace
          PROVE  (issued[i] = Back(Len(issued) + 1 - i))'
      <4>1. CASE i \in DOMAIN issued
        <5>1. PICK d \in 1..(IdSpace - 1) : d = Len(issued) + 1 - i
          BY <2>1, <3>2, <3>5, <4>1, BoundsAssumption
        <5>2. issued'[i] = IF d <= ID THEN ID - d ELSE ID - d + IdSpace
          BY <3>2, <4>1, <5>1, BoundsAssumption DEF Back
        <5>3. Len(issued') + 1 - i = d + 1
          BY <2>1, <3>2, <4>1, <5>1
        <5>4. Back(Len(issued) + 1 - i)' =
                IF d + 1 <= ID' THEN ID' - (d + 1) ELSE ID' - (d + 1) + IdSpace
          BY <5>3 DEF Back
        <5>5. QED
          BY <2>1, <3>1, <5>2, <5>4, BoundsAssumption
      <4>2. CASE i = Len(issued')
        <5>1. Len(issued') + 1 - i = 1
          BY <2>1, <3>2, <4>2
        <5>2. Back(Len(issued) + 1 - i)' =
                IF 1 <= ID' THEN ID' - 1 ELSE ID' - 1 + IdSpace
          BY <5>1 DEF Back
        <5>3. QED
          BY <2>1, <3>1, <3>2, <4>2, <5>2, BoundsAssumption
      <4>3. QED
        BY <3>2, <3>5, <4>1, <4>2
    <3>6. QED
      BY <3>4, <3>5
  <2>3. CASE ID' = 0 /\ issued' = <<>>
    BY <2>3
  <2>4. CASE UNCHANGED <<ID, issued>>
    BY <2>4 DEF Back
  <2>5. QED
    BY <2>2, <2>3, <2>4, IdSteps
<1>3. QED
  BY <1>1, <1>2, TypeKept, PTL DEF Spec

(* Within one run of the process no query ID is given twice in fewer than  *)
(* IdSpace calls, for every width of the counter.                          *)
THEOREM IdsUnique == Spec => []IdsRepeatOnlyAfterWrap
<1>1. IdInv => IdsRepeatOnlyAfterWrap
  BY DEF IdInv
<1>2. QED
  BY <1>1, IdsKept, PTL

-----------------------------------------------------------------------------
(* Connections.  The steps that move a connection, and all the others.       *)
Serving == {"parse", "send", "connect", "push"}

Quiet == /\ UNCHANGED <<queue, phase, cur>>
         /\ \/ pc' \in {pc, "hung"}
            \/ pc \in Serving /\ pc' \in Serving
            \/ pc \notin Serving \cup {"hung"} /\ pc' \notin Serving \cup {"hung"}

(* A step is one of the four kinds that move a connection, or quiet.       *)
LEMMA Moves ==
  ASSUME TypeInv, [Next]_vars
  PROVE  \/ Accept
         \/ pc \in Serving /\ WorkerDone /\ UNCHANGED queue
         \/ \E how \in Exits : Gone(how)
         \/ \E c \in Conns, r \in Requests : Connect(c, r)
         \/ Quiet
<1> USE DEF Quiet, Serving, Goto, worker, network, Exits
<1>1. CASE Run
  <2>1. CASE SetUpSignals \/ Listen \/ Poll \/ PollWakes \/ AcceptFails \/ Parse
    BY <2>1 DEF SetUpSignals, Listen, Poll, PollWakes, AcceptFails, Parse
  <2>2. CASE SetUpFails \/ ListenFails \/ PollShutdown \/ BrokenPipe
    BY <2>2 DEF SetUpFails, ListenFails, PollShutdown, BrokenPipe, RunReturns
  <2>3. CASE Send \/ ConnectLinkAnalysis \/ Push
    BY <2>3 DEF Send, ConnectLinkAnalysis, Push, WorkerGoesOn
  <2>4. QED
    BY <1>1, <2>1, <2>2, <2>3 DEF Run, Loop, Converse
<1>2. CASE Start \/ Crash
  BY <1>2 DEF Start, Crash
<1>3. CASE Signal
  BY <1>3 DEF Signal, SignalUnhandled, SignalHandled, SignalInPoll, SignalInLog,
              RunReturns
<1>4. CASE Clients
  BY <1>4 DEF Clients, Arrive, Reset, ChangePace
<1>5. CASE UNCHANGED vars
  BY <1>5 DEF vars
<1>6. QED
  BY <1>1, <1>2, <1>3, <1>4, <1>5 DEF Next

QueueInv ==
  /\ NoConnectionLost
  /\ pc \in Serving \cup {"hung"} \/ cur = None

(* With TypeInv, QueueInv is inductive.                                    *)
LEMMA QueueKept == Spec => [](TypeInv /\ QueueInv)
<1> USE NoneAssumption DEF QueueInv, NoConnectionLost
<1>1. Init => QueueInv
  BY DEF Init
<1>2. TypeInv /\ QueueInv /\ [Next]_vars => QueueInv'
  <2> SUFFICES ASSUME TypeInv, QueueInv, [Next]_vars PROVE QueueInv'
    OBVIOUS
  <2>0. /\ queue \in Seq(Conns) /\ phase \in [Conns -> Phases]
        /\ pc = "accept" => queue # <<>>
        /\ pc \in Serving => cur \in Conns
    BY DEF TypeInv, TypeOK, WorkerHasWork, Serving
  <2>1. CASE Accept
    <3>1. /\ cur = None /\ cur' = Head(queue) /\ queue' = Tail(queue)
          /\ phase' = [phase EXCEPT ![Head(queue)] = "served"]
          /\ pc' \in Serving
      BY <2>1 DEF Accept, Goto, Serving
    <3>2. /\ Head(queue) = queue[1] /\ 1 \in DOMAIN queue
          /\ \A i \in DOMAIN queue' : i + 1 \in DOMAIN queue /\ queue'[i] = queue[i + 1]
          /\ \A i \in DOMAIN queue : i # 1 => i - 1 \in DOMAIN queue' /\ queue[i] = queue'[i - 1]
          /\ DOMAIN queue \subseteq Nat /\ DOMAIN queue' \subseteq Nat
          /\ \A i \in DOMAIN queue' : i >= 1
          /\ \A i \in DOMAIN queue : queue[i] \in Conns
      BY <2>0, <2>1, <3>1 DEF Accept
    <3>3. \A i, j \in DOMAIN queue' : queue'[i] = queue'[j] => i = j
      BY <3>2
    <3>4. ASSUME NEW c \in Conns
          PROVE  phase'[c] = "queued" <=> \E i \in DOMAIN queue' : queue'[i] = c
      <4>1. CASE c = queue[1]
        <5>1. phase'[c] = "served"
          BY <2>0, <3>1, <3>2, <4>1
        <5>2. \A i \in DOMAIN queue' : i + 1 # 1
          BY <3>2
        <5>3. \A i \in DOMAIN queue' : queue'[i] # c
          BY <3>2, <4>1, <5>2
        <5>4. QED
          BY <5>1, <5>3
      <4>2. CASE c # queue[1]
        <5>1. phase'[c] = phase[c]
          BY <2>0, <3>1, <3>2, <4>2
        <5>2. (\E i \in DOMAIN queue : queue[i] = c)
                <=> \E i \in DOMAIN queue' : queue'[i] = c
          BY <3>2, <4>2
        <5>3. QED
          BY <5>1, <5>2
      <4>3. QED
        BY <4>1, <4>2
    <3>5. ASSUME NEW c \in Conns PROVE phase'[c] = "served" <=> c = cur'
      BY <2>0, <3>1, <3>2
    <3>6. QED
      BY <3>1, <3>3, <3>4, <3>5
  <2>2. CASE pc \in Serving /\ WorkerDone /\ UNCHANGED queue
    BY <2>0, <2>2 DEF WorkerDone, Goto
  <2>3. ASSUME NEW how \in Exits, Gone(how) PROVE QueueInv'
    BY <2>0, <2>3 DEF Gone
  <2>4. ASSUME NEW c \in Conns, NEW r \in Requests, Connect(c, r)
        PROVE  QueueInv'
    <3>1. /\ phase[c] = "idle" /\ queue' = Append(queue, c)
          /\ phase' = [phase EXCEPT ![c] = "queued"] /\ UNCHANGED <<pc, cur>>
      BY <2>4 DEF Connect, worker
    <3>2. /\ \A i \in DOMAIN queue : i \in DOMAIN queue' /\ queue'[i] = queue[i]
          /\ DOMAIN queue' = DOMAIN queue \cup {Len(queue) + 1}
          /\ queue'[Len(queue) + 1] = c
      BY <2>0, <3>1
    <3>3. \A i \in DOMAIN queue : queue[i] # c
      BY <3>1
    <3>4. \A i, j \in DOMAIN queue' : queue'[i] = queue'[j] => i = j
      BY <3>2, <3>3
    <3>5. QED
      BY <2>0, <3>1, <3>2, <3>4
  <2>5. CASE Quiet
    BY <2>5 DEF Quiet
  <2>6. QED
    BY <2>1, <2>2, <2>3, <2>4, <2>5, Moves
<1>3. QED
  BY <1>1, <1>2, TypeKept, PTL DEF Spec

(* The accept queue and the worker hold every connection that is open,     *)
(* each of them once.                                                      *)
THEOREM ConnectionsKept == Spec => []NoConnectionLost
<1>1. QueueInv => NoConnectionLost
  BY DEF QueueInv
<1>2. QED
  BY <1>1, QueueKept, PTL

-----------------------------------------------------------------------------
(* Replies and forwards.  A connection that waits has had neither; the     *)
(* worker replies once, and forwards only what it has accepted.            *)
ReplyInv ==
  /\ \A c \in Conns : phase[c] \in {"idle", "queued"} =>
       reply[c] = <<>> /\ forwards[c] = 0
  /\ pc \in {"parse", "send"} => reply[cur] = <<>> /\ forwards[cur] = 0
  /\ pc \in {"connect", "push"} =>
       Len(reply[cur]) = 1 /\ reply[cur][1].status = 200 /\ forwards[cur] = 0
  /\ OneReplyThenForward

(* The one reply of a Send, and when the worker goes on after it.          *)
Answer == [status |-> Status(seen), life |-> life,
           id |-> IF TakesID(seen) THEN ID ELSE None]

LEMMA Replying ==
  ASSUME TypeInv, Send
  PROVE  /\ Answer \in Replies /\ Answer.status = Status(seen)
         /\ reply' = [reply EXCEPT ![cur] = Append(reply[cur], Answer)]
         /\ pc' \in {"loop", "connect"} /\ UNCHANGED forwards
         /\ pc' = "connect" => Answer.status = 200
<1>1. seen \in RequestType /\ life \in Nat /\ ID \in Nat
  BY DEF TypeInv, TypeOK, WorkerHasWork, Send
<1>2. Answer \in Replies /\ Answer.status = Status(seen)
  BY <1>1, StatusType DEF Answer, Replies
<1>3. /\ reply' = [reply EXCEPT ![cur] = Append(reply[cur], Answer)]
      /\ pc' \in {"loop", "connect"} /\ UNCHANGED forwards
      /\ pc' = "connect" => Forwards(seen)
  BY DEF Send, Answer, WorkerGoesOn, WorkerDone, Goto
<1>4. QED
  BY <1>1, <1>2, <1>3, ForwardsAfterOk

(* Only Send replies, and only Push forwards.                              *)
LEMMA RepliesStay ==
  ASSUME [Next]_vars, ~Send, ~Push
  PROVE  UNCHANGED <<reply, forwards>>
<1> USE DEF Gone, RunReturns, Goto, outcome
<1>1. CASE Run
  BY <1>1 DEF Run, Loop, Converse, SetUpSignals, SetUpFails, Listen, ListenFails, PollShutdown,
              Poll, PollWakes, Accept, AcceptFails, Parse, BrokenPipe,
              ConnectLinkAnalysis
<1>2. CASE Start \/ Crash
  BY <1>2 DEF Start, Crash
<1>3. CASE Signal
  BY <1>3 DEF Signal, SignalUnhandled, SignalHandled, SignalInPoll, SignalInLog
<1>4. CASE Clients
  BY <1>4 DEF Clients, Connect, Arrive, Reset, ChangePace
<1>5. CASE UNCHANGED vars
  BY <1>5 DEF vars
<1>6. QED
  BY <1>1, <1>2, <1>3, <1>4, <1>5 DEF Next

(* Where the worker stands after a step that neither replies nor forwards: *)
(* it reads a connection just taken from the queue, goes on with the one   *)
(* it had, or is not at work.                                              *)
LEMMA WorkerSteps ==
  ASSUME TypeInv, [Next]_vars, ~Send, ~Push
  PROVE  \/ Accept
         \/ pc \in {"parse", "send"} /\ pc' \in {"parse", "send"} /\ cur' = cur
         \/ pc \in {"connect", "push"} /\ pc' \in {"connect", "push"} /\ cur' = cur
         \/ pc' \notin Serving
<1> USE DEF Gone, RunReturns, Goto, worker, Serving, PC
<1> pc \in PC
  BY DEF TypeInv, TypeOK
<1>1. CASE Run
  BY <1>1 DEF Run, Loop, Converse, SetUpSignals, SetUpFails, Listen, ListenFails, PollShutdown,
              Poll, PollWakes, AcceptFails, Parse, BrokenPipe,
              ConnectLinkAnalysis, WorkerGoesOn, WorkerDone
<1>2. CASE Start \/ Crash
  BY <1>2 DEF Start, Crash
<1>3. CASE Signal
  BY <1>3 DEF Signal, SignalUnhandled, SignalHandled, SignalInPoll, SignalInLog
<1>4. CASE Clients
  BY <1>4 DEF Clients, Connect, Arrive, Reset, ChangePace
<1>5. CASE UNCHANGED vars
  BY <1>5 DEF vars
<1>6. QED
  BY <1>1, <1>2, <1>3, <1>4, <1>5 DEF Next

(* Without a reply or a forward the worker ends only after a click whose   *)
(* connection to Link Analysis failed.                                     *)
LEMMA LeavesWorker ==
  ASSUME TypeInv, [Next]_vars, ~Send, ~Push, pc \in Serving, pc' = "loop"
  PROVE  pc = "connect"
<1> USE DEF Gone, RunReturns, Goto, Serving
<1>1. CASE Run
  BY <1>1 DEF Run, Loop, Converse, SetUpSignals, SetUpFails, Listen, ListenFails, PollShutdown,
              Poll, PollWakes, Accept, AcceptFails, Parse, BrokenPipe,
              ConnectLinkAnalysis
<1>2. CASE Start \/ Crash
  BY <1>2 DEF Start, Crash
<1>3. CASE Signal
  BY <1>3 DEF Signal, SignalUnhandled, SignalHandled, SignalInPoll, SignalInLog
<1>4. CASE Clients
  BY <1>4 DEF Clients, Connect, Arrive, Reset, ChangePace
<1>5. CASE UNCHANGED vars
  BY <1>5 DEF vars
<1>6. QED
  BY <1>1, <1>2, <1>3, <1>4, <1>5 DEF Next

(* Which connections can be waiting after a step: only ones that were.     *)
LEMMA WaitingSteps ==
  ASSUME TypeInv, QueueInv, [Next]_vars, NEW c \in Conns,
         phase'[c] \in {"idle", "queued"}
  PROVE  phase[c] \in {"idle", "queued"}
<1> USE DEF TypeInv, TypeOK, Phases
<1>1. CASE Accept
  <2>1. Head(queue) \in Conns
    BY <1>1 DEF WorkerHasWork, Accept
  <2>2. QED
    BY <1>1, <2>1 DEF Accept
<1>2. CASE pc \in Serving /\ WorkerDone
  <2>1. cur \in Conns
    BY <1>2 DEF WorkerHasWork, Serving
  <2>2. QED
    BY <1>2, <2>1 DEF WorkerDone
<1>3. ASSUME NEW how \in Exits, Gone(how)
      PROVE  phase[c] \in {"idle", "queued"}
  BY <1>3 DEF Gone
<1>4. ASSUME NEW d \in Conns, NEW r \in Requests, Connect(d, r)
      PROVE  phase[c] \in {"idle", "queued"}
  BY <1>4 DEF Connect
<1>5. CASE Quiet
  BY <1>5 DEF Quiet
<1>6. QED
  BY <1>1, <1>2, <1>3, <1>4, <1>5, Moves

(* The invariant that the theorems about replies follow from.              *)
LEMMA RepliesKept == Spec => []ReplyInv
<1>1. Init => ReplyInv
  BY DEF Init, ReplyInv, OneReplyThenForward
<1>2. TypeInv /\ QueueInv /\ ReplyInv /\ [Next]_vars => ReplyInv'
  <2> SUFFICES ASSUME TypeInv, QueueInv, ReplyInv, [Next]_vars PROVE ReplyInv'
    OBVIOUS
  <2>0. /\ reply \in [Conns -> Seq(Replies)] /\ forwards \in [Conns -> Nat]
        /\ phase \in [Conns -> Phases]
        /\ pc \in Serving => cur \in Conns /\ phase[cur] = "served"
    BY DEF TypeInv, TypeOK, WorkerHasWork, Serving, QueueInv, NoConnectionLost
  <2>1. CASE Send
    <3>1. /\ Answer \in Replies
          /\ reply' = [reply EXCEPT ![cur] = Append(reply[cur], Answer)]
          /\ pc' \in {"loop", "connect"} /\ UNCHANGED forwards
          /\ pc' = "connect" => Answer.status = 200
      BY <2>1, Replying
    <3>2. /\ pc = "send" /\ cur \in Conns /\ reply[cur] = <<>> /\ forwards[cur] = 0
          /\ phase[cur] = "served"
      BY <2>0, <2>1 DEF Send, Serving, ReplyInv
    <3>3. reply' = [reply EXCEPT ![cur] = <<Answer>>]
      BY <3>1, <3>2
    <3>4. OneReplyThenForward'
      BY <2>0, <3>1, <3>2, <3>3 DEF ReplyInv, OneReplyThenForward
    <3>5. pc' = "connect" => cur' = cur
      BY <2>1, <3>2 DEF Send, WorkerGoesOn, WorkerDone, Goto, worker
    <3>6. ASSUME NEW c \in Conns, phase'[c] \in {"idle", "queued"}
          PROVE  reply'[c] = <<>> /\ forwards'[c] = 0
      <4>1. phase[c] \in {"idle", "queued"} /\ c # cur
        BY <3>2, <3>6, WaitingSteps
      <4>2. QED
        BY <2>0, <3>1, <3>3, <4>1 DEF ReplyInv
    <3>7. QED
      BY <2>0, <3>1, <3>2, <3>3, <3>4, <3>5, <3>6 DEF ReplyInv
  <2>2. CASE Push
    <3>1. /\ pc' = "loop" /\ UNCHANGED reply
          /\ \/ forwards' = forwards
             \/ forwards' = [forwards EXCEPT ![cur] = forwards[cur] + 1]
      BY <2>2 DEF Push, WorkerDone, Goto
    <3>2. /\ cur \in Conns /\ Len(reply[cur]) = 1 /\ reply[cur][1].status = 200
          /\ forwards[cur] = 0 /\ phase[cur] = "served"
      BY <2>0, <2>2 DEF Push, Serving, ReplyInv
    <3>3. OneReplyThenForward'
      <4>0. reply[cur] # <<>>
        BY <3>2, Len(<<>>) = 0
      <4>1. forwards'[cur] \in {0, 1}
        <5>1. CASE forwards' = forwards
          BY <3>2, <5>1
        <5>2. CASE forwards' = [forwards EXCEPT ![cur] = forwards[cur] + 1]
          BY <2>0, <3>2, <5>2
        <5>3. QED
          BY <3>1, <5>1, <5>2
      <4>2. \A c \in Conns : c # cur => forwards'[c] = forwards[c]
        BY <2>0, <3>1, <3>2
      <4>3. QED
        BY <3>1, <3>2, <4>0, <4>1, <4>2 DEF ReplyInv, OneReplyThenForward
    <3>4. ASSUME NEW c \in Conns, phase'[c] \in {"idle", "queued"}
          PROVE  reply'[c] = <<>> /\ forwards'[c] = 0
      <4>1. phase[c] \in {"idle", "queued"} /\ c # cur
        BY <3>2, <3>4, WaitingSteps
      <4>2. QED
        BY <2>0, <3>1, <4>1 DEF ReplyInv
    <3>5. QED
      BY <3>1, <3>3, <3>4 DEF ReplyInv
  <2>3. CASE ~Send /\ ~Push
    <3>1. UNCHANGED <<reply, forwards>>
      BY <2>3, RepliesStay
    <3>2. OneReplyThenForward'
      BY <3>1 DEF ReplyInv, OneReplyThenForward
    <3>3. \A c \in Conns : phase'[c] \in {"idle", "queued"} =>
            reply'[c] = <<>> /\ forwards'[c] = 0
      BY <3>1, WaitingSteps DEF ReplyInv
    <3>4. CASE Accept
      <4>1. /\ pc' = "parse" /\ cur' = Head(queue) /\ queue # <<>>
            /\ queue \in Seq(Conns)
        BY <3>4 DEF Accept, Goto, TypeInv, TypeOK, WorkerHasWork
      <4>2. cur' \in Conns /\ phase[cur'] = "queued"
        BY <4>1 DEF QueueInv, NoConnectionLost
      <4>3. QED
        BY <3>1, <3>2, <3>3, <4>1, <4>2 DEF ReplyInv
    <3>5. CASE ~Accept
      <4>1. \/ pc \in {"parse", "send"} /\ pc' \in {"parse", "send"} /\ cur' = cur
            \/ pc \in {"connect", "push"} /\ pc' \in {"connect", "push"} /\ cur' = cur
            \/ pc' \notin Serving
        BY <2>3, <3>5, WorkerSteps
      <4>2. QED
        BY <3>1, <3>2, <3>3, <4>1 DEF ReplyInv, Serving
    <3>6. QED
      BY <3>4, <3>5
  <2>4. QED
    BY <2>1, <2>2, <2>3
<1>3. QED
  BY <1>1, <1>2, QueueKept, PTL DEF Spec

(* At most one reply to a connection, at most one forward of its click,    *)
(* and the forward only after a reply of 200: for every interleaving of    *)
(* clients, signals, crashes and restarts.                                 *)
THEOREM RepliesCorrect == Spec => []OneReplyThenForward
<1>1. ReplyInv => OneReplyThenForward
  BY DEF ReplyInv
<1>2. QED
  BY <1>1, RepliesKept, PTL

(* No path through the worker closes a connection without a reply: one     *)
(* that is closed unanswered is closed by the end of the process.          *)
THEOREM NeverSilent == Spec => NoSilentClose
<1>1. ASSUME TypeInv, QueueInv, ReplyInv, [Next]_vars, NEW c \in Conns,
             phase[c] # "closed", phase'[c] = "closed", reply'[c] = <<>>
      PROVE  pc' = "down"
  <2>0. /\ reply \in [Conns -> Seq(Replies)] /\ phase \in [Conns -> Phases]
        /\ pc \in Serving => cur \in Conns
        /\ pc = "accept" => queue # <<>>
        /\ queue \in Seq(Conns)
    BY <1>1 DEF TypeInv, TypeOK, WorkerHasWork, Serving
  <2>1. CASE Accept
    <3>1. pc = "accept" /\ phase' = [phase EXCEPT ![Head(queue)] = "served"]
      BY <2>1 DEF Accept
    <3>2. Head(queue) \in Conns
      BY <2>0, <3>1
    <3>3. QED
      BY <1>1, <2>0, <3>1, <3>2
  <2>2. CASE pc \in Serving /\ WorkerDone
    <3>1. c = cur /\ pc' = "loop"
      BY <1>1, <2>0, <2>2 DEF WorkerDone, Goto
    <3>2. reply'[c] # <<>>
      <4>1. CASE Send
        <5>1. /\ Answer \in Replies
              /\ reply' = [reply EXCEPT ![cur] = Append(reply[cur], Answer)]
          BY <1>1, <4>1, Replying
        <5>2. reply'[c] = Append(reply[c], Answer) /\ reply[c] \in Seq(Replies)
          BY <2>0, <3>1, <5>1
        <5>3. QED
          BY <5>2
      <4>2. CASE pc \in {"connect", "push"} /\ reply' = reply
        BY <3>1, <4>2, <1>1, Len(<<>>) = 0 DEF ReplyInv
      <4>3. CASE ~Send /\ ~Push
        <5>1. pc \in {"connect", "push"}
          BY <1>1, <2>2, <3>1, <4>3, LeavesWorker
        <5>2. QED
          BY <1>1, <4>2, <4>3, <5>1, RepliesStay
      <4>4. CASE Push
        BY <4>2, <4>4 DEF Push
      <4>5. QED
        BY <4>1, <4>3, <4>4
    <3>3. QED
      BY <1>1, <3>2
  <2>3. ASSUME NEW how \in Exits, Gone(how) PROVE pc' = "down"
    BY <2>3 DEF Gone
  <2>4. ASSUME NEW d \in Conns, NEW r \in Requests, Connect(d, r)
        PROVE  pc' = "down"
    BY <1>1, <2>0, <2>4 DEF Connect
  <2>5. CASE Quiet
    BY <1>1, <2>5 DEF Quiet
  <2>6. QED
    BY <1>1, <2>1, <2>2, <2>3, <2>4, <2>5, Moves
<1>2. TypeInv /\ QueueInv /\ ReplyInv /\ [Next]_vars =>
        [\A c \in Conns :
           phase[c] # "closed" /\ phase'[c] = "closed" /\ reply'[c] = <<>>
             => pc' = "down"]_vars
  BY <1>1
<1>3. QED
  BY <1>2, QueueKept, RepliesKept, PTL DEF Spec, NoSilentClose
-----------------------------------------------------------------------------
(* Reports that arrive cut short.  What the worker works on is the request *)
(* its client sends or a truncation of it.                                 *)
Working == {"send", "connect", "push"}

SeenInv ==
  /\ pc \in Working => seen \in {request[cur]} \cup Truncations(request[cur])
  /\ pc \in {"connect", "push"} => Forwards(seen)
  /\ NoTruncatedReport

(* A truncation of a report that announced its length rightly is accepted, *)
(* or forwarded, only if the whole report would have been.                 *)
LEMMA CutReports ==
  ASSUME NEW r \in RequestType, NEW t \in {r} \cup Truncations(r),
         r.length # "wrong", r.resource = "ReportSearchResults"
  PROVE  /\ Forwards(t) => Forwards(r)
         /\ Status(t) = 200 => Status(r) = 200
<1> USE DEF Status, HandlerStatus, ReportStatus, RejectStatus, Forwards, Dispatched
<1>1. CASE t \in CutLine(r)
  <2>1. t.json = FALSE /\ t.body = "empty" /\ t.resource = "ReportSearchResults"
    BY <1>1 DEF CutLine, RequestType
  <2>2. QED
    BY <2>1
<1>2. CASE t \in CutHeaders(r)
  <2>1. t.body = "empty" /\ t.resource = "ReportSearchResults"
    BY <1>2 DEF CutHeaders, RequestType
  <2>2. QED
    BY <2>1
<1>3. CASE t \in CutBody(r)
  <2>1. PICK cut \in CutLengths(r) \X CutBodies(r) :
          t = [r EXCEPT !.length = cut[1], !.body = cut[2]]
    BY <1>3 DEF CutBody
  <2>2. cut[1] # "right" /\ cut[2] # "empty"
    BY DEF CutLengths, CutBodies, RequestType, Bodies, Lengths
  <2>3. t.length # "right" /\ t.body # "empty"
    BY <2>1, <2>2 DEF RequestType
  <2>4. QED
    BY <2>3, t.length # "right", t.body # "empty"
<1>4. QED
  BY <1>1, <1>2, <1>3 DEF Truncations

(* A truncation that is dispatched, of a request that did not announce a   *)
(* wrong length, has the whole body or none.                               *)
LEMMA CutBodiesRefused ==
  ASSUME NEW r \in RequestType, NEW t \in {r} \cup Truncations(r),
         r.length # "wrong", Dispatched(t)
  PROVE  t.body \in {r.body, "empty"}
<1>1. CASE t \in CutLine(r) \cup CutHeaders(r)
  <2>1. t.body = "empty"
    BY <1>1 DEF CutLine, CutHeaders, RequestType
  <2>2. QED
    BY <2>1
<1>2. CASE t \in CutBody(r)
  <2>1. PICK cut \in CutLengths(r) \X CutBodies(r) :
          t = [r EXCEPT !.length = cut[1], !.body = cut[2]]
    BY <1>2 DEF CutBody
  <2>2. cut[1] # "right" /\ cut[2] # "empty"
    BY DEF CutLengths, CutBodies, RequestType, Bodies, Lengths
  <2>3. t.length # "right" /\ t.body # "empty"
    BY <2>1, <2>2 DEF RequestType
  <2>4. QED
    BY <2>3 DEF Dispatched
<1>3. QED
  BY <1>1, <1>2 DEF Truncations

(* Whoever is at work on a request after a step has just parsed it, or had *)
(* it before.                                                              *)
LEMMA SeenSteps ==
  ASSUME TypeInv, [Next]_vars, ~Send, ~Push, pc' \in Working
  PROVE  \/ Parse
         \/ /\ pc \in Working /\ UNCHANGED <<cur, seen>>
            /\ pc' \in {"connect", "push"} => pc \in {"connect", "push"}
<1> USE DEF Gone, RunReturns, Goto, worker, Working
<1>1. CASE Run
  BY <1>1 DEF Run, Loop, Converse, SetUpSignals, SetUpFails, Listen, ListenFails, PollShutdown,
              Poll, PollWakes, Accept, AcceptFails, BrokenPipe,
              ConnectLinkAnalysis, WorkerGoesOn, WorkerDone
<1>2. CASE Start \/ Crash
  BY <1>2 DEF Start, Crash
<1>3. CASE Signal
  BY <1>3 DEF Signal, SignalUnhandled, SignalHandled, SignalInPoll, SignalInLog
<1>4. CASE Clients
  BY <1>4 DEF Clients, Connect, Arrive, Reset, ChangePace
<1>5. CASE UNCHANGED vars
  BY <1>5 DEF vars
<1>6. QED
  BY <1>1, <1>2, <1>3, <1>4, <1>5 DEF Next

(* A client decides what it sends when it connects.                        *)
LEMMA RequestSteps ==
  ASSUME TypeInv, [Next]_vars, NEW c \in Conns
  PROVE  request'[c] = request[c] \/ phase[c] = "idle"
<1> USE DEF Gone, RunReturns, Goto, client, network
<1>1. CASE Run
  BY <1>1 DEF Run, Loop, Converse, SetUpSignals, SetUpFails, Listen, ListenFails, PollShutdown,
              Poll, PollWakes, Accept, AcceptFails, Parse, Send, BrokenPipe,
              ConnectLinkAnalysis, Push
<1>2. CASE Start \/ Crash
  BY <1>2 DEF Start, Crash
<1>3. CASE Signal
  BY <1>3 DEF Signal, SignalUnhandled, SignalHandled, SignalInPoll, SignalInLog
<1>4. CASE Clients
  <2>1. request \in [Conns -> Requests \cup {None}]
    BY DEF TypeInv, TypeOK
  <2>2. QED
    BY <1>4, <2>1 DEF Clients, Connect, Arrive, Reset, ChangePace, outcome
<1>5. CASE UNCHANGED vars
  BY <1>5 DEF vars
<1>6. QED
  BY <1>1, <1>2, <1>3, <1>4, <1>5 DEF Next

(* SeenInv is inductive, relative to the invariants above.                 *)
LEMMA SeenKept == Spec => []SeenInv
<1>1. Init => SeenInv
  BY DEF Init, SeenInv, Working, NoTruncatedReport
<1>2. TypeInv /\ QueueInv /\ ReplyInv /\ SeenInv /\ [Next]_vars => SeenInv'
  <2> SUFFICES ASSUME TypeInv, QueueInv, ReplyInv, SeenInv, [Next]_vars
               PROVE  SeenInv'
    OBVIOUS
  <2>0. /\ reply \in [Conns -> Seq(Replies)] /\ forwards \in [Conns -> Nat]
        /\ request \in [Conns -> Requests \cup {None}]
        /\ Requests \subseteq RequestType
        /\ pc \in Serving => cur \in Conns /\ phase[cur] = "served"
    BY RequestsAssumption
       DEF TypeInv, TypeOK, WorkerHasWork, Serving, QueueInv, NoConnectionLost
  <2>1. CASE Send
    <3>1. /\ Answer \in Replies /\ Answer.status = Status(seen)
          /\ reply' = [reply EXCEPT ![cur] = Append(reply[cur], Answer)]
          /\ UNCHANGED forwards
      BY <2>1, Replying
    <3>2. /\ pc = "send" /\ cur \in Conns /\ reply[cur] = <<>> /\ forwards[cur] = 0
          /\ seen \in {request[cur]} \cup Truncations(request[cur])
      BY <2>0, <2>1 DEF Send, Serving, ReplyInv, SeenInv, Working
    <3>3. reply' = [reply EXCEPT ![cur] = <<Answer>>]
      BY <3>1, <3>2
    <3>4. /\ UNCHANGED request
          /\ \/ pc' = "connect" /\ Forwards(seen) /\ UNCHANGED <<cur, seen>>
             \/ pc' = "loop"
      BY <2>1 DEF Send, WorkerGoesOn, WorkerDone, Goto, client, worker
    <3>5. NoTruncatedReport'
      <4>1. SUFFICES ASSUME NEW c \in Conns, request[c] # None,
                            request[c].length # "wrong",
                            request[c].resource = "ReportSearchResults"
                     PROVE  /\ forwards[c] > 0 => Forwards(request[c])
                            /\ reply'[c] # <<>> /\ reply'[c][1].status = 200
                                 => Status(request[c]) = 200
        BY <3>1, <3>4 DEF NoTruncatedReport
      <4>2. request[c] \in RequestType
        BY <2>0, <4>1
      <4>3. CASE c = cur
        <5>1. reply'[c][1] = Answer /\ ~(forwards[c] > 0)
          BY <2>0, <3>2, <3>3, <4>3
        <5>2. Status(seen) = 200 => Status(request[c]) = 200
          BY <3>2, <4>1, <4>2, <4>3, CutReports
        <5>3. QED
          BY <3>1, <5>1, <5>2
      <4>4. CASE c # cur
        BY <2>0, <3>3, <4>1, <4>4 DEF SeenInv, NoTruncatedReport
      <4>5. QED
        BY <4>3, <4>4
    <3>6. QED
      BY <3>2, <3>4, <3>5 DEF SeenInv, Working
  <2>2. CASE Push
    <3>1. /\ pc = "push" /\ cur \in Conns
          /\ seen \in {request[cur]} \cup Truncations(request[cur])
          /\ Forwards(seen)
      BY <2>0, <2>2 DEF Push, Serving, SeenInv, Working
    <3>2. /\ pc' = "loop" /\ UNCHANGED <<reply, request>>
          /\ \A c \in Conns : c # cur => forwards'[c] = forwards[c]
      BY <2>0, <2>2 DEF Push, WorkerDone, Goto, client
    <3>3. ASSUME NEW c \in Conns, request[c] # None,
                 request[c].length # "wrong",
                 request[c].resource = "ReportSearchResults",
                 forwards'[c] > 0
          PROVE  Forwards(request[c])
      <4>1. CASE c = cur
        <5>1. request[c] \in RequestType
          BY <2>0, <3>3
        <5>2. QED
          BY <3>1, <3>3, <4>1, <5>1, CutReports
      <4>2. CASE c # cur
        BY <3>2, <3>3, <4>2 DEF SeenInv, NoTruncatedReport
      <4>3. QED
        BY <4>1, <4>2
    <3>4. NoTruncatedReport'
      BY <3>2, <3>3 DEF SeenInv, NoTruncatedReport
    <3>5. QED
      BY <3>2, <3>4 DEF SeenInv, Working
  <2>3. CASE ~Send /\ ~Push
    <3>1. UNCHANGED <<reply, forwards>>
      BY <2>3, RepliesStay
    <3>2. NoTruncatedReport'
      <4>1. SUFFICES ASSUME NEW c \in Conns, request'[c] # None,
                            request'[c].length # "wrong",
                            request'[c].resource = "ReportSearchResults"
                     PROVE  /\ forwards[c] > 0 => Forwards(request'[c])
                            /\ reply[c] # <<>> /\ reply[c][1].status = 200
                                 => Status(request'[c]) = 200
        BY <3>1 DEF NoTruncatedReport
      <4>2. CASE request'[c] = request[c]
        BY <4>1, <4>2 DEF SeenInv, NoTruncatedReport
      <4>3. CASE phase[c] = "idle"
        <5>1. reply[c] = <<>> /\ forwards[c] = 0
          BY <4>3 DEF ReplyInv
        <5>2. QED
          BY <5>1
      <4>4. QED
        BY <4>2, <4>3, RequestSteps
    <3>3. ASSUME pc' \in Working
          PROVE  /\ seen' \in {request'[cur']} \cup Truncations(request'[cur'])
                 /\ pc' \in {"connect", "push"} => Forwards(seen')
      <4>1. CASE Parse
        <5>1. /\ pc' = "send" /\ UNCHANGED <<cur, request>>
              /\ seen' \in {request[cur]} \cup Truncations(request[cur])
          BY <4>1 DEF Parse, Goto, network, client
        <5>2. QED
          BY <5>1
      <4>2. CASE /\ pc \in Working /\ UNCHANGED <<cur, seen>>
                 /\ pc' \in {"connect", "push"} => pc \in {"connect", "push"}
        <5>1. cur \in Conns /\ phase[cur] # "idle"
          BY <2>0, <4>2 DEF Working, Serving
        <5>2. request'[cur] = request[cur]
          <6>1. PICK c \in Conns : c = cur
            BY <5>1
          <6>2. request'[c] = request[c]
            BY <5>1, <6>1, <2>3, RequestSteps
          <6>3. QED
            BY <6>1, <6>2
        <5>3. QED
          BY <4>2, <5>2 DEF SeenInv
      <4>3. QED
        BY <2>3, <3>3, <4>1, <4>2, SeenSteps
    <3>4. QED
      BY <3>2, <3>3 DEF SeenInv, Working
  <2>4. QED
    BY <2>1, <2>2, <2>3
<1>3. QED
  BY <1>1, <1>2, QueueKept, RepliesKept, PTL DEF Spec

(* However a report is cut short, it is accepted and its click forwarded   *)
(* only if the request its client set out to send would have been, unless  *)
(* that request's Content-Length was wrong.                                *)
THEOREM ReportsSound == Spec => []NoTruncatedReport
<1>1. SeenInv => NoTruncatedReport
  BY DEF SeenInv
<1>2. QED
  BY <1>1, SeenKept, PTL

(* A handler gets the whole of a body or nothing of it, unless the request *)
(* announced a wrong length.                                               *)
THEOREM BodiesWhole == Spec => []NoPartialBody
<1>1. TypeInv /\ SeenInv => NoPartialBody
  <2> SUFFICES ASSUME TypeInv, SeenInv, pc = "send", Dispatched(seen),
                      request[cur].length # "wrong"
               PROVE  seen.body \in {request[cur].body, "empty"}
    BY DEF NoPartialBody
  <2>1. seen \in {request[cur]} \cup Truncations(request[cur])
    BY DEF SeenInv, Working
  <2>2. request[cur] \in RequestType
    BY RequestsAssumption DEF TypeInv, WorkerHasWork
  <2>3. QED
    BY <2>1, <2>2, CutBodiesRefused
<1>2. QED
  BY <1>1, TypeKept, SeenKept, PTL
=============================================================================
