---------------------------- MODULE LoggerProofs ----------------------------
(***************************************************************************)
(* Proofs about Logger, for any threads, workers and levels and any number *)
(* of calls and changes.                                                   *)
(***************************************************************************)
EXTENDS Logger, FiniteSetTheorems, TLAPS

-----------------------------------------------------------------------------
(* A step is a call that begins, a step of a task inside a call, a change  *)
(* to the workers by a task that holds the map alone, or none of these.    *)
Change(t, p) ==
  /\ Exclusive(t)
  /\ \/ \E l \in Levels : Announce(p, l) /\ level' \in {level, [level EXCEPT ![p] = l]}
     \/ UNCHANGED out /\ level' = [level EXCEPT ![p] = None]

LEMMA Steps ==
  ASSUME [Next]_vars
  PROVE  \/ \E t \in Tasks, l \in Levels : Log(t, l) /\ interrupted' \in {interrupted, TRUE}
         \/ \E t \in Tasks : LockShared(t) \/ End(t) \/ Done(t)
         \/ \E t \in Tasks, p \in Paths : Skip(t, p) \/ Begin(t, p)
         \/ \E t \in Tasks, p \in Paths : Change(t, p)
         \/ UNCHANGED vars
<1>1. ASSUME NEW t \in Tasks, Proceed(t)
      PROVE  \/ LockShared(t) \/ End(t) \/ Done(t)
             \/ \E p \in Paths : Skip(t, p) \/ Begin(t, p)
  BY <1>1 DEF Proceed
<1>2. ASSUME NEW t \in Threads, Call(t)
      PROVE  \/ \E l \in Levels : Log(t, l) /\ UNCHANGED interrupted
             \/ \E p \in Paths : Change(t, p)
  <2>1. ASSUME NEW l \in Levels, NEW p \in Paths, AddWorker(t, p, l) PROVE Change(t, p)
    BY <2>1 DEF AddWorker, Change
  <2>2. ASSUME NEW l \in Levels, NEW p \in Paths, SetLevel(t, p, l) PROVE Change(t, p)
    BY <2>2 DEF SetLevel, Change
  <2>3. QED
    BY <1>2, <2>1, <2>2 DEF Call
<1>3. ASSUME NEW t \in Threads, NEW p \in Paths, RemoveWorker(t, p) PROVE Change(t, p)
  BY <1>3 DEF RemoveWorker, Change
<1>4. ASSUME NEW l \in Levels, Signal(l) PROVE Log(Handler, l) /\ interrupted' = TRUE
  BY <1>4 DEF Signal
<1>5. Threads \subseteq Tasks /\ Handler \in Tasks
  BY DEF Tasks
<1>6. QED
  BY <1>1, <1>2, <1>3, <1>4, <1>5 DEF Next

(* What is written is an entry.                                            *)
LEMMA EntryTypes ==
  ASSUME TypeOK, NEW t \in Tasks
  PROVE  /\ Half("begin", t) \in Entries /\ Half("end", t) \in Entries
         /\ \A l \in Levels : Banner(l) \in Entries
  BY DEF TypeOK, Entries, Half, Banner

(* The state of the logger has its types.                                  *)
LEMMA TypeKept == Spec => []TypeOK
<1> USE ThreadsAssumption, LevelsAssumption, NumPathsAssumption
<1>1. Init => TypeOK
  <2> SUFFICES ASSUME Init PROVE TypeOK
    OBVIOUS
  <2>1. level \in [Paths -> Levels \cup {None}] /\ mutex \in [Paths -> Tasks \cup {None}]
    BY DEF Init
  <2>2. out \in [Paths -> Seq(Entries)] /\ due \in [Tasks -> SUBSET Paths]
    BY DEF Init
  <2>3. /\ pc \in [Tasks -> {"idle", "wait", "next", "write"}]
        /\ at \in [Tasks -> 0..NumPaths]
        /\ says \in [Tasks -> Levels \cup {0}] /\ calls \in [Tasks -> Nat]
    BY DEF Init
  <2>4. QED
    BY <2>1, <2>2, <2>3 DEF Init, TypeOK
<1>2. TypeOK /\ [Next]_vars => TypeOK'
  <2> SUFFICES ASSUME TypeOK, [Next]_vars PROVE TypeOK'
    OBVIOUS
  <2>1. ASSUME NEW t \in Tasks, NEW l \in Levels, Log(t, l),
               interrupted' \in {interrupted, TRUE}
        PROVE  TypeOK'
    <3>1. /\ pc' \in [Tasks -> {"idle", "wait", "next", "write"}]
          /\ says' \in [Tasks -> Levels \cup {0}] /\ calls' \in [Tasks -> Nat]
      BY <2>1 DEF TypeOK, Log
    <3>2. QED
      BY <2>1, <3>1 DEF TypeOK, Log
  <2>2. ASSUME NEW t \in Tasks, LockShared(t) PROVE TypeOK'
    BY <2>2 DEF TypeOK, LockShared, Workers
  <2>3. ASSUME NEW t \in Tasks, End(t) PROVE TypeOK'
    <3>1. out' \in [Paths -> Seq(Entries)]
      <4>1. out \in [Paths -> Seq(Entries)] /\ Half("end", t) \in Entries
        BY EntryTypes DEF TypeOK
      <4>2. \A p \in Paths : Append(out[p], Half("end", t)) \in Seq(Entries)
        BY <4>1
      <4>3. out' = [out EXCEPT ![at[t]] = Append(out[at[t]], Half("end", t))]
        BY <2>3 DEF End
      <4>4. QED
        BY <4>1, <4>2, <4>3
    <3>2. QED
      BY <2>3, <3>1 DEF TypeOK, End
  <2>4. ASSUME NEW t \in Tasks, Done(t) PROVE TypeOK'
    <3>1. interrupted' \in BOOLEAN
      BY <2>4, Zenon DEF Done
    <3>2. QED
      BY <2>4, <3>1 DEF TypeOK, Done
  <2>5. ASSUME NEW t \in Tasks, NEW p \in Paths, Skip(t, p) PROVE TypeOK'
    BY <2>5 DEF TypeOK, Skip, Paths
  <2>6. ASSUME NEW t \in Tasks, NEW p \in Paths, Begin(t, p) PROVE TypeOK'
    <3>1. out' \in [Paths -> Seq(Entries)]
      BY <2>6, EntryTypes DEF TypeOK, Begin
    <3>2. QED
      BY <2>6, <3>1 DEF TypeOK, Begin, Paths
  <2>7. ASSUME NEW t \in Tasks, NEW p \in Paths, Change(t, p) PROVE TypeOK'
    <3>1. out' \in [Paths -> Seq(Entries)]
      <4>1. /\ out \in [Paths -> Seq(Entries)]
            /\ \A l \in Levels : Banner(l) \in Entries
        BY EntryTypes DEF TypeOK
      <4>2. \A l \in Levels : Append(out[p], Banner(l)) \in Seq(Entries)
        BY <4>1
      <4>3. \/ \E l \in Levels : out' = [out EXCEPT ![p] = Append(out[p], Banner(l))]
            \/ UNCHANGED out
        BY <2>7 DEF Change, Announce
      <4>4. QED
        BY <4>1, <4>2, <4>3
    <3>2. level' \in [Paths -> Levels \cup {None}]
      BY <2>7 DEF TypeOK, Change
    <3>3. changes' \in Nat
      BY <2>7 DEF TypeOK, Change, Exclusive
    <3>4. QED
      BY <2>7, <3>1, <3>2, <3>3 DEF TypeOK, Change, Exclusive, task
  <2>8. CASE UNCHANGED vars
    BY <2>8 DEF TypeOK, vars, task
  <2>9. QED
    BY <2>1, <2>2, <2>3, <2>4, <2>5, <2>6, <2>7, <2>8, Steps
<1>3. QED
  BY <1>1, <1>2, PTL DEF Spec

(* The map, the mutexes and what was written have their types in every     *)
(* behaviour.                                                              *)
THEOREM LoggerTyped == Spec => []TypeOK
  BY TypeKept

-----------------------------------------------------------------------------
(* Who holds what: a task inside the loop of Workers::log holds the map,   *)
(* and one inside Worker::log a worker of the map; only it holds its mutex.*)
Holding ==
  \A t \in Tasks :
    /\ pc[t] \in {"next", "write"} => t \in readers
    /\ \A p \in Paths : mutex[p] = t => pc[t] = "write" /\ at[t] = p

(* An entry that is last in a file whose mutex is held is the beginning of *)
(* the message of its holder.                                              *)
Begun ==
  \A p \in Paths : mutex[p] # None =>
    /\ Len(out[p]) > 0
    /\ out[p][Len(out[p])] = Half("begin", mutex[p])

LockInv == Holding /\ WorkerStays

(* Nobody is inside the loop when the map is held alone.                   *)
LEMMA Alone ==
  ASSUME TypeOK, Holding, NEW u \in Tasks, Exclusive(u)
  PROVE  /\ \A t \in Tasks : pc[t] \in {"idle", "wait"}
         /\ \A p \in Paths : mutex[p] = None
<1>1. readers = {}
  BY DEF Exclusive
<1>2. \A t \in Tasks : pc[t] \in {"idle", "wait"}
  BY <1>1 DEF Holding, TypeOK
<1>3. \A p \in Paths : mutex[p] = None
  BY <1>2 DEF Holding, TypeOK
<1>4. QED
  BY <1>2, <1>3

LEMMA LocksKept == Spec => []LockInv
<1> USE ThreadsAssumption, LevelsAssumption, NumPathsAssumption
<1>1. Init => LockInv
  BY DEF Init, LockInv, Holding, WorkerStays, Tasks
<1>2. TypeOK /\ LockInv /\ [Next]_vars => LockInv'
  <2> SUFFICES ASSUME TypeOK, LockInv, [Next]_vars PROVE LockInv'
    OBVIOUS
  <2> USE DEF LockInv, Holding, WorkerStays, TypeOK, Workers
  <2>1. ASSUME NEW t \in Tasks, NEW l \in Levels, Log(t, l) PROVE LockInv'
    BY <2>1 DEF Log
  <2>2. ASSUME NEW t \in Tasks, LockShared(t) PROVE LockInv'
    BY <2>2 DEF LockShared
  <2>3. ASSUME NEW t \in Tasks, End(t) PROVE LockInv'
    BY <2>3 DEF End
  <2>4. ASSUME NEW t \in Tasks, Done(t) PROVE LockInv'
    BY <2>4 DEF Done
  <2>5. ASSUME NEW t \in Tasks, NEW p \in Paths, Skip(t, p) PROVE LockInv'
    BY <2>5 DEF Skip
  <2>6. ASSUME NEW t \in Tasks, NEW p \in Paths, Begin(t, p) PROVE LockInv'
    BY <2>6 DEF Begin, Follows
  <2>7. ASSUME NEW t \in Tasks, NEW p \in Paths, Change(t, p) PROVE LockInv'
    <3>1. UNCHANGED <<pc, mutex, at, readers>> /\ readers = {}
      BY <2>7 DEF Change, Exclusive, task
    <3>2. \A u \in Tasks : pc[u] \notin {"next", "write"}
      BY <3>1
    <3>3. QED
      BY <3>1, <3>2
  <2>8. CASE UNCHANGED vars
    BY <2>8 DEF vars, task
  <2>9. QED
    BY <2>1, <2>2, <2>3, <2>4, <2>5, <2>6, <2>7, <2>8, Steps
<1>3. QED
  BY <1>1, <1>2, TypeKept, PTL DEF Spec

(* While a thread writes, its worker is in the map and its own: changes to *)
(* the map wait for every loop to end.                                     *)
THEOREM WorkersStay == Spec => []WorkerStays
<1>1. LockInv => WorkerStays
  BY DEF LockInv
<1>2. QED
  BY <1>1, LocksKept, PTL

-----------------------------------------------------------------------------
(* What a step writes: one entry, at the end of one file, or nothing.      *)
Writes(p, e) == out' = [out EXCEPT ![p] = Append(out[p], e)]

LEMMA WritesAtEnd ==
  ASSUME TypeOK, NEW p \in Paths, NEW e \in Entries, Writes(p, e)
  PROVE  /\ \A q \in Paths : q # p => out'[q] = out[q]
         /\ Len(out'[p]) = Len(out[p]) + 1 /\ Len(out[p]) \in Nat
         /\ DOMAIN out'[p] = 1..(Len(out[p]) + 1)
         /\ DOMAIN out[p] = 1..Len(out[p])
         /\ \A i \in 1..Len(out[p]) : out'[p][i] = out[p][i]
         /\ out'[p][Len(out[p]) + 1] = e
<1>1. out \in [Paths -> Seq(Entries)]
  BY DEF TypeOK
<1>2. out[p] \in Seq(Entries) /\ out'[p] = Append(out[p], e)
  BY <1>1 DEF Writes
<1>3. QED
  BY <1>1, <1>2 DEF Writes

(* A banner is written when no mutex is held, and last is then no          *)
(* beginning; a message begins when its worker's mutex is free; and it     *)
(* ends where it began.                                                    *)
WholeInv == Begun /\ MessagesWhole

LEMMA WholeKept == Spec => []WholeInv
<1> USE ThreadsAssumption, LevelsAssumption
<1>1. Init => WholeInv
  BY DEF Init, WholeInv, Begun, MessagesWhole
<1>2. TypeOK /\ LockInv /\ WholeInv /\ [Next]_vars => WholeInv'
  <2> SUFFICES ASSUME TypeOK, LockInv, WholeInv, [Next]_vars PROVE WholeInv'
    OBVIOUS
  <2>0. None \notin Tasks /\ \A p \in Paths : mutex[p] \in Tasks \cup {None}
    BY DEF TypeOK
  <2>1. ASSUME UNCHANGED <<out, mutex, calls>> PROVE WholeInv'
    BY <2>1 DEF WholeInv, Begun, MessagesWhole, Half
  <2>2. ASSUME NEW t \in Tasks, NEW l \in Levels, Log(t, l) PROVE WholeInv'
    <3>1. UNCHANGED <<out, mutex>> /\ \A u \in Tasks : u # t => calls'[u] = calls[u]
      BY <2>2 DEF Log, TypeOK
    <3>2. \A p \in Paths : mutex[p] # t
      BY <2>2 DEF Log, LockInv, Holding
    <3>3. Begun'
      BY <2>0, <3>1, <3>2 DEF WholeInv, Begun, Half
    <3>4. MessagesWhole'
      BY <3>1 DEF WholeInv, MessagesWhole
    <3>5. QED
      BY <3>3, <3>4 DEF WholeInv
  <2>3. ASSUME NEW t \in Tasks, NEW p \in Paths, Begin(t, p) PROVE WholeInv'
    <3>1. /\ Writes(p, Half("begin", t)) /\ UNCHANGED calls
          /\ mutex[p] = None /\ mutex'[p] = t
          /\ \A q \in Paths : q # p => mutex'[q] = mutex[q]
      BY <2>3 DEF Begin, Writes, TypeOK
    <3>2. Half("begin", t) \in Entries
      BY EntryTypes
    <3>3. Begun'
      BY <3>1, <3>2, WritesAtEnd DEF WholeInv, Begun, Half
    <3>4. ASSUME NEW q \in Paths, NEW i \in DOMAIN out'[q],
                 out'[q][i].part = "begin"
          PROVE  \/ i = Len(out'[q]) /\ mutex'[q] = out'[q][i].task
                 \/ /\ i < Len(out'[q])
                    /\ out'[q][i + 1] = [out'[q][i] EXCEPT !.part = "end"]
      <4>1. CASE q # p
        BY <3>1, <3>2, <3>4, <4>1, WritesAtEnd DEF WholeInv, MessagesWhole
      <4>2. CASE q = p /\ i = Len(out[p]) + 1
        BY <3>1, <3>2, <4>2, WritesAtEnd DEF Half
      <4>3. CASE q = p /\ i \in 1..Len(out[p])
        <5>1. out'[p][i] = out[p][i] /\ i \in DOMAIN out[p]
          BY <3>1, <3>2, <4>3, WritesAtEnd
        <5>2. out[p][i] \in Entries
          BY <5>1 DEF TypeOK
        <5>3. out[p][i].task \in Tasks
          BY <3>4, <4>3, <5>1, <5>2 DEF Entries
        <5>4. /\ i < Len(out[p])
              /\ out[p][i + 1] = [out[p][i] EXCEPT !.part = "end"]
          BY <2>0, <3>1, <3>4, <4>3, <5>1, <5>3 DEF WholeInv, MessagesWhole
        <5>5. i + 1 \in 1..Len(out[p])
          BY <3>1, <3>2, <4>3, <5>4, WritesAtEnd
        <5>6. QED
          BY <3>1, <3>2, <4>3, <5>1, <5>4, <5>5, WritesAtEnd
      <4>4. QED
        BY <3>1, <3>2, <3>4, <4>1, <4>2, <4>3, WritesAtEnd
    <3>5. QED
      BY <3>3, <3>4 DEF WholeInv, MessagesWhole
  <2>4. ASSUME NEW t \in Tasks, End(t) PROVE WholeInv'
    <3>0. PICK p \in Paths : p = at[t]
      BY <2>4 DEF End, LockInv, WorkerStays, Workers
    <3>1. /\ Writes(p, Half("end", t)) /\ UNCHANGED calls
          /\ mutex[p] = t /\ mutex'[p] = None
          /\ \A q \in Paths : q # p => mutex'[q] = mutex[q]
      BY <2>4, <3>0 DEF End, Writes, TypeOK, LockInv, WorkerStays
    <3>2. Half("end", t) \in Entries
      BY EntryTypes
    <3>3. Begun'
      BY <3>1, <3>2, WritesAtEnd DEF WholeInv, Begun, Half
    <3>4. ASSUME NEW q \in Paths, NEW i \in DOMAIN out'[q],
                 out'[q][i].part = "begin"
          PROVE  \/ i = Len(out'[q]) /\ mutex'[q] = out'[q][i].task
                 \/ /\ i < Len(out'[q])
                    /\ out'[q][i + 1] = [out'[q][i] EXCEPT !.part = "end"]
      <4>1. CASE q # p
        BY <3>1, <3>2, <3>4, <4>1, WritesAtEnd DEF WholeInv, MessagesWhole
      <4>2. CASE q = p /\ i = Len(out[p]) + 1
        BY <3>1, <3>2, <3>4, <4>2, WritesAtEnd DEF Half
      <4>3. CASE q = p /\ i \in 1..Len(out[p])
        <5>1. out'[p][i] = out[p][i] /\ i \in DOMAIN out[p]
          BY <3>1, <3>2, <4>3, WritesAtEnd
        <5>2. CASE i = Len(out[p])
          <6>1. out[p][i] = Half("begin", t)
            BY <2>0, <3>1, <5>2 DEF WholeInv, Begun
          <6>2. out'[p][i + 1] = Half("end", t) /\ Len(out'[p]) = i + 1
            BY <3>1, <3>2, <5>2, WritesAtEnd
          <6>3. Half("end", t) = [Half("begin", t) EXCEPT !.part = "end"]
            BY DEF Half
          <6>4. QED
            BY <4>3, <5>1, <6>1, <6>2, <6>3
        <5>3. CASE i # Len(out[p])
          <6>1. out[p][i + 1] = [out[p][i] EXCEPT !.part = "end"]
            BY <3>4, <4>3, <5>1, <5>3 DEF WholeInv, MessagesWhole
          <6>2. i + 1 \in 1..Len(out[p]) /\ i < Len(out'[p])
            BY <3>1, <3>2, <4>3, <5>3, WritesAtEnd
          <6>3. QED
            BY <3>1, <3>2, <4>3, <5>1, <6>1, <6>2, WritesAtEnd
        <5>4. QED
          BY <5>2, <5>3
      <4>4. QED
        BY <3>1, <3>2, <3>4, <4>1, <4>2, <4>3, WritesAtEnd
    <3>5. QED
      BY <3>3, <3>4 DEF WholeInv, MessagesWhole
  <2>5. ASSUME NEW t \in Tasks, NEW p \in Paths, Change(t, p) PROVE WholeInv'
    <3>1. UNCHANGED <<mutex, calls>> /\ \A q \in Paths : mutex[q] = None
      BY <2>5, Alone DEF Change, Exclusive, task, LockInv
    <3>2. CASE UNCHANGED out
      BY <2>1, <3>1, <3>2
    <3>3. ASSUME NEW l \in Levels, Announce(p, l) PROVE WholeInv'
      <4>1. Writes(p, Banner(l)) /\ Banner(l) \in Entries
        BY <3>3, EntryTypes DEF Announce, Writes
      <4>2. ASSUME NEW q \in Paths, NEW i \in DOMAIN out'[q],
                   out'[q][i].part = "begin"
            PROVE  /\ i < Len(out'[q])
                   /\ out'[q][i + 1] = [out'[q][i] EXCEPT !.part = "end"]
        <5>1. i \in DOMAIN out[q] /\ out'[q][i] = out[q][i]
          BY <4>1, <4>2, WritesAtEnd DEF Banner
        <5>2. out[q][i] \in Entries
          BY <5>1 DEF TypeOK
        <5>3. out[q][i].task \in Tasks
          BY <4>2, <5>1, <5>2 DEF Entries
        <5>4. /\ i < Len(out[q])
              /\ out[q][i + 1] = [out[q][i] EXCEPT !.part = "end"]
          BY <2>0, <3>1, <4>2, <5>1, <5>3 DEF WholeInv, MessagesWhole
        <5>5. CASE q # p
          BY <4>1, <5>1, <5>4, <5>5, WritesAtEnd
        <5>6. CASE q = p
          <6>1. i \in 1..Len(out[p]) /\ i + 1 \in 1..Len(out[p])
            BY <4>1, <5>1, <5>4, <5>6, WritesAtEnd
          <6>2. out'[p][i + 1] = out[p][i + 1] /\ i < Len(out'[p])
            BY <4>1, <6>1, WritesAtEnd
          <6>3. QED
            BY <5>1, <5>4, <5>6, <6>2
        <5>7. QED
          BY <5>5, <5>6
      <4>3. QED
        BY <3>1, <4>2 DEF WholeInv, Begun, MessagesWhole
    <3>4. QED
      BY <2>5, <3>2, <3>3 DEF Change
  <2>6. QED
    BY <2>1, <2>2, <2>3, <2>4, <2>5, Steps
       DEF LockShared, Done, Skip, vars, task
<1>3. QED
  BY <1>1, <1>2, TypeKept, LocksKept, PTL DEF Spec

(* No message, and no banner, is ever written into a message, whatever     *)
(* threads log and whoever changes the workers.                            *)
THEOREM NeverTorn == Spec => []MessagesWhole
<1>1. WholeInv => MessagesWhole
  BY DEF WholeInv
<1>2. QED
  BY <1>1, WholeKept, PTL

-----------------------------------------------------------------------------
(* The order of calls.  A call that has not come to a worker yet has       *)
(* written nothing there, and what its thread wrote there is of earlier    *)
(* calls.                                                                  *)
Ahead == [t \in Tasks |->
            {p \in Paths : \/ pc[t] = "wait"
                           \/ pc[t] \in {"next", "write"} /\ at[t] < p}]

Past ==
  \A p \in Paths : \A i \in DOMAIN out[p] : out[p][i].part # "level" =>
    /\ out[p][i].call <= calls[out[p][i].task]
    /\ p \in Ahead[out[p][i].task] => out[p][i].call < calls[out[p][i].task]

(* An entry that is not a banner is signed with its task and call.         *)
LEMMA Signed ==
  ASSUME TypeOK, NEW p \in Paths, NEW i \in DOMAIN out[p],
         out[p][i].part # "level"
  PROVE  out[p][i].task \in Tasks /\ out[p][i].call \in Nat
<1>1. out[p][i] \in Entries
  BY DEF TypeOK
<1>2. QED
  BY <1>1 DEF Entries

LEMMA PastStays ==
  ASSUME TypeOK, TypeOK', Past,
         \A t \in Tasks : calls'[t] >= calls[t],
         \A t \in Tasks, p \in Paths :
           p \in Ahead'[t] => p \in Ahead[t] \/ calls'[t] > calls[t],
         \/ UNCHANGED out
         \/ \E p \in Paths, e \in Entries :
              /\ Writes(p, e)
              /\ e.part # "level" => e.call <= calls'[e.task] /\ p \notin Ahead'[e.task]
  PROVE  Past'
<1>1. SUFFICES ASSUME NEW p \in Paths, NEW i \in DOMAIN out'[p],
                      out'[p][i].part # "level"
               PROVE  /\ out'[p][i].call <= calls'[out'[p][i].task]
                      /\ p \in Ahead'[out'[p][i].task]
                           => out'[p][i].call < calls'[out'[p][i].task]
  BY DEF Past
<1>2. CASE i \in DOMAIN out[p] /\ out'[p][i] = out[p][i]
  <2>1. out[p][i].task \in Tasks /\ out[p][i].call \in Nat
    BY <1>1, <1>2, Signed
  <2>2. /\ out[p][i].call <= calls[out[p][i].task]
        /\ p \in Ahead[out[p][i].task] => out[p][i].call < calls[out[p][i].task]
    BY <1>1, <1>2 DEF Past
  <2>3. calls[out[p][i].task] \in Nat /\ calls'[out[p][i].task] \in Nat
    BY <2>1 DEF TypeOK
  <2>4. QED
    BY <1>2, <2>1, <2>2, <2>3
<1>3. ASSUME NEW q \in Paths, NEW e \in Entries, Writes(q, e),
             e.part # "level" => e.call <= calls'[e.task] /\ q \notin Ahead'[e.task]
      PROVE  \/ i \in DOMAIN out[p] /\ out'[p][i] = out[p][i]
             \/ p = q /\ out'[p][i] = e
  BY <1>3, WritesAtEnd
<1>4. QED
  BY <1>1, <1>2, <1>3

OrderInv == Past /\ InOrderOfCalls

LEMMA OrderKept == Spec => []OrderInv
<1> USE ThreadsAssumption, LevelsAssumption
<1>1. Init => OrderInv
  BY DEF Init, OrderInv, Past, InOrderOfCalls
<1>2. TypeOK /\ TypeOK' /\ LockInv /\ OrderInv /\ [Next]_vars => OrderInv'
  <2> SUFFICES ASSUME TypeOK, TypeOK', LockInv, OrderInv, [Next]_vars
               PROVE  OrderInv'
    OBVIOUS
  <2>0. /\ \A t \in Tasks : calls[t] \in Nat /\ at[t] \in Nat
        /\ \A p \in Paths : p \in Nat /\ p > 0
    BY NumPathsAssumption DEF TypeOK, Paths
  <2>1. ASSUME UNCHANGED out PROVE InOrderOfCalls'
    BY <2>1 DEF OrderInv, InOrderOfCalls
  <2>2. ASSUME NEW p \in Paths, NEW e \in Entries, Writes(p, e), e.part # "begin"
        PROVE  InOrderOfCalls'
    <3>1. \A q \in Paths : \A i \in DOMAIN out'[q] : out'[q][i].part = "begin"
            => i \in DOMAIN out[q] /\ out'[q][i] = out[q][i]
      BY <2>2, WritesAtEnd
    <3>2. QED
      BY <3>1 DEF OrderInv, InOrderOfCalls
  <2>3. ASSUME NEW t \in Tasks, NEW l \in Levels, Log(t, l) PROVE OrderInv'
    <3>1. Past'
      BY <2>0, <2>3, PastStays DEF Log, Ahead, OrderInv, TypeOK
    <3>2. QED
      BY <2>1, <2>3, <3>1 DEF Log, OrderInv
  <2>4. ASSUME NEW t \in Tasks, LockShared(t) PROVE OrderInv'
    <3>1. Past'
      BY <2>0, <2>4, PastStays DEF LockShared, Ahead, OrderInv, TypeOK
    <3>2. QED
      BY <2>1, <2>4, <3>1 DEF LockShared, OrderInv
  <2>5. ASSUME NEW t \in Tasks, Done(t) PROVE OrderInv'
    <3>1. Past'
      BY <2>0, <2>5, PastStays DEF Done, Ahead, OrderInv, TypeOK
    <3>2. QED
      BY <2>1, <2>5, <3>1 DEF Done, OrderInv
  <2>6. ASSUME NEW t \in Tasks, NEW p \in Paths, Skip(t, p) PROVE OrderInv'
    <3>1. Past'
      BY <2>0, <2>6, PastStays DEF Skip, Follows, Ahead, OrderInv, TypeOK
    <3>2. QED
      BY <2>1, <2>6, <3>1 DEF Skip, OrderInv
  <2>7. ASSUME NEW t \in Tasks, NEW p \in Paths, Begin(t, p) PROVE OrderInv'
    <3>1. /\ Writes(p, Half("begin", t)) /\ UNCHANGED calls
          /\ pc[t] = "next" /\ at[t] < p /\ pc'[t] = "write" /\ at'[t] = p
          /\ \A u \in Tasks : u # t => pc'[u] = pc[u] /\ at'[u] = at[u]
      BY <2>0, <2>7 DEF Begin, Follows, Writes, TypeOK
    <3>2. /\ Half("begin", t) \in Entries /\ Half("begin", t).part = "begin"
          /\ Half("begin", t).task = t /\ Half("begin", t).call = calls[t]
      BY EntryTypes DEF Half
    <3>3. /\ \A u \in Tasks, q \in Paths : q \in Ahead'[u] => q \in Ahead[u]
          /\ p \notin Ahead'[t] /\ p \in Ahead[t]
      BY <2>0, <3>1 DEF Ahead
    <3>4. Past'
      <4>1. /\ Half("begin", t).call <= calls'[Half("begin", t).task]
            /\ p \notin Ahead'[Half("begin", t).task]
        BY <2>0, <3>1, <3>2, <3>3
      <4>2. \A u \in Tasks : calls'[u] >= calls[u]
        BY <2>0, <3>1
      <4>3. QED
        BY <3>1, <3>2, <3>3, <4>1, <4>2, PastStays DEF OrderInv
    <3>5. ASSUME NEW q \in Paths, NEW i \in DOMAIN out'[q], NEW j \in DOMAIN out'[q],
                 i < j, out'[q][i].part = "begin", out'[q][j].part = "begin",
                 out'[q][i].task = out'[q][j].task
          PROVE  out'[q][i].call < out'[q][j].call
      <4>1. CASE q # p
        BY <3>1, <3>2, <3>5, <4>1, WritesAtEnd DEF OrderInv, InOrderOfCalls
      <4>2. CASE q = p /\ j \in 1..Len(out[p])
        <5>1. i \in 1..Len(out[p])
          BY <3>1, <3>2, <3>5, <4>2, WritesAtEnd
        <5>2. QED
          BY <3>1, <3>2, <3>5, <4>2, <5>1, WritesAtEnd DEF OrderInv, InOrderOfCalls
      <4>3. CASE q = p /\ j = Len(out[p]) + 1
        <5>1. i \in DOMAIN out[p] /\ out'[p][i] = out[p][i]
          BY <3>1, <3>2, <3>5, <4>3, WritesAtEnd
        <5>2. out'[p][j] = Half("begin", t)
          BY <3>1, <3>2, <4>3, WritesAtEnd
        <5>3. out[p][i].task = t /\ out[p][i].part = "begin"
          BY <3>2, <3>5, <4>3, <5>1, <5>2
        <5>4. out[p][i].call < calls[t]
          BY <3>3, <5>1, <5>3 DEF OrderInv, Past
        <5>5. QED
          BY <3>2, <4>3, <5>1, <5>2, <5>4
      <4>4. QED
        BY <3>1, <3>2, <3>5, <4>1, <4>2, <4>3, WritesAtEnd
    <3>6. QED
      BY <3>4, <3>5 DEF OrderInv, InOrderOfCalls
  <2>8. ASSUME NEW t \in Tasks, End(t) PROVE OrderInv'
    <3>0. PICK p \in Paths : p = at[t]
      BY <2>8 DEF End, LockInv, WorkerStays, Workers
    <3>1. /\ Writes(p, Half("end", t)) /\ UNCHANGED <<calls, at>>
          /\ pc[t] = "write" /\ pc'[t] = "next"
          /\ \A u \in Tasks : u # t => pc'[u] = pc[u]
      BY <2>8, <3>0 DEF End, Writes, TypeOK
    <3>2. /\ Half("end", t) \in Entries /\ Half("end", t).part = "end"
          /\ Half("end", t).task = t /\ Half("end", t).call = calls[t]
      BY EntryTypes DEF Half
    <3>3. /\ \A u \in Tasks, q \in Paths : q \in Ahead'[u] => q \in Ahead[u]
          /\ p \notin Ahead'[t]
      BY <2>0, <3>0, <3>1 DEF Ahead
    <3>4. Past'
      <4>1. /\ Half("end", t).call <= calls'[Half("end", t).task]
            /\ p \notin Ahead'[Half("end", t).task]
        BY <2>0, <3>1, <3>2, <3>3
      <4>2. \A u \in Tasks : calls'[u] >= calls[u]
        BY <2>0, <3>1
      <4>3. QED
        BY <3>1, <3>2, <3>3, <4>1, <4>2, PastStays DEF OrderInv
    <3>5. QED
      BY <2>2, <3>1, <3>2, <3>4 DEF OrderInv
  <2>9. ASSUME NEW t \in Tasks, NEW p \in Paths, Change(t, p) PROVE OrderInv'
    <3>1. UNCHANGED <<pc, at, calls>>
      BY <2>9 DEF Change, Exclusive, task
    <3>2. \/ UNCHANGED out
          \/ \E e \in Entries : Writes(p, e) /\ e.part = "level"
      BY <2>9, EntryTypes DEF Change, Announce, Writes, Banner
    <3>3. Past'
      BY <2>0, <3>1, <3>2, PastStays DEF Ahead, OrderInv
    <3>4. QED
      BY <2>1, <2>2, <3>2, <3>3 DEF OrderInv
  <2>10. CASE UNCHANGED vars
    BY <2>10 DEF vars, task, OrderInv, Past, Ahead, InOrderOfCalls
  <2>11. QED
    BY <2>3, <2>4, <2>5, <2>6, <2>7, <2>8, <2>9, <2>10, Steps
<1>3. QED
  BY <1>1, <1>2, TypeKept, LocksKept, PTL DEF Spec

(* Every file has the messages of one thread in the order of its calls,    *)
(* however the workers were changed between them.                          *)
THEOREM CallsInOrder == Spec => []InOrderOfCalls
<1>1. OrderInv => InOrderOfCalls
  BY DEF OrderInv
<1>2. QED
  BY <1>1, OrderKept, PTL

-----------------------------------------------------------------------------
(* Who has written what.  A call has written, once, to the workers it      *)
(* should write to that its loop has passed, and to nobody else; and what  *)
(* it should write to cannot change while it holds the map.                *)
Passed == [t \in Tasks |->
             {p \in due[t] : \/ pc[t] = "idle"
                             \/ pc[t] = "next" /\ p <= at[t]
                             \/ pc[t] = "write" /\ p < at[t]}]

Duty ==
  \A t \in Tasks :
    /\ pc[t] \in {"next", "write"} => due[t] = {p \in Workers : says[t] <= level[p]}
    /\ pc[t] = "write" => at[t] \in due[t]

Once ==
  \A t \in Tasks, p \in Paths :
    IF p \in Passed[t] THEN \E i \in Nat : Written(p, t) = {i} ELSE Written(p, t) = {}

OnceInv == Duty /\ Once

(* An entry that is not the end of a call leaves what that call has        *)
(* written as it was; one that is adds to it.                              *)
LEMMA WrittenSteps ==
  ASSUME TypeOK, NEW p \in Paths, NEW e \in Entries, Writes(p, e),
         NEW q \in Paths, NEW t \in Tasks, UNCHANGED calls
  PROVE  /\ q # p \/ e # Half("end", t) => Written(q, t)' = Written(q, t)
         /\ q = p /\ e = Half("end", t)
              => Written(q, t)' = Written(q, t) \cup {Len(out[p]) + 1}
<1>1. Half("end", t)' = Half("end", t)
  BY DEF Half
<1>2. Written(q, t)' = {i \in DOMAIN out'[q] : out'[q][i] = Half("end", t)}
  BY <1>1 DEF Written
<1>3. CASE q # p
  BY <1>2, <1>3, WritesAtEnd DEF Written
<1>4. CASE q = p
  <2>1. /\ DOMAIN out'[p] = DOMAIN out[p] \cup {Len(out[p]) + 1}
        /\ \A i \in DOMAIN out[p] : out'[p][i] = out[p][i]
        /\ out'[p][Len(out[p]) + 1] = e
    BY WritesAtEnd
  <2>2. QED
    BY <1>2, <1>4, <2>1 DEF Written
<1>5. QED
  BY <1>3, <1>4

LEMMA OnceKept == Spec => []OnceInv
<1> USE ThreadsAssumption, LevelsAssumption
<1>1. Init => OnceInv
  <2> SUFFICES ASSUME Init PROVE OnceInv
    OBVIOUS
  <2>1. \A t \in Tasks, p \in Paths : Written(p, t) = {} /\ p \notin Passed[t]
    BY DEF Init, Written, Passed
  <2>2. Duty
    BY DEF Init, Duty
  <2>3. QED
    BY <2>1, <2>2 DEF OnceInv, Once
<1>2. TypeOK /\ TypeOK' /\ LockInv /\ OrderInv /\ OnceInv /\ [Next]_vars => OnceInv'
  <2> SUFFICES ASSUME TypeOK, TypeOK', LockInv, OrderInv, OnceInv, [Next]_vars
               PROVE  OnceInv'
    OBVIOUS
  <2>0. /\ \A t \in Tasks : /\ calls[t] \in Nat /\ at[t] \in Nat
                             /\ due[t] \subseteq Paths
                             /\ pc[t] \in {"idle", "wait", "next", "write"}
        /\ \A p \in Paths : p \in Nat /\ p > 0
    BY NumPathsAssumption DEF TypeOK, Paths
  <2>1. ASSUME UNCHANGED <<out, calls>>,
               \A t \in Tasks : Passed'[t] = Passed[t]
        PROVE  Once'
    <3>1. \A p \in Paths, t \in Tasks : Written(p, t)' = Written(p, t)
      BY <2>1 DEF Written, Half
    <3>2. QED
      BY <2>1, <3>1 DEF OnceInv, Once
  <2>2. ASSUME NEW t \in Tasks, NEW l \in Levels, Log(t, l) PROVE OnceInv'
    <3>1. /\ UNCHANGED <<out, due, level, at>>
          /\ pc'[t] = "wait" /\ calls'[t] = calls[t] + 1
          /\ \A u \in Tasks : u # t =>
               pc'[u] = pc[u] /\ calls'[u] = calls[u] /\ says'[u] = says[u]
      BY <2>2 DEF Log, TypeOK
    <3>2. Duty'
      BY <3>1 DEF OnceInv, Duty, Workers
    <3>3. ASSUME NEW p \in Paths PROVE p \notin Passed'[t] /\ Written(p, t)' = {}
      <4>1. ASSUME NEW i \in DOMAIN out[p], out[p][i] = Half("end", t)' PROVE FALSE
        <5>1. /\ out[p][i].part = "end" /\ out[p][i].task = t
              /\ out[p][i].call = calls[t] + 1
          BY <3>1, <4>1 DEF Half
        <5>2. out[p][i].call <= calls[t]
          BY <5>1 DEF OrderInv, Past
        <5>3. QED
          BY <2>0, <5>1, <5>2
      <4>2. QED
        BY <3>1, <4>1 DEF Written, Passed
    <3>4. ASSUME NEW p \in Paths, NEW u \in Tasks, u # t
          PROVE  Passed'[u] = Passed[u] /\ Written(p, u)' = Written(p, u)
      BY <3>1, <3>4 DEF Passed, Written, Half
    <3>5. ASSUME NEW u \in Tasks, NEW p \in Paths
          PROVE  IF p \in Passed'[u] THEN \E i \in Nat : Written(p, u)' = {i}
                                     ELSE Written(p, u)' = {}
      <4>1. CASE u = t
        BY <3>3, <4>1
      <4>2. CASE u # t
        <5>1. Passed'[u] = Passed[u] /\ Written(p, u)' = Written(p, u)
          BY <3>4, <4>2
        <5>2. QED
          BY <5>1 DEF OnceInv, Once
      <4>3. QED
        BY <4>1, <4>2
    <3>6. QED
      BY <3>2, <3>5 DEF OnceInv, Once
  <2>3. ASSUME NEW t \in Tasks, LockShared(t) PROVE OnceInv'
    <3>1. /\ UNCHANGED <<out, calls, level, says>>
          /\ pc[t] = "wait" /\ pc'[t] = "next" /\ at'[t] = 0
          /\ due'[t] = {p \in Workers : says[t] <= level[p]}
          /\ \A u \in Tasks : u # t =>
               pc'[u] = pc[u] /\ at'[u] = at[u] /\ due'[u] = due[u]
      BY <2>3 DEF LockShared, TypeOK
    <3>2. Duty'
      BY <3>1 DEF OnceInv, Duty, Workers
    <3>3. Passed[t] = {}
      BY <3>1 DEF Passed
    <3>4. Passed'[t] = {}
      BY <2>0, <3>1 DEF Passed, Workers
    <3>5. \A u \in Tasks : u # t => Passed'[u] = Passed[u]
      BY <3>1 DEF Passed
    <3>6. QED
      BY <2>1, <3>1, <3>2, <3>3, <3>4, <3>5 DEF OnceInv
  <2>4. ASSUME NEW t \in Tasks, NEW p \in Paths, Skip(t, p) PROVE OnceInv'
    <3>1. /\ UNCHANGED <<out, calls, level, says, due, pc>>
          /\ pc[t] = "next" /\ at'[t] = p /\ Follows(p, t) /\ says[t] > level[p]
          /\ \A u \in Tasks : u # t => at'[u] = at[u]
      BY <2>4 DEF Skip, TypeOK
    <3>2. Duty'
      BY <3>1 DEF OnceInv, Duty, Workers
    <3>3. due[t] = {q \in Workers : says[t] <= level[q]}
      BY <3>1 DEF OnceInv, Duty
    <3>4. p \notin due[t]
      <4>1. level[p] \in Levels
        BY <3>1 DEF TypeOK, Follows, Workers
      <4>2. says[t] \in Levels \cup {0}
        BY DEF TypeOK
      <4>3. says[t] \in Nat /\ level[p] \in Nat
        <5>1. \A l \in Levels : l \in Nat
          BY Zenon
        <5>2. level[p] \in Nat
          BY <4>1, <5>1
        <5>3. CASE says[t] = 0
          BY <5>2, <5>3
        <5>4. CASE says[t] \in Levels
          BY <5>1, <5>2, <5>4
        <5>5. QED
          BY <4>2, <5>3, <5>4
      <4>4. ~(says[t] <= level[p])
        BY <3>1, <4>3
      <4>5. QED
        BY <3>3, <4>4
    <3>5. ASSUME NEW q \in due[t] PROVE q <= p <=> q <= at[t]
      <4>1. q \in Workers /\ q # p /\ q \in Nat /\ at[t] \in Nat
        BY <2>0, <3>3, <3>4
      <4>2. p > at[t] /\ (q > at[t] => p <= q)
        BY <3>1, <4>1 DEF Follows
      <4>3. QED
        BY <2>0, <4>1, <4>2
    <3>6. \A u \in Tasks : Passed'[u] = Passed[u]
      BY <3>1, <3>5 DEF Passed
    <3>7. QED
      BY <2>1, <3>1, <3>2, <3>6 DEF OnceInv
  <2>5. ASSUME NEW t \in Tasks, NEW p \in Paths, Begin(t, p) PROVE OnceInv'
    <3>1. /\ UNCHANGED <<calls, level, says, due>> /\ Writes(p, Half("begin", t))
          /\ pc[t] = "next" /\ pc'[t] = "write" /\ at'[t] = p
          /\ Follows(p, t) /\ says[t] <= level[p]
          /\ \A u \in Tasks : u # t => at'[u] = at[u] /\ pc'[u] = pc[u]
      BY <2>5 DEF Begin, Writes, TypeOK
    <3>2. due[t] = {q \in Workers : says[t] <= level[q]}
      BY <3>1 DEF OnceInv, Duty
    <3>3. Duty'
      BY <3>1, <3>2 DEF OnceInv, Duty, Workers, Follows
    <3>4. ASSUME NEW q \in due[t] PROVE q < p <=> q <= at[t]
      <4>1. q \in Workers /\ q \in Nat /\ at[t] \in Nat
        BY <2>0, <3>2
      <4>2. p > at[t] /\ (q > at[t] => p <= q)
        BY <3>1, <4>1 DEF Follows
      <4>3. QED
        BY <2>0, <4>1, <4>2
    <3>5. \A u \in Tasks : Passed'[u] = Passed[u]
      BY <3>1, <3>4 DEF Passed
    <3>6. \A q \in Paths, u \in Tasks : Written(q, u)' = Written(q, u)
      <4>1. Half("begin", t) \in Entries
        BY EntryTypes
      <4>2. \A u \in Tasks : Half("begin", t) # Half("end", u)
        BY DEF Half
      <4>3. QED
        BY <3>1, <4>1, <4>2, WrittenSteps
    <3>7. QED
      BY <3>3, <3>5, <3>6 DEF OnceInv, Once
  <2>6. ASSUME NEW t \in Tasks, End(t) PROVE OnceInv'
    <3>0. PICK p \in Paths : p = at[t]
      BY <2>6 DEF End, LockInv, WorkerStays, Workers
    <3>1. /\ UNCHANGED <<calls, level, says, due, at>> /\ Writes(p, Half("end", t))
          /\ pc[t] = "write" /\ pc'[t] = "next"
          /\ \A u \in Tasks : u # t => pc'[u] = pc[u]
      BY <2>6, <3>0 DEF End, Writes, TypeOK
    <3>2. Duty'
      BY <3>1 DEF OnceInv, Duty, Workers
    <3>3. p \in due[t]
      BY <3>0, <3>1 DEF OnceInv, Duty
    <3>4. /\ p \notin Passed[t] /\ Passed'[t] = Passed[t] \cup {p}
          /\ \A u \in Tasks : u # t => Passed'[u] = Passed[u]
      <4>1. Passed[t] = {q \in due[t] : q < p}
        BY <3>0, <3>1 DEF Passed
      <4>2. Passed'[t] = {q \in due[t] : q <= p}
        BY <3>0, <3>1 DEF Passed
      <4>3. \A q \in due[t] : q \in Nat
        BY <2>0
      <4>4. \A u \in Tasks : u # t => Passed'[u] = Passed[u]
        BY <3>1 DEF Passed
      <4>5. QED
        BY <2>0, <3>3, <4>1, <4>2, <4>3, <4>4
    <3>5. /\ Half("end", t) \in Entries
          /\ \A u \in Tasks : u # t => Half("end", t) # Half("end", u)
      BY EntryTypes DEF Half
    <3>6. \A q \in Paths, u \in Tasks : q # p \/ u # t => Written(q, u)' = Written(q, u)
      BY <3>1, <3>5, WrittenSteps
    <3>7. Written(p, t)' = Written(p, t) \cup {Len(out[p]) + 1}
      BY <3>1, <3>5, WrittenSteps
    <3>8. Written(p, t)' = {Len(out[p]) + 1} /\ Len(out[p]) + 1 \in Nat
      <4>1. Written(p, t) = {}
        BY <3>4 DEF OnceInv, Once
      <4>2. out[p] \in Seq(Entries)
        BY DEF TypeOK
      <4>3. QED
        BY <3>7, <4>1, <4>2
    <3>9. QED
      BY <3>2, <3>4, <3>6, <3>8 DEF OnceInv, Once
  <2>7. ASSUME NEW t \in Tasks, Done(t) PROVE OnceInv'
    <3>1. /\ UNCHANGED <<out, calls, level, says, due, at>>
          /\ pc[t] = "next" /\ pc'[t] = "idle" /\ \A q \in Workers : q <= at[t]
          /\ \A u \in Tasks : u # t => pc'[u] = pc[u]
      BY <2>7 DEF Done, TypeOK
    <3>2. Duty'
      BY <3>1 DEF OnceInv, Duty, Workers
    <3>3. due[t] \subseteq Workers
      BY <3>1 DEF OnceInv, Duty
    <3>4. \A u \in Tasks : Passed'[u] = Passed[u]
      BY <3>1, <3>3 DEF Passed
    <3>5. QED
      BY <2>1, <3>1, <3>2, <3>4 DEF OnceInv
  <2>8. ASSUME NEW t \in Tasks, NEW p \in Paths, Change(t, p) PROVE OnceInv'
    <3>1. /\ UNCHANGED <<pc, at, says, calls, due>>
          /\ \A u \in Tasks : pc[u] \in {"idle", "wait"}
      BY <2>8, Alone DEF Change, Exclusive, task, LockInv
    <3>2. Duty'
      BY <3>1 DEF Duty
    <3>3. Passed' = Passed
      BY <3>1 DEF Passed
    <3>4. CASE UNCHANGED out
      BY <2>1, <3>1, <3>2, <3>3, <3>4 DEF OnceInv
    <3>5. ASSUME NEW l \in Levels, Announce(p, l) PROVE OnceInv'
      <4>1. /\ Writes(p, Banner(l)) /\ Banner(l) \in Entries
            /\ \A u \in Tasks : Banner(l) # Half("end", u)
        BY <3>5, EntryTypes DEF Announce, Writes, Banner, Half
      <4>2. \A q \in Paths, u \in Tasks : Written(q, u)' = Written(q, u)
        BY <3>1, <4>1, WrittenSteps
      <4>3. QED
        BY <3>2, <3>3, <4>2 DEF OnceInv, Once
    <3>6. QED
      BY <2>8, <3>4, <3>5 DEF Change
  <2>9. CASE UNCHANGED vars
    <3>1. UNCHANGED <<out, calls, level, says, due, at, pc>>
      BY <2>9 DEF vars, task
    <3>2. Duty' /\ Passed' = Passed
      BY <3>1 DEF OnceInv, Duty, Workers, Passed
    <3>3. QED
      BY <2>1, <3>1, <3>2 DEF OnceInv
  <2>10. QED
    BY <2>2, <2>3, <2>4, <2>5, <2>6, <2>7, <2>8, <2>9, Steps
<1>3. QED
  BY <1>1, <1>2, TypeKept, LocksKept, OrderKept, PTL DEF Spec

(* A LOG call that has returned was written once by every worker whose     *)
(* level let it through when the call got hold of the map, and by no other.*)
THEOREM LoggedOnce == Spec => []WrittenOnceWhereDue
<1>1. TypeOK /\ OnceInv => WrittenOnceWhereDue
  <2> SUFFICES ASSUME TypeOK, OnceInv, NEW t \in Tasks, pc[t] = "idle", NEW p \in Paths
               PROVE  Cardinality(Written(p, t)) = IF p \in due[t] THEN 1 ELSE 0
    BY DEF WrittenOnceWhereDue
  <2>1. Passed[t] = due[t]
    BY DEF Passed
  <2>2. CASE p \in due[t]
    <3>1. PICK i \in Nat : Written(p, t) = {i}
      BY <2>1, <2>2 DEF OnceInv, Once
    <3>2. QED
      BY <2>2, <3>1, FS_Singleton
  <2>3. CASE p \notin due[t]
    <3>1. Written(p, t) = {}
      BY <2>1, <2>3 DEF OnceInv, Once
    <3>2. QED
      BY <2>3, <3>1, FS_EmptySet
  <2>4. QED
    BY <2>2, <2>3
<1>2. QED
  BY <1>1, TypeKept, OnceKept, PTL
=============================================================================
