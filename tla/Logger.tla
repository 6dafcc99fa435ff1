------------------------------- MODULE Logger -------------------------------
(***************************************************************************)
(* The Logger (Logger.h, Logger.cpp): threads that log, add, change and    *)
(* remove workers - one for the console and one for each file, kept in a   *)
(* map - under a shared mutex for the map and a mutex in each worker; and  *)
(* a SIGINT handler that logs on the stack of the main thread (main.cpp).  *)
(* Paths stands for the keys of the map in its order.  What a line looks   *)
(* like is left out, but not that it is written piece by piece.            *)
(***************************************************************************)
EXTENDS Naturals, Sequences, FiniteSets

CONSTANTS
  Threads,     (* threads that use the logger                              *)
  Main,        (* the one that signals interrupt                           *)
  Handler,     (* the signal handler, which runs while Main does not       *)
  NumPaths,    (* the workers there can be: the console and files          *)
  Levels,      (* CRITICAL (0) to TRACE (5)                                *)
  MaxCalls,    (* bound: LOG calls of each task                               *)
  MaxChanges,  (* bound: workers added, changed or removed                 *)
  None         (* no worker, no thread                                     *)

Paths == 1..NumPaths
Tasks == Threads \cup {Handler}

ASSUME ThreadsAssumption == Main \in Threads /\ Handler \notin Threads
ASSUME LevelsAssumption  == Levels \subseteq Nat /\ None \notin Levels \cup Tasks
ASSUME NumPathsAssumption == NumPaths \in Nat

VARIABLES
  level,       (* m_level of each worker; None: there is no such worker    *)
  readers,     (* who holds the shared mutex, shared                       *)
  mutex,       (* who holds each worker's mutex                            *)
  pc,          (* of each task: idle, wait (for the shared mutex), next    *)
               (* (between two workers), write (in Worker::log)            *)
  at,          (* the worker its loop has come to                          *)
  says,        (* level of what it logs                                    *)
  calls,       (* number of its LOG calls                                  *)
  interrupted, (* the handler runs                                         *)
  changes,     (* number of changes to workers so far                      *)
  out,         (* what was written to each console or file, in order       *)
  due          (* history: the workers a call should be written by         *)

task == <<pc, at, says, calls>>
vars == <<level, readers, mutex, task, interrupted, changes, out, due>>

(* An entry is half a message - its beginning or its end - or a banner     *)
(* that announces a level.                                                 *)
Half(part, t) == [part |-> part, task |-> t, call |-> calls[t]]
Banner(l)     == [part |-> "level", level |-> l]

Init == /\ level = [p \in Paths |-> None]
        /\ readers = {} /\ mutex = [p \in Paths |-> None]
        /\ pc = [t \in Tasks |-> "idle"] /\ at = [t \in Tasks |-> 0]
        /\ says = [t \in Tasks |-> 0] /\ calls = [t \in Tasks |-> 0]
        /\ interrupted = FALSE /\ changes = 0
        /\ out = [p \in Paths |-> <<>>]
        /\ due = [t \in Tasks |-> {}]

Workers == {p \in Paths : level[p] # None}

(* Main stands still while the handler runs, and the handler only runs     *)
(* then.                                                                   *)
Runs(t) == IF t = Handler THEN interrupted ELSE t = Main => ~interrupted

-----------------------------------------------------------------------------
(* LOG: ~Logger calls Workers::log.                                        *)
Log(t, l) == /\ pc[t] = "idle" /\ calls[t] < MaxCalls[t]
             /\ pc' = [pc EXCEPT ![t] = "wait"]
             /\ says' = [says EXCEPT ![t] = l]
             /\ calls' = [calls EXCEPT ![t] = @ + 1]
             /\ UNCHANGED <<level, readers, mutex, at, changes, out, due>>

(* Mutant: the map has a mutex that is not shared.                         *)
LockAlone(t) == /\ pc[t] = "wait" /\ readers = {}
                /\ pc' = [pc EXCEPT ![t] = "next"]
                /\ at' = [at EXCEPT ![t] = 0]
                /\ readers' = {t}
                /\ due' = [due EXCEPT ![t] = {p \in Workers : says[t] <= level[p]}]
                /\ UNCHANGED <<level, mutex, says, calls, interrupted, changes, out>>

(* std::shared_lock; the changes below never hold the mutex across a step. *)
LockShared(t) == /\ pc[t] = "wait"
                 /\ pc' = [pc EXCEPT ![t] = "next"]
                 /\ at' = [at EXCEPT ![t] = 0]
                 /\ readers' = readers \cup {t}
                 /\ due' = [due EXCEPT ![t] = {p \in Workers : says[t] <= level[p]}]
                 /\ UNCHANGED <<level, mutex, says, calls, interrupted, changes, out>>

(* The loop comes to the next worker, and Worker::log locks its mutex.     *)
Follows(p, t) == p \in Workers /\ p > at[t] /\ \A q \in Workers : q > at[t] => p <= q

(* Mutants: the first worker whose level is too low ends the loop; workers *)
(* have no mutex.                                                          *)
SkipAll(t, p) == /\ pc[t] = "next" /\ Follows(p, t)
                 /\ mutex[p] = None /\ says[t] > level[p]
                 /\ at' = [at EXCEPT ![t] = NumPaths]
                 /\ UNCHANGED <<level, readers, mutex, pc, says, calls,
                                interrupted, changes, out, due>>

BeginUnlocked(t, p) ==
  /\ pc[t] = "next" /\ Follows(p, t) /\ says[t] <= level[p]
  /\ mutex' = [mutex EXCEPT ![p] = t]
  /\ at' = [at EXCEPT ![t] = p]
  /\ pc' = [pc EXCEPT ![t] = "write"]
  /\ out' = [out EXCEPT ![p] = Append(@, Half("begin", t))]
  /\ UNCHANGED <<level, readers, says, calls, interrupted, changes, due>>

(* A message above the worker's level is not written: lock, return, unlock.*)
Skip(t, p) == /\ pc[t] = "next" /\ Follows(p, t)
              /\ mutex[p] = None /\ says[t] > level[p]
              /\ at' = [at EXCEPT ![t] = p]
              /\ UNCHANGED <<level, readers, mutex, pc, says, calls, interrupted,
                             changes, out, due>>

(* Otherwise it is written, piece by piece, before the mutex is unlocked.  *)
Begin(t, p) == /\ pc[t] = "next" /\ Follows(p, t)
               /\ mutex[p] = None /\ says[t] <= level[p]
               /\ mutex' = [mutex EXCEPT ![p] = t]
               /\ at' = [at EXCEPT ![t] = p]
               /\ pc' = [pc EXCEPT ![t] = "write"]
               /\ out' = [out EXCEPT ![p] = Append(@, Half("begin", t))]
               /\ UNCHANGED <<level, readers, says, calls, interrupted, changes, due>>

(* Mutants: the iterator is advanced twice, or not; the mutex stays locked.*)
EndWith(t, place, holder) ==
  /\ pc[t] = "write"
  /\ out' = [out EXCEPT ![at[t]] = Append(@, Half("end", t))]
  /\ mutex' = [mutex EXCEPT ![at[t]] = holder]
  /\ at' = [at EXCEPT ![t] = place]
  /\ pc' = [pc EXCEPT ![t] = "next"]
  /\ UNCHANGED <<level, readers, says, calls, interrupted, changes, due>>

EndTwice(t)  == EndWith(t, at[t] + 1, None)
EndAgain(t)  == EndWith(t, at[t] - 1, None)
EndLocked(t) == EndWith(t, at[t], t)

End(t) == /\ pc[t] = "write"
          /\ out' = [out EXCEPT ![at[t]] = Append(@, Half("end", t))]
          /\ mutex' = [mutex EXCEPT ![at[t]] = None]
          /\ pc' = [pc EXCEPT ![t] = "next"]
          /\ UNCHANGED <<level, readers, at, says, calls, interrupted, changes, due>>

(* No worker is left.  The handler returns, and Main goes on.              *)
Done(t) == /\ pc[t] = "next" /\ \A p \in Workers : p <= at[t]
           /\ readers' = readers \ {t}
           /\ pc' = [pc EXCEPT ![t] = "idle"]
           /\ interrupted' = (interrupted /\ t # Handler)
           /\ UNCHANGED <<level, mutex, at, says, calls, changes, out, due>>

-----------------------------------------------------------------------------
(* Mutant: the map is changed without its mutex.                           *)
ExclusiveNot(t) == /\ pc[t] = "idle"
                   /\ changes < MaxChanges /\ changes' = changes + 1
                   /\ UNCHANGED <<readers, mutex, task, interrupted, due>>

(* Under std::lock_guard on the shared mutex.                              *)
Exclusive(t) == /\ pc[t] = "idle" /\ readers = {}
                /\ changes < MaxChanges /\ changes' = changes + 1
                /\ UNCHANGED <<readers, mutex, task, interrupted, due>>

Announce(p, l) == out' = [out EXCEPT ![p] = Append(@, Banner(l))]

(* addWorker: make_unique opens the file and writes the banner before      *)
(* try_emplace finds that there is a worker for it already.                *)
AddWorker(t, p, l) ==
  /\ Exclusive(t)
  /\ Announce(p, l)
  /\ level' = IF p \in Workers THEN level ELSE [level EXCEPT ![p] = l]

(* setLevel, of a worker that there is; at() throws for any other.         *)
SetLevel(t, p, l) ==
  /\ Exclusive(t) /\ p \in Workers
  /\ Announce(p, l)
  /\ level' = [level EXCEPT ![p] = l]

RemoveWorker(t, p) ==
  /\ Exclusive(t)
  /\ level' = [level EXCEPT ![p] = None]
  /\ UNCHANGED out

-----------------------------------------------------------------------------
(* SIGINT: the handler logs at INFO wherever Main is.                      *)
Signal(l) == /\ ~interrupted /\ interrupted' = TRUE
             /\ Log(Handler, l)

Proceed(t) == /\ Runs(t)
              /\ \/ LockShared(t) \/ End(t) \/ Done(t)
                 \/ \E p \in Paths : Skip(t, p) \/ Begin(t, p)

Call(t) == /\ Runs(t)
           /\ \E l \in Levels :
                \/ Log(t, l) /\ UNCHANGED interrupted
                \/ \E p \in Paths : AddWorker(t, p, l) \/ SetLevel(t, p, l)

Next == \/ \E t \in Tasks : Proceed(t)
        \/ \E t \in Threads : Call(t)
        \/ \E t \in Threads, p \in Paths : Runs(t) /\ RemoveWorker(t, p)
        \/ \E l \in Levels : Signal(l)

Spec == Init /\ [][Next]_vars

(* Every thread that is in a LOG call and can go on does so; the mutexes   *)
(* are granted to those who wait for them.                                 *)
FairSpec == Spec /\ \A t \in Tasks : WF_vars(Proceed(t))

-----------------------------------------------------------------------------
Entries == [part: {"begin", "end"}, task: Tasks, call: Nat]
             \cup [part: {"level"}, level: Levels]

TypeOK ==
  /\ level \in [Paths -> Levels \cup {None}]
  /\ readers \subseteq Tasks /\ mutex \in [Paths -> Tasks \cup {None}]
  /\ pc \in [Tasks -> {"idle", "wait", "next", "write"}]
  /\ at \in [Tasks -> 0..NumPaths]
  /\ says \in [Tasks -> Levels \cup {0}] /\ calls \in [Tasks -> Nat]
  /\ interrupted \in BOOLEAN /\ changes \in Nat
  /\ out \in [Paths -> Seq(Entries)]
  /\ due \in [Tasks -> SUBSET Paths]

(* A thread inside Worker::log has a worker that nobody has removed, and   *)
(* its mutex (Workers::log keeps the map locked through the loop).         *)
WorkerStays == \A t \in Tasks : pc[t] = "write" => at[t] \in Workers /\ mutex[at[t]] = t

(* No message is written into another, on the console or in a file: the    *)
(* end of one comes right after its beginning.                             *)
MessagesWhole ==
  \A p \in Paths : \A i \in DOMAIN out[p] :
    out[p][i].part = "begin" =>
      \/ i = Len(out[p]) /\ mutex[p] = out[p][i].task
      \/ i < Len(out[p]) /\ out[p][i + 1] = [out[p][i] EXCEPT !.part = "end"]

(* A LOG call that has returned was written exactly once by each worker    *)
(* there was when it got hold of the map whose level let it through, and   *)
(* by no other.                                                            *)
Written(p, t) == {i \in DOMAIN out[p] : out[p][i] = Half("end", t)}

WrittenOnceWhereDue ==
  \A t \in Tasks : pc[t] = "idle" =>
    \A p \in Paths : Cardinality(Written(p, t)) = IF p \in due[t] THEN 1 ELSE 0

(* The messages of one thread are in every file in the order of its calls. *)
InOrderOfCalls ==
  \A p \in Paths : \A i, j \in DOMAIN out[p] :
    /\ i < j /\ out[p][i].part = "begin" /\ out[p][j].part = "begin"
    /\ out[p][i].task = out[p][j].task
    => out[p][i].call < out[p][j].call

(* The handler waits for a mutex that the thread under it holds.           *)
Hung == interrupted /\ \E p \in Paths : mutex[p] = Main

(* LOG returns, in every thread, unless a signal has found Main inside     *)
(* Worker::log.                                                            *)
LogReturns == \A t \in Tasks : pc[t] # "idle" ~> pc[t] = "idle" \/ Hung

(* A signal that finds Main elsewhere, in LOG or not, is handled.          *)
HandlerReturns == interrupted /\ ~Hung ~> ~interrupted
=============================================================================
