----------------------------- MODULE TCPSocket ------------------------------
(***************************************************************************)
(* TCPSocket objects (TCPSocket.h, TCPSocket.cpp, built with REUSEADDR),   *)
(* each used by one thread, any number of threads; the registry of ports   *)
(* that they share; and as much of the kernel as the calls depend on.      *)
(* Sending and receiving is in SocketStream and HTTPServer.                *)
(***************************************************************************)
EXTENDS Naturals

CONSTANTS
  Objs,      (* TCPSocket objects; one that is destroyed is constructed anew *)
  Owner,     (* the thread that uses each object                           *)
  Fds,       (* descriptors                                                *)
  Ports,     (* the ports bind is called with, apart from 0                *)
  Ephemeral, (* the ports the kernel chooses from                          *)
  Options,   (* SO_RCVTIMEO, SO_SNDTIMEO                                   *)
  Timeouts,  (* milliseconds passed to setTimeout                          *)
  None       (* no descriptor (-1), no object                              *)

ASSUME PortsAssumption    == Ports \cup Ephemeral \subseteq Nat \ {0}
ASSUME TimeoutsAssumption == Timeouts \subseteq Nat
ASSUME NoneAssumption     == None \notin Fds \cup Objs

VARIABLES
  fd,            (* m_socket of each object                                *)
  timeout,       (* its m_recv_timeout and m_send_timeout                  *)
  closing,       (* an object between the two halves of close(): the       *)
                 (* object it is to be assigned from, itself if it is only *)
                 (* closed, None if it is not closing                      *)
  ports_in_use,  (* the registry                                           *)
  sock,          (* the kernel's sockets, by descriptor                    *)
  unregistered,  (* history: ports that a socket has had without bind()    *)
                 (* being asked for them: connections and kernel's choices *)
  lost,          (* history: descriptors of objects that create was called *)
                 (* on while they were open                                *)
  astray         (* history: objects that were given a socket whose        *)
                 (* timeouts are not those they had cached                 *)

objects == <<fd, timeout, closing>>
kernel  == <<sock, unregistered>>
history == <<lost, astray>>
vars    == <<objects, ports_in_use, kernel, history>>

(* A socket: whether it has its port because bind() was asked for it, and  *)
(* the timeouts the kernel has for it.                                     *)
Socket(state, port, named, times) ==
  [state |-> state, port |-> port, named |-> named, timeout |-> times]

NoTimeout == [option \in Options |-> 0]
Fresh     == Socket("fresh", 0, FALSE, NoTimeout)
Gone      == Socket("free", 0, FALSE, NoTimeout)

Sockets == [state: {"free", "fresh", "bound", "listening", "connected"},
            port: Ports \cup Ephemeral \cup {0}, named: BOOLEAN,
            timeout: [Options -> Timeouts \cup {0}]]

Init == /\ fd = [o \in Objs |-> None]
        /\ timeout = [o \in Objs |-> NoTimeout]
        /\ closing = [o \in Objs |-> None]
        /\ ports_in_use = {}
        /\ sock = [f \in Fds |-> Gone]
        /\ unregistered = {}
        /\ lost = {} /\ astray = {}

(* A thread goes on when none of its objects is inside close().            *)
Idle(o) == \A p \in Objs : Owner[p] = Owner[o] => closing[p] = None

IsOpen(o) == Idle(o) /\ fd[o] # None

OpenFds == {f \in Fds : sock[f].state # "free"}

-----------------------------------------------------------------------------
(* The kernel.                                                             *)

(* The port a socket without one is given: one that no other socket has.   *)
PortFor(f) == IF sock[f].port # 0 THEN {sock[f].port}
              ELSE Ephemeral \ {sock[g].port : g \in OpenFds}

(* With SO_REUSEADDR on both, only a socket that listens keeps another     *)
(* from its port.                                                          *)
Listened(port) == \E g \in Fds : sock[g].state = "listening" /\ sock[g].port = port

CanBind(f, port) == sock[f].state = "fresh" /\ ~Listened(port)

-----------------------------------------------------------------------------
(* An object meets a new socket: they agree on the timeouts, or the object *)
(* goes astray.                                                            *)
Meets(o, cached, times) ==
  astray' = IF cached = times THEN astray \ {o} ELSE astray \cup {o}

(* create.  On an object that is open, it loses the descriptor.  It does   *)
(* not touch the cached timeouts, and that of a new socket is 0.           *)
Create(o) ==
  /\ Idle(o)
  /\ \/ \E f \in Fds \ OpenFds :
          fd' = [fd EXCEPT ![o] = f] /\ sock' = [sock EXCEPT ![f] = Fresh]
     \/ fd' = [fd EXCEPT ![o] = None] /\ UNCHANGED sock
  /\ lost' = (lost \cup {fd[o]}) \ {None}
  /\ Meets(o, timeout[o], NoTimeout)
  /\ UNCHANGED <<timeout, closing, ports_in_use, unregistered>>

(* Mutants: closing leaves the registry alone; the source of a move keeps  *)
(* its descriptor; a move, or a close, leaves the timeouts where they are. *)
StartCloseOnly(o, from) ==
  /\ IsOpen(o) /\ Owner[from] = Owner[o]
  /\ closing' = [closing EXCEPT ![o] = from]
  /\ UNCHANGED <<fd, timeout, ports_in_use, kernel, history>>

Copied(to, from) ==
  /\ fd' = [fd EXCEPT ![to] = IF to = from THEN None ELSE fd[from]]
  /\ timeout' = [timeout EXCEPT ![to] = timeout[from]]
  /\ UNCHANGED astray

MovedBare(to, from) ==
  fd' = [fd EXCEPT ![to] = fd[from], ![from] = None] /\ UNCHANGED <<timeout, astray>>

(* close, first half: the port that getsockname returns leaves the         *)
(* registry.  Called by the destructor too, and by the assignment from     *)
(* another object.                                                         *)
StartClose(o, from) ==
  /\ IsOpen(o) /\ Owner[from] = Owner[o]
  /\ ports_in_use' = ports_in_use \ {sock[fd[o]].port}
  /\ closing' = [closing EXCEPT ![o] = from]
  /\ UNCHANGED <<fd, timeout, kernel, history>>

(* An object that is assigned from takes on the fields of a closed one.    *)
Moved(to, from) ==
  /\ fd' = [fd EXCEPT ![to] = fd[from], ![from] = None]
  /\ timeout' = [timeout EXCEPT ![to] = timeout[from], ![from] = NoTimeout]
  /\ astray' = {o \in Objs \ {from} : (IF o = to THEN from ELSE o) \in astray}

(* Second half: the descriptor is closed and, in an assignment, the fields *)
(* of the other object are taken over.                                     *)
FinishClose(o) ==
  /\ closing[o] # None
  /\ sock' = [sock EXCEPT ![fd[o]] = Gone]
  /\ Moved(o, closing[o])
  /\ closing' = [closing EXCEPT ![o] = None]
  /\ UNCHANGED <<ports_in_use, unregistered, lost>>

(* The move constructor, or the assignment to an object that is closed.    *)
Move(o, from) ==
  /\ Idle(o) /\ fd[o] = None /\ Owner[from] = Owner[o]
  /\ Moved(o, from)
  /\ UNCHANGED <<closing, ports_in_use, kernel, lost>>

-----------------------------------------------------------------------------
(* Mutant: the registry is not asked.                                      *)
BindAnyway(o, port) ==
  /\ IsOpen(o) /\ CanBind(fd[o], port) /\ port # 0
  /\ sock' = [sock EXCEPT ![fd[o]] = Socket("bound", port, TRUE, sock[fd[o]].timeout)]
  /\ ports_in_use' = ports_in_use \cup {port}
  /\ UNCHANGED <<objects, unregistered, history>>

(* bind, all of it under the mutex: what the registry holds is refused,    *)
(* and what the kernel accepts is added.  A refusal changes nothing.       *)
Bind(o, port) ==
  /\ IsOpen(o) /\ port \notin ports_in_use /\ CanBind(fd[o], port)
  /\ \E p \in IF port = 0 THEN PortFor(fd[o]) ELSE {port} :
       /\ sock' = [sock EXCEPT ![fd[o]] = Socket("bound", p, port # 0,
                                                 sock[fd[o]].timeout)]
       /\ unregistered' = IF port = 0 THEN unregistered \cup {p} ELSE unregistered
  /\ ports_in_use' = ports_in_use \cup {port}
  /\ UNCHANGED <<objects, history>>

(* The kernel gives a socket that listens or connects a port if it has     *)
(* none.                                                                   *)
Becomes(f, state) ==
  \E p \in PortFor(f) :
    /\ sock' = [sock EXCEPT ![f] = Socket(state, p, sock[f].named, sock[f].timeout)]
    /\ unregistered' = IF sock[f].port = 0 THEN unregistered \cup {p}
                                           ELSE unregistered

Listen(o) ==
  /\ IsOpen(o) /\ sock[fd[o]].state \in {"fresh", "bound"}
  /\ ~Listened(sock[fd[o]].port)
  /\ Becomes(fd[o], "listening")
  /\ UNCHANGED <<objects, ports_in_use, history>>

Connect(o) ==
  /\ IsOpen(o) /\ sock[fd[o]].state \in {"fresh", "bound"}
  /\ Becomes(fd[o], "connected")
  /\ UNCHANGED <<objects, ports_in_use, history>>

(* A connection has the port of its listener and, on Linux, its timeouts.  *)
Connection(listener) ==
  Socket("connected", listener.port, FALSE, listener.timeout)

(* Mutant: the object that takes the connection is not closed first.       *)
AcceptOver(o, into) ==
  /\ IsOpen(o) /\ sock[fd[o]].state = "listening" /\ Owner[into] = Owner[o]
  /\ \E f \in Fds \ OpenFds :
       /\ fd' = [fd EXCEPT ![into] = f]
       /\ sock' = [sock EXCEPT ![f] = Connection(sock[fd[o]])]
  /\ unregistered' = unregistered \cup {sock[fd[o]].port}
  /\ UNCHANGED <<timeout, closing, ports_in_use, history>>

(* accept, returned as an object that has no timeouts cached, whatever the *)
(* connection has.                                                         *)
Accept(o, into) ==
  /\ IsOpen(o) /\ sock[fd[o]].state = "listening"
  /\ fd[into] = None /\ Owner[into] = Owner[o]
  /\ \E f \in Fds \ OpenFds :
       /\ fd' = [fd EXCEPT ![into] = f]
       /\ sock' = [sock EXCEPT ![f] = Connection(sock[fd[o]])]
  /\ timeout' = [timeout EXCEPT ![into] = NoTimeout]
  /\ Meets(into, NoTimeout, sock[fd[o]].timeout)
  /\ unregistered' = unregistered \cup {sock[fd[o]].port}
  /\ UNCHANGED <<closing, ports_in_use, lost>>

WithTimeout(s, option, ms) ==
  Socket(s.state, s.port, s.named, [s.timeout EXCEPT ![option] = ms])

(* Mutant: the object remembers microseconds.                              *)
SetTimeoutMicro(o, option, ms) ==
  /\ IsOpen(o) /\ timeout[o][option] # ms
  /\ ms * 1000 < 1000000
  /\ sock' = [sock EXCEPT ![fd[o]] = WithTimeout(sock[fd[o]], option, ms)]
  /\ timeout' = [timeout EXCEPT ![o] = [timeout[o] EXCEPT ![option] = ms * 1000]]
  /\ UNCHANGED <<fd, closing, ports_in_use, unregistered, history>>

(* setTimeout: nothing to do if the object has the value already; tv_usec  *)
(* is all of the timeout in microseconds, and the kernel takes less than a *)
(* second of them.                                                         *)
SetTimeout(o, option, ms) ==
  /\ IsOpen(o) /\ timeout[o][option] # ms
  /\ ms * 1000 < 1000000
  /\ sock' = [sock EXCEPT ![fd[o]] = WithTimeout(sock[fd[o]], option, ms)]
  /\ timeout' = [timeout EXCEPT ![o] = [timeout[o] EXCEPT ![option] = ms]]
  /\ UNCHANGED <<fd, closing, ports_in_use, unregistered, history>>

-----------------------------------------------------------------------------
Next == \E o \in Objs :
          \/ Create(o) \/ FinishClose(o) \/ Listen(o) \/ Connect(o)
          \/ \E p \in Objs : StartClose(o, p) \/ Move(o, p) \/ Accept(o, p)
          \/ \E port \in Ports \cup {0} : Bind(o, port)
          \/ \E option \in Options, ms \in Timeouts : SetTimeout(o, option, ms)

Spec == Init /\ [][Next]_vars

-----------------------------------------------------------------------------
TypeOK ==
  /\ fd \in [Objs -> Fds \cup {None}]
  /\ timeout \in [Objs -> [Options -> Timeouts \cup {0}]]
  /\ closing \in [Objs -> Objs \cup {None}]
  /\ ports_in_use \subseteq Ports \cup {0}
  /\ sock \in [Fds -> Sockets]
  /\ unregistered \subseteq Ports \cup Ephemeral
  /\ lost \subseteq Fds /\ astray \subseteq Objs

(* A descriptor an object holds is open, and no other object holds it:     *)
(* however objects are moved, assigned, closed and created by different    *)
(* threads, none closes or uses the descriptor of another, even when the   *)
(* kernel gives a number out again.                                        *)
DescriptorsOwned ==
  \A o \in Objs : fd[o] # None =>
    /\ fd[o] \in OpenFds
    /\ \A p \in Objs : fd[p] = fd[o] => p = o

(* No descriptor is lost: each open one is held by an object, but for the  *)
(* one leak in the code, a create on an object that is open.               *)
NoLeak == \A f \in OpenFds \ lost : \E o \in Objs : fd[o] = f

(* The registry refuses no port that is free: each one in it is that of an *)
(* open socket - but for 0, which nothing takes out again but the close of *)
(* a socket that was never bound.                                          *)
NoGhostPort == \A port \in ports_in_use \ {0} : \E f \in OpenFds : sock[f].port = port

Share(f, g) == /\ f # g /\ sock[f].port = sock[g].port
               /\ sock[f].named /\ sock[g].named
               /\ \A o \in Objs : fd[o] \in {f, g} => closing[o] = None

(* Two threads that bind a port, with others that close it, do not both    *)
(* have it - as long as no connection, and no socket that the kernel chose *)
(* a port for, has had that port as well.                                  *)
PortsExclusive ==
  \A f, g \in OpenFds : Share(f, g) => sock[f].port \in unregistered

(* The timeout an object believes to be set is the one its socket has: a   *)
(* call that setTimeout skips because nothing would change changes nothing.*)
(* Two things bring an object and a socket with other timeouts together: a *)
(* create on one that still has some cached, and an accept from a listener *)
(* that has some.  For every other object it holds, however it is moved,   *)
(* closed and opened again, and whatever the kernel refuses.  The fields   *)
(* count milliseconds, as the parameter of setTimeout does, though         *)
(* TCPSocket.h:57 says of them "Current timeout in seconds, or 0 if no     *)
(* timeout".                                                               *)
CurrentTimeout ==
  \A o \in Objs \ astray : fd[o] # None => sock[fd[o]].timeout = timeout[o]

-----------------------------------------------------------------------------
(* What a test of the repository says, and the code does not do.           *)

(* unittest/test_tcp.cpp:21, "Other sockets shouldn't be able to bind to   *)
(* same port".                                                             *)
OtherSocketsCannotBind == \A f, g \in OpenFds : ~Share(f, g)
=============================================================================
