--------------------------- MODULE TCPSocketProofs ---------------------------
(***************************************************************************)
(* Proofs about TCPSocket, for any threads, objects, descriptors, ports    *)
(* and timeouts: who holds which descriptor, what its timeouts are, and    *)
(* what the registry of ports says.                                        *)
(***************************************************************************)
EXTENDS TCPSocket, TLAPS

(* An object that is being closed has a descriptor; the object it is to be *)
(* assigned from is its thread's; and a thread is in one close() at most.  *)
Closing ==
  \A o \in Objs : closing[o] # None =>
    /\ fd[o] # None
    /\ Owner[closing[o]] = Owner[o]
    /\ \A p \in Objs : closing[p] # None /\ Owner[p] = Owner[o] => p = o

(* What the kernel has for a socket that is new, listens, was bound to a   *)
(* port by name, or has a port that nobody named.                          *)
SocketsOK ==
  \A f \in Fds :
    /\ sock[f].state = "fresh" => sock[f].port = 0
    /\ sock[f].state = "listening" => sock[f].port # 0
    /\ sock[f].named => sock[f].port # 0
    /\ ~sock[f].named /\ sock[f].port # 0 => sock[f].port \in unregistered

(* A socket that no object is closing; nobody need hold it any more.       *)
Live(f) == f \in OpenFds /\ \A o \in Objs : fd[o] = f => closing[o] = None

(* The registry and the live sockets agree, in both directions: each port  *)
(* in the registry is that of one, and the port one was bound to is there, *)
(* unless it was had without bind() as well.                               *)
Backed == \A port \in ports_in_use \ {0} :
            \E f \in Fds : Live(f) /\ sock[f].port = port

Registered ==
  \A f \in Fds : Live(f) /\ sock[f].named =>
                    sock[f].port \in ports_in_use \cup unregistered

Held  == TypeOK /\ Closing /\ DescriptorsOwned /\ NoLeak
Inv   == /\ Held /\ SocketsOK /\ CurrentTimeout
         /\ Backed /\ Registered /\ PortsExclusive

-----------------------------------------------------------------------------
(* The sockets the kernel hands out and takes back have no port, and none  *)
(* of the timeouts.                                                        *)
LEMMA SocketTypes ==
  /\ Fresh \in Sockets /\ Fresh.state = "fresh"
  /\ Gone \in Sockets /\ Gone.state = "free"
  /\ \A s \in {Fresh, Gone} : s.port = 0 /\ ~s.named /\ s.timeout = NoTimeout
  /\ NoTimeout \in [Options -> Timeouts \cup {0}]
  BY DEF Fresh, Gone, NoTimeout, Sockets, Socket

(* The invariant holds of a program that has made no socket yet.           *)
LEMMA InitInv == Init => Inv
<1> SUFFICES ASSUME Init PROVE Inv
  OBVIOUS
<1> USE SocketTypes, NoneAssumption DEF Init
<1>1. \A f \in Fds : sock[f] = Gone
  OBVIOUS
<1>2. OpenFds = {}
  BY <1>1 DEF OpenFds
<1>3. Held
  BY <1>2 DEF Held, TypeOK, Closing, DescriptorsOwned, NoLeak
<1>4. SocketsOK
  BY <1>1 DEF SocketsOK
<1>5. CurrentTimeout /\ Backed /\ Registered
  BY <1>2 DEF CurrentTimeout, Backed, Registered, Live
<1>6. PortsExclusive
  BY <1>2 DEF PortsExclusive
<1>7. QED
  BY <1>3, <1>4, <1>5, <1>6 DEF Inv

-----------------------------------------------------------------------------
(* What it takes for two sockets to share a port.                          *)
LEMMA SharedLive ==
  ASSUME NEW f \in OpenFds, NEW g \in OpenFds
  PROVE  Share(f, g) <=> /\ f # g /\ sock[f].port = sock[g].port
                         /\ sock[f].named /\ sock[g].named
                         /\ Live(f) /\ Live(g)
  BY DEF Share, Live

(* A descriptor that an object holds is open, and the object's alone.      *)
LEMMA Holder ==
  ASSUME Inv, NEW o \in Objs, fd[o] # None
  PROVE  /\ fd[o] \in Fds /\ fd[o] \in OpenFds
         /\ sock[fd[o]] \in Sockets /\ sock[fd[o]].state # "free"
         /\ \A p \in Objs : fd[p] = fd[o] => p = o
         /\ closing[o] = None => Live(fd[o])
  BY DEF Inv, Held, TypeOK, DescriptorsOwned, OpenFds, Live

(* What bind, listen, connect and setTimeout do: one open descriptor's     *)
(* socket is another one, and the objects have the descriptors they had.   *)
Changes(f, s) ==
  /\ UNCHANGED <<fd, closing, history>>
  /\ f \in Fds /\ sock[f].state # "free"
  /\ s \in Sockets /\ s.state # "free"
  /\ sock' = [sock EXCEPT ![f] = s]

(* Such a step leaves every descriptor where it was, and the other sockets *)
(* as they were.                                                           *)
LEMMA ChangesKeep ==
  ASSUME Inv, NEW f, NEW s, Changes(f, s)
  PROVE  /\ sock' \in [Fds -> Sockets]
         /\ \A g \in Fds : sock'[g] = IF g = f THEN s ELSE sock[g]
         /\ OpenFds' = OpenFds
         /\ \A g \in Fds : Live(g)' <=> Live(g)
         /\ Closing' /\ DescriptorsOwned' /\ NoLeak'
<1>1. /\ sock' \in [Fds -> Sockets]
      /\ \A g \in Fds : sock'[g] = IF g = f THEN s ELSE sock[g]
  BY DEF Inv, Held, TypeOK, Changes
<1>2. OpenFds' = OpenFds
  BY <1>1 DEF Changes, OpenFds
<1>3. QED
  BY <1>1, <1>2 DEF Inv, Held, Changes, Closing, DescriptorsOwned, NoLeak, Live, history

(* Setting a timeout changes no port.                                      *)
LEMMA SetTimeoutKeeps ==
  ASSUME Inv, NEW o \in Objs, NEW option \in Options, NEW ms \in Timeouts,
         SetTimeout(o, option, ms)
  PROVE  Inv'
<1> USE NoneAssumption
<1>1. /\ fd[o] # None /\ fd[o] \in Fds /\ sock[fd[o]].state # "free"
      /\ sock[fd[o]] \in Sockets
      /\ \A p \in Objs : fd[p] = fd[o] => p = o
  BY Holder DEF SetTimeout, IsOpen
<1>2. PICK s : s = WithTimeout(sock[fd[o]], option, ms)
  OBVIOUS
<1>3. /\ s \in Sockets /\ s.state = sock[fd[o]].state
      /\ s.port = sock[fd[o]].port /\ s.named = sock[fd[o]].named
      /\ s.timeout = [sock[fd[o]].timeout EXCEPT ![option] = ms]
  BY <1>1, <1>2 DEF WithTimeout, Socket, Sockets
<1>4. /\ sock' = [sock EXCEPT ![fd[o]] = s]
      /\ fd' = fd /\ closing' = closing /\ UNCHANGED history
  BY <1>2 DEF SetTimeout
<1>5. Changes(fd[o], s)
  BY <1>1, <1>3, <1>4 DEF Changes
<1>6. /\ sock' \in [Fds -> Sockets] /\ OpenFds' = OpenFds
      /\ \A g \in Fds : sock'[g] = IF g = fd[o] THEN s ELSE sock[g]
      /\ \A g \in Fds : Live(g)' <=> Live(g)
      /\ Closing' /\ DescriptorsOwned' /\ NoLeak'
  BY <1>5, ChangesKeep
<1>7. \A g \in Fds : sock'[g].port = sock[g].port /\ sock'[g].named = sock[g].named
  BY <1>3, <1>6
<1>8. Held'
  BY <1>6 DEF SetTimeout, Inv, Held, TypeOK, history
<1>9. SocketsOK'
  BY <1>1, <1>3, <1>6 DEF SetTimeout, Inv, SocketsOK
<1>10. CurrentTimeout'
  <2>1. ASSUME NEW p \in Objs, p # o
        PROVE  /\ timeout'[p] = timeout[p]
               /\ fd[p] # None => sock'[fd[p]] = sock[fd[p]]
    BY <2>1, <1>1, <1>6 DEF SetTimeout, Inv, Held, TypeOK, DescriptorsOwned, OpenFds
  <2>2. o \notin astray => sock'[fd[o]].timeout = timeout'[o]
    <3>1. sock'[fd[o]].timeout = [sock[fd[o]].timeout EXCEPT ![option] = ms]
      BY <1>1, <1>3, <1>6
    <3>2. timeout'[o] = [timeout[o] EXCEPT ![option] = ms]
      BY DEF SetTimeout, Inv, Held, TypeOK
    <3>3. QED
      BY <1>1, <3>1, <3>2 DEF Inv, CurrentTimeout
  <2>3. QED
    BY <1>1, <2>1, <2>2 DEF SetTimeout, Inv, CurrentTimeout, history
<1>11. Backed' /\ Registered'
  BY <1>6, <1>7 DEF SetTimeout, Inv, Backed, Registered
<1>12. PortsExclusive'
  BY <1>6, <1>7 DEF SetTimeout, Inv, PortsExclusive, Share, OpenFds
<1>13. QED
  BY <1>8, <1>9, <1>10, <1>11, <1>12 DEF Inv

(* A socket the kernel gives a port, because it listens or connects, keeps *)
(* the one it has; and nobody named the new one.                           *)
LEMMA BecomesKeeps ==
  ASSUME Inv, NEW o \in Objs, NEW state \in {"listening", "connected"},
         IsOpen(o), Becomes(fd[o], state), UNCHANGED <<objects, ports_in_use, history>>
  PROVE  Inv'
<1> USE NoneAssumption, PortsAssumption DEF objects
<1>1. /\ fd[o] # None /\ fd[o] \in Fds /\ sock[fd[o]].state # "free"
      /\ sock[fd[o]] \in Sockets
      /\ \A p \in Objs : fd[p] = fd[o] => p = o
  BY Holder DEF IsOpen
<1>2. PICK port \in PortFor(fd[o]) :
        /\ sock' = [sock EXCEPT ![fd[o]] = Socket(state, port, sock[fd[o]].named,
                                               sock[fd[o]].timeout)]
        /\ unregistered' = IF sock[fd[o]].port = 0 THEN unregistered \cup {port}
                                                   ELSE unregistered
  BY DEF Becomes
<1>3. /\ port \in Ports \cup Ephemeral /\ port # 0
      /\ sock[fd[o]].port # 0 => port = sock[fd[o]].port
  BY <1>1, <1>2 DEF PortFor, Sockets
<1>4. PICK s : s = Socket(state, port, sock[fd[o]].named, sock[fd[o]].timeout)
  OBVIOUS
<1>5. /\ s \in Sockets /\ s.state = state /\ s.port = port
      /\ s.named = sock[fd[o]].named /\ s.timeout = sock[fd[o]].timeout
  BY <1>1, <1>3, <1>4 DEF Socket, Sockets
<1>6. Changes(fd[o], s)
  BY <1>1, <1>2, <1>4, <1>5 DEF Changes
<1>7. /\ sock' \in [Fds -> Sockets] /\ OpenFds' = OpenFds
      /\ \A g \in Fds : sock'[g] = IF g = fd[o] THEN s ELSE sock[g]
      /\ \A g \in Fds : Live(g)' <=> Live(g)
      /\ Closing' /\ DescriptorsOwned' /\ NoLeak'
  BY <1>6, ChangesKeep
<1>8. Held'
  BY <1>2, <1>3, <1>7 DEF Inv, Held, TypeOK, history
<1>9. unregistered \subseteq unregistered'
  BY <1>2
<1>10. sock[fd[o]].named => sock[fd[o]].port # 0 /\ unregistered' = unregistered
  BY <1>1, <1>2 DEF Inv, SocketsOK
<1>11. SocketsOK'
  <2>1. ~s.named => s.port \in unregistered'
    BY <1>1, <1>2, <1>3, <1>5 DEF Inv, SocketsOK
  <2>2. s.named => s.port # 0
    BY <1>3, <1>5
  <2>3. QED
    BY <1>3, <1>5, <1>7, <1>9, <2>1, <2>2 DEF Inv, SocketsOK, Sockets
<1>12. CurrentTimeout'
  <2>1. ASSUME NEW p \in Objs, fd[p] # None
        PROVE  sock'[fd[p]].timeout = sock[fd[p]].timeout
    BY <2>1, <1>5, <1>7, Holder
  <2>2. QED
    BY <2>1 DEF Inv, CurrentTimeout, history
<1>13. Backed'
  <2>1. ASSUME NEW f \in Fds, sock[f].port # 0
        PROVE  sock'[f].port = sock[f].port
    BY <2>1, <1>3, <1>5, <1>7
  <2>2. QED
    BY <2>1, <1>7 DEF Inv, Backed
<1>14. Registered'
  <2>1. ASSUME NEW f \in Fds, Live(f), sock'[f].named
        PROVE  sock'[f].port \in ports_in_use \cup unregistered
    BY <2>1, <1>3, <1>5, <1>7, <1>10 DEF Inv, Registered
  <2>2. QED
    BY <2>1, <1>7, <1>9 DEF Registered
<1>15. PortsExclusive'
  <2>1. ASSUME NEW f \in OpenFds, NEW g \in OpenFds, Share(f, g)'
        PROVE  sock'[f].port \in unregistered'
    <3>1. \A h \in {f, g} : /\ h \in Fds /\ sock'[h].port = sock[h].port
                            /\ sock'[h].named = sock[h].named
      BY <2>1, <1>3, <1>5, <1>7, <1>10 DEF Share, OpenFds
    <3>2. Share(f, g)
      BY <2>1, <3>1 DEF Share
    <3>3. QED
      BY <3>1, <3>2, <1>9 DEF Inv, PortsExclusive
  <2>2. QED
    BY <2>1, <1>7 DEF PortsExclusive
<1>16. QED
  BY <1>8, <1>11, <1>12, <1>13, <1>14, <1>15 DEF Inv

(* What bind names was in the registry of no socket in use, and is now;    *)
(* what the kernel chooses was named by nobody.                            *)
LEMMA BindKeeps ==
  ASSUME Inv, NEW o \in Objs, NEW port \in Ports \cup {0}, Bind(o, port)
  PROVE  Inv'
<1> USE NoneAssumption, PortsAssumption
<1>1. /\ fd[o] # None /\ fd[o] \in Fds /\ sock[fd[o]].state = "fresh"
      /\ sock[fd[o]] \in Sockets
      /\ \A p \in Objs : fd[p] = fd[o] => p = o
  BY Holder DEF Bind, IsOpen, CanBind
<1>2. sock[fd[o]].port = 0 /\ ~sock[fd[o]].named
  BY <1>1 DEF Inv, SocketsOK
<1>3. Live(fd[o])
  BY Holder DEF Bind, IsOpen, Idle
<1>4. /\ port \notin ports_in_use /\ ports_in_use' = ports_in_use \cup {port}
      /\ fd' = fd /\ closing' = closing /\ timeout' = timeout
      /\ UNCHANGED history
  BY DEF Bind, objects
<1>5. PICK p \in IF port = 0 THEN PortFor(fd[o]) ELSE {port} :
        /\ sock' = [sock EXCEPT ![fd[o]] = Socket("bound", p, port # 0,
                                                  sock[fd[o]].timeout)]
        /\ unregistered' = IF port = 0 THEN unregistered \cup {p}
                                       ELSE unregistered
  BY DEF Bind
<1>6. p \in Ports \cup Ephemeral /\ p # 0 /\ (port # 0 => p = port)
  BY <1>2, <1>5 DEF PortFor
<1>7. PICK s : s = Socket("bound", p, port # 0, sock[fd[o]].timeout)
  OBVIOUS
<1>8. /\ s \in Sockets /\ s.state = "bound" /\ s.port = p
      /\ s.named = (port # 0) /\ s.timeout = sock[fd[o]].timeout
  BY <1>1, <1>6, <1>7 DEF Socket, Sockets
<1>9. Changes(fd[o], s)
  BY <1>1, <1>4, <1>5, <1>7, <1>8 DEF Changes
<1>10. /\ sock' \in [Fds -> Sockets] /\ OpenFds' = OpenFds
       /\ \A g \in Fds : sock'[g] = IF g = fd[o] THEN s ELSE sock[g]
       /\ \A g \in Fds : Live(g)' <=> Live(g)
       /\ Closing' /\ DescriptorsOwned' /\ NoLeak'
  BY <1>9, ChangesKeep
<1>11. unregistered \subseteq unregistered' /\ (port = 0 => p \in unregistered')
  BY <1>5
<1>12. Held'
  BY <1>4, <1>5, <1>6, <1>10 DEF Inv, Held, TypeOK, history
<1>13. SocketsOK'
  BY <1>6, <1>8, <1>10, <1>11 DEF Inv, SocketsOK, Sockets
<1>14. \A q \in Objs : fd[q] # None /\ q # o => sock'[fd[q]] = sock[fd[q]]
  BY <1>1, <1>10, Holder
<1>15. CurrentTimeout'
  BY <1>1, <1>4, <1>8, <1>10, <1>14 DEF Inv, CurrentTimeout, history
<1>16. Backed'
  <2>1. ASSUME NEW q \in ports_in_use \ {0}, NEW f \in Fds, Live(f),
               sock[f].port = q
        PROVE  Live(f)' /\ sock'[f].port = q
    BY <2>1, <1>2, <1>10
  <2>2. port # 0 => Live(fd[o])' /\ sock'[fd[o]].port = port
    BY <1>1, <1>3, <1>4, <1>6, <1>8, <1>10
  <2>3. QED
    BY <2>1, <2>2, <1>1, <1>4 DEF Inv, Backed
<1>17. Registered'
  <2>1. sock'[fd[o]].named => sock'[fd[o]].port \in ports_in_use'
    BY <1>1, <1>4, <1>6, <1>8, <1>10
  <2>2. QED
    BY <2>1, <1>4, <1>10, <1>11 DEF Inv, Registered
<1>18. PortsExclusive'
  <2>1. ASSUME NEW f \in OpenFds, NEW g \in OpenFds, Share(f, g)'
        PROVE  /\ f # g /\ sock'[f].port = sock'[g].port
               /\ sock'[f].named /\ sock'[g].named
               /\ f \in Fds /\ g \in Fds /\ Live(f) /\ Live(g)
    BY <2>1, <1>4 DEF Share, Live, OpenFds
  <2>2. ASSUME NEW h \in Fds, h # fd[o], Live(h), sock'[h].named, s.named
        PROVE  sock'[h].port # s.port \/ sock'[h].port \in unregistered
    <3>1. sock[h].named /\ sock'[h] = sock[h]
      BY <2>2, <1>10
    <3>2. sock[h].port \in ports_in_use \cup unregistered
      BY <2>2, <3>1 DEF Inv, Registered
    <3>3. QED
      BY <2>2, <3>1, <3>2, <1>4, <1>6, <1>8
  <2>3. ASSUME NEW f \in OpenFds, NEW g \in OpenFds, Share(f, g)',
               f # fd[o], g # fd[o]
        PROVE  sock'[f].port \in unregistered
    BY <2>3, <1>4, <1>10 DEF Share, OpenFds, Inv, PortsExclusive
  <2>4. ASSUME NEW f \in OpenFds, NEW g \in OpenFds, Share(f, g)'
        PROVE  sock'[f].port \in unregistered
    BY <2>1, <2>2, <2>3, <2>4, <1>1, <1>10
  <2>5. QED
    BY <2>4, <1>10, <1>11 DEF PortsExclusive
<1>19. QED
  BY <1>12, <1>13, <1>15, <1>16, <1>17, <1>18 DEF Inv

-----------------------------------------------------------------------------
(* What a call of create that fails does: the object has no descriptor     *)
(* any more, and the socket it had is lost.                                *)
Loses(o) ==
  /\ closing[o] = None
  /\ \A p \in Objs : fd'[p] = IF p = o THEN None ELSE fd[p]
  /\ sock' = sock /\ unregistered' = unregistered
  /\ lost' = (lost \cup {fd[o]}) \ {None}
  /\ astray \subseteq astray' \cup {o}
  /\ timeout' = timeout /\ closing' = closing /\ ports_in_use' = ports_in_use

(* That socket stays open, and live.                                       *)
LEMMA LosesKeeps ==
  ASSUME Inv, NEW o \in Objs, Loses(o), TypeOK'
  PROVE  Inv'
<1> USE NoneAssumption DEF Loses
<1>1. OpenFds' = OpenFds
  BY DEF OpenFds
<1>2. \A f \in Fds : Live(f)' <=> Live(f)
  BY <1>1 DEF Live
<1>3. Closing' /\ DescriptorsOwned'
  BY <1>1 DEF Inv, Held, Closing, DescriptorsOwned
<1>4. NoLeak'
  BY <1>1 DEF Inv, Held, NoLeak, OpenFds
<1>5. SocketsOK' /\ CurrentTimeout'
  BY DEF Inv, SocketsOK, CurrentTimeout
<1>6. Backed' /\ Registered'
  BY <1>2 DEF Inv, Backed, Registered
<1>7. PortsExclusive'
  <2>1. ASSUME NEW f \in OpenFds', NEW g \in OpenFds', Share(f, g)'
        PROVE  sock'[f].port \in unregistered'
    <3>1. /\ f \in OpenFds /\ g \in OpenFds /\ f \in Fds /\ g \in Fds
          /\ f # g /\ sock[f].port = sock[g].port /\ sock[f].named /\ sock[g].named
          /\ Live(f) /\ Live(g)
      BY <2>1, <1>1, <1>2 DEF Share, Live, OpenFds
    <3>2. Share(f, g)
      BY <3>1, SharedLive
    <3>3. QED
      BY <3>1, <3>2 DEF Inv, PortsExclusive
  <2>2. QED
    BY <2>1 DEF PortsExclusive
<1>8. QED
  BY <1>3, <1>4, <1>5, <1>6, <1>7 DEF Inv, Held

(* What create and accept do: an object has a descriptor that was free, of *)
(* a socket without a name; it is astray unless it has the socket's        *)
(* timeouts cached; and if it was open, the socket it had is lost.         *)
Opens(o, f, s) ==
  /\ closing[o] = None /\ f \in Fds \ OpenFds
  /\ \A p \in Objs : fd'[p] = IF p = o THEN f ELSE fd[p]
  /\ \A g \in Fds : sock'[g] = IF g = f THEN s ELSE sock[g]
  /\ s \in Sockets /\ s.state \in {"fresh", "connected"}
  /\ s.state = "fresh" => s.port = 0
  /\ ~s.named
  /\ unregistered' = IF s.port = 0 THEN unregistered ELSE unregistered \cup {s.port}
  /\ \A p \in Objs : p # o => timeout'[p] = timeout[p]
  /\ lost' = (lost \cup {fd[o]}) \ {None}
  /\ Meets(o, timeout'[o], s.timeout)
  /\ closing' = closing /\ ports_in_use' = ports_in_use

(* No other object had that descriptor, so each keeps what it has.         *)
LEMMA OpensKeeps ==
  ASSUME Inv, NEW o \in Objs, NEW f, NEW s, Opens(o, f, s), TypeOK'
  PROVE  Inv'
<1> USE NoneAssumption DEF Opens
<1>1. /\ f \in Fds /\ f # None /\ sock[f].state = "free"
      /\ \A p \in Objs : fd[p] # f
  BY DEF OpenFds, Inv, Held, DescriptorsOwned
<1>2. OpenFds' = OpenFds \cup {f}
  BY <1>1 DEF OpenFds
<1>3. \A g \in Fds : g # f => (Live(g)' <=> Live(g))
  BY <1>1, <1>2 DEF Live
<1>4. \A p \in Objs : p # o /\ fd[p] # None =>
        fd'[p] = fd[p] /\ fd[p] \in Fds /\ sock'[fd[p]] = sock[fd[p]]
  BY <1>1, Holder
<1>5. Closing' /\ DescriptorsOwned' /\ NoLeak'
  <2>1. Closing'
    BY <1>4 DEF Inv, Held, Closing
  <2>2. DescriptorsOwned'
    BY <1>1, <1>2 DEF Inv, Held, DescriptorsOwned
  <2>3. NoLeak'
    BY <1>2 DEF Inv, Held, NoLeak, OpenFds
  <2>4. QED
    BY <2>1, <2>2, <2>3
<1>6. SocketsOK'
  BY DEF Inv, SocketsOK, Sockets
<1>7. CurrentTimeout'
  <2>1. ASSUME NEW p \in Objs, p # o, p \notin astray', fd'[p] # None
        PROVE  sock'[fd'[p]].timeout = timeout'[p]
    BY <2>1, <1>4 DEF Inv, CurrentTimeout, Meets
  <2>2. o \notin astray' => sock'[fd'[o]].timeout = timeout'[o]
    BY <1>1 DEF Meets
  <2>3. QED
    BY <2>1, <2>2 DEF CurrentTimeout
<1>8. Backed'
  BY <1>1, <1>3 DEF Inv, Backed, Live, OpenFds
<1>9. Registered'
  BY <1>1, <1>3 DEF Inv, Registered
<1>10. PortsExclusive'
  <2>1. ASSUME NEW g \in OpenFds', NEW h \in OpenFds', Share(g, h)'
        PROVE  sock'[g].port \in unregistered'
    <3>1. /\ g \in OpenFds /\ h \in OpenFds /\ g \in Fds /\ h \in Fds
          /\ sock'[g] = sock[g] /\ sock'[h] = sock[h]
      BY <2>1, <1>1, <1>2 DEF Share, OpenFds
    <3>2. /\ g # h /\ sock[g].port = sock[h].port /\ sock[g].named /\ sock[h].named
          /\ Live(g) /\ Live(h)
      BY <2>1, <3>1, <1>1, <1>2, <1>3 DEF Share, Live
    <3>3. Share(g, h)
      BY <3>1, <3>2, SharedLive
    <3>4. QED
      BY <3>1, <3>3 DEF Inv, PortsExclusive
  <2>2. QED
    BY <2>1 DEF PortsExclusive
<1>11. QED
  BY <1>5, <1>6, <1>7, <1>8, <1>9, <1>10 DEF Inv, Held

(* create makes a socket, or fails.                                        *)
LEMMA CreateKeeps ==
  ASSUME Inv, NEW o \in Objs, Create(o)
  PROVE  Inv'
<1>1. closing[o] = None
  BY DEF Create, Idle
<1>2. CASE \E f \in Fds \ OpenFds :
             fd' = [fd EXCEPT ![o] = f] /\ sock' = [sock EXCEPT ![f] = Fresh]
  <2>1. PICK f \in Fds \ OpenFds :
               fd' = [fd EXCEPT ![o] = f] /\ sock' = [sock EXCEPT ![f] = Fresh]
    BY <1>2
  <2>2. PICK s : s = Fresh
    OBVIOUS
  <2>3. TypeOK'
    BY <2>1, SocketTypes DEF Create, Meets, Inv, Held, TypeOK
  <2>4. Opens(o, f, s)
    BY <1>1, <2>1, <2>2, SocketTypes DEF Create, Meets, Opens, Inv, Held, TypeOK
  <2>5. QED
    BY <2>3, <2>4, OpensKeeps
<1>3. CASE fd' = [fd EXCEPT ![o] = None] /\ UNCHANGED sock
  <2>1. TypeOK'
    BY <1>3 DEF Create, Meets, Inv, Held, TypeOK
  <2>2. Loses(o)
    BY <1>1, <1>3 DEF Create, Meets, Loses, Inv, Held, TypeOK
  <2>3. QED
    BY <2>1, <2>2, LosesKeeps
<1>4. QED
  BY <1>2, <1>3 DEF Create

(* A connection has the port of a listener, and its timeouts.              *)
LEMMA AcceptKeeps ==
  ASSUME Inv, NEW o \in Objs, NEW into \in Objs, Accept(o, into)
  PROVE  Inv'
<1>1. fd[o] \in Fds /\ sock[fd[o]] \in Sockets /\ sock[fd[o]].state = "listening"
  BY Holder DEF Accept, IsOpen
<1>2. sock[fd[o]].port # 0
  BY <1>1 DEF Inv, SocketsOK
<1>3. PICK f \in Fds \ OpenFds :
             /\ fd' = [fd EXCEPT ![into] = f]
             /\ sock' = [sock EXCEPT ![f] = Connection(sock[fd[o]])]
  BY DEF Accept
<1>4. PICK s : s = Connection(sock[fd[o]])
  OBVIOUS
<1>5. /\ s \in Sockets /\ s.state = "connected" /\ s.port = sock[fd[o]].port
      /\ ~s.named /\ s.timeout = sock[fd[o]].timeout
  BY <1>1, <1>4 DEF Connection, Socket, Sockets
<1>6. sock[fd[o]].port \in Ports \cup Ephemeral
  BY <1>1, <1>2 DEF Sockets
<1>7. TypeOK'
  BY <1>3, <1>4, <1>5, <1>6, SocketTypes DEF Accept, Meets, Inv, Held, TypeOK
<1>8. closing[into] = None
  BY DEF Accept, Inv, Held, Closing
<1>9. /\ \A p \in Objs : fd'[p] = IF p = into THEN f ELSE fd[p]
      /\ \A g \in Fds : sock'[g] = IF g = f THEN s ELSE sock[g]
      /\ \A p \in Objs : timeout'[p] = IF p = into THEN NoTimeout ELSE timeout[p]
  BY <1>3, <1>4 DEF Accept, Inv, Held, TypeOK
<1>10. lost' = (lost \cup {fd[into]}) \ {None}
  BY NoneAssumption DEF Accept, Inv, Held, TypeOK
<1>11. Opens(into, f, s)
  BY <1>2, <1>5, <1>8, <1>9, <1>10 DEF Accept, Meets, Opens
<1>12. QED
  BY <1>7, <1>11, OpensKeeps

-----------------------------------------------------------------------------
(* While an object is inside close() its port is not in use: if another    *)
(* socket was bound to the port, so was a socket nobody bound to it.       *)
LEMMA StartCloseKeeps ==
  ASSUME Inv, NEW o \in Objs, NEW from \in Objs, StartClose(o, from)
  PROVE  Inv'
<1> USE NoneAssumption
<1>1. /\ fd[o] # None /\ fd[o] \in Fds /\ fd[o] \in OpenFds
      /\ \A p \in Objs : fd[p] = fd[o] => p = o
  BY Holder DEF StartClose, IsOpen
<1>2. /\ ports_in_use' = ports_in_use \ {sock[fd[o]].port}
      /\ fd' = fd /\ timeout' = timeout
      /\ sock' = sock /\ unregistered' = unregistered /\ UNCHANGED history
  BY DEF StartClose, kernel
<1>3. closing[o] = None
  BY DEF StartClose, IsOpen, Idle
<1>4. \A p \in Objs : closing'[p] = IF p = o THEN from ELSE closing[p]
  BY DEF StartClose, Inv, Held, TypeOK
<1>5. OpenFds' = OpenFds
  BY <1>2 DEF OpenFds
<1>6. \A f \in Fds : Live(f)' <=> Live(f) /\ f # fd[o]
  <2>1. from # None
    BY DEF StartClose, Inv, Held, TypeOK
  <2>2. QED
    BY <2>1, <1>1, <1>2, <1>4, <1>5 DEF Live
<1>7. Held'
  <2>1. TypeOK'
    BY <1>2 DEF StartClose, Inv, Held, TypeOK, history
  <2>2. Closing'
    BY <1>1, <1>2, <1>4 DEF StartClose, IsOpen, Idle, Inv, Held, Closing
  <2>3. QED
    BY <2>1, <2>2, <1>2, <1>5 DEF Inv, Held, DescriptorsOwned, NoLeak, history
<1>8. SocketsOK' /\ CurrentTimeout'
  BY <1>2 DEF Inv, SocketsOK, CurrentTimeout, history
<1>9. Backed'
  BY <1>2, <1>6 DEF Inv, Backed
<1>10. Registered'
  <2>1. ASSUME NEW f \in Fds, f # fd[o], Live(f), sock[f].named,
               sock[f].port = sock[fd[o]].port
        PROVE  sock[f].port \in unregistered
    <3>1. f \in OpenFds /\ Live(fd[o])
      BY <2>1, <1>1, <1>3, Holder DEF Live
    <3>2. CASE sock[fd[o]].named
      BY <2>1, <3>1, <3>2, <1>1, SharedLive DEF Inv, PortsExclusive
    <3>3. CASE ~sock[fd[o]].named
      BY <2>1, <3>3, <1>1 DEF Inv, SocketsOK
    <3>4. QED
      BY <3>2, <3>3
  <2>2. QED
    BY <2>1, <1>2, <1>6 DEF Inv, Registered
<1>11. PortsExclusive'
  <2>1. \A p \in Objs : closing'[p] = None => closing[p] = None
    BY <1>3, <1>4
  <2>2. QED
    BY <2>1, <1>2, <1>5 DEF Inv, PortsExclusive, Share
<1>12. QED
  BY <1>7, <1>8, <1>9, <1>10, <1>11 DEF Inv

-----------------------------------------------------------------------------
(* What assigning to an object and closing it do: a descriptor it had is   *)
(* free, and it has what the other object had.                             *)
Takes(o, from) ==
  /\ fd[o] # None => closing[o] # None
  /\ \A p \in Objs : p # o /\ Owner[p] = Owner[o] => closing[p] = None
  /\ Owner[from] = Owner[o]
  /\ \A p \in Objs : fd'[p] = IF p = from THEN None
                              ELSE IF p = o THEN fd[from] ELSE fd[p]
  /\ \A p \in Objs : timeout'[p] = IF p = from THEN NoTimeout
                                   ELSE IF p = o THEN timeout[from] ELSE timeout[p]
  /\ \A p \in Objs : closing'[p] = IF p = o THEN None ELSE closing[p]
  /\ \A f \in Fds : sock'[f] = IF f = fd[o] THEN Gone ELSE sock[f]
  /\ ports_in_use' = ports_in_use /\ unregistered' = unregistered
  /\ lost' = lost
  /\ astray' = {p \in Objs \ {from} : (IF p = o THEN from ELSE p) \in astray}

(* Each descriptor but the one that is freed is held by one object before  *)
(* the step, and by one after it.                                          *)
LEMMA TakesKeeps ==
  ASSUME Inv, NEW o \in Objs, NEW from \in Objs, Takes(o, from), TypeOK'
  PROVE  Inv'
<1> DEFINE Source(p) == IF p = o THEN from ELSE p
           Heir(p)   == IF p = from THEN o ELSE p
<1> USE NoneAssumption
<1>1. ASSUME NEW p \in Objs, fd'[p] # None
      PROVE  /\ Source(p) \in Objs /\ Source(p) # o /\ Heir(Source(p)) = p
             /\ fd'[p] = fd[Source(p)] /\ timeout'[p] = timeout[Source(p)]
             /\ closing'[p] = closing[Source(p)]
             /\ Source(p) \in astray => p \in astray'
  BY <1>1 DEF Takes
<1>2. ASSUME NEW q \in Objs, q # o, fd[q] # None
      PROVE  /\ Heir(q) \in Objs /\ Source(Heir(q)) = q
             /\ fd'[Heir(q)] = fd[q] /\ closing'[Heir(q)] = closing[q]
             /\ fd[q] \in Fds /\ fd[q] # fd[o] /\ sock'[fd[q]] = sock[fd[q]]
  BY <1>2, Holder DEF Takes
<1> HIDE DEF Source, Heir
<1>3. \A f \in Fds : f \in OpenFds' <=> f \in OpenFds /\ f # fd[o]
  BY SocketTypes DEF OpenFds, Takes
<1>4. \A p \in Objs : fd'[p] # None =>
        /\ fd'[p] \in Fds /\ fd'[p] \in OpenFds /\ fd'[p] # fd[o]
        /\ sock'[fd'[p]] = sock[fd'[p]]
  BY <1>1, <1>2, Holder
<1>5. Closing'
  <2>1. ASSUME NEW p \in Objs, closing'[p] # None
        PROVE  p # o /\ closing[p] # None /\ p # from /\ closing'[p] = closing[p]
               /\ fd'[p] = fd[p]
    BY <2>1 DEF Takes
  <2>2. QED
    BY <2>1 DEF Inv, Held, Closing
<1>6. DescriptorsOwned'
  <2>1. ASSUME NEW p \in Objs, NEW q \in Objs, fd'[p] # None, fd'[q] = fd'[p]
        PROVE  q = p
    <3>1. fd[Source(p)] = fd[Source(q)] /\ Source(p) \in Objs /\ Source(q) \in Objs
          /\ fd[Source(p)] # None
      BY <1>1, <2>1
    <3>2. Source(p) = Source(q)
      BY <3>1, Holder
    <3>3. QED
      BY <3>2, <1>1, <2>1
  <2>2. QED
    BY <2>1, <1>3, <1>4 DEF DescriptorsOwned
<1>7. NoLeak'
  <2>1. ASSUME NEW f \in OpenFds' \ lost'
        PROVE  \E p \in Objs : fd'[p] = f
    <3>0. f \notin lost
      BY DEF Takes
    <3>1. f \in Fds /\ f \in OpenFds /\ f # fd[o] /\ f # None
      BY <1>3 DEF OpenFds
    <3>2. PICK q \in Objs : fd[q] = f
      BY <3>0, <3>1 DEF Inv, Held, NoLeak
    <3>3. QED
      BY <3>1, <3>2, <1>2
  <2>2. QED
    BY <2>1 DEF NoLeak
<1>8. SocketsOK'
  BY SocketTypes DEF Takes, Inv, SocketsOK
<1>9. CurrentTimeout'
  BY <1>1, <1>4 DEF Inv, CurrentTimeout
<1>live. \A f \in Fds : f # fd[o] => (Live(f)' <=> Live(f))
  <2>1. ASSUME NEW f \in Fds, f # fd[o], Live(f) PROVE Live(f)'
    BY <2>1, <1>1, <1>3 DEF Live
  <2>2. ASSUME NEW f \in Fds, f # fd[o], Live(f)' PROVE Live(f)
    BY <2>2, <1>2, <1>3 DEF Live
  <2>3. QED
    BY <2>1, <2>2
<1>freed. \A f \in Fds : f = fd[o] => ~Live(f) /\ ~Live(f)'
  BY <1>3 DEF Takes, Live
<1>10. Backed'
  BY <1>live, <1>freed DEF Takes, Inv, Backed
<1>11. Registered'
  BY <1>live, <1>freed DEF Takes, Inv, Registered
<1>12. PortsExclusive'
  <2>1. ASSUME NEW f \in OpenFds', NEW g \in OpenFds', Share(f, g)'
        PROVE  sock'[f].port \in unregistered'
    <3>1. \A h \in {f, g} : /\ h \in Fds /\ h \in OpenFds /\ h # fd[o]
                            /\ sock'[h] = sock[h] /\ h # None
      BY <1>3 DEF OpenFds, Takes
    <3>2. \A q \in Objs : fd[q] \in {f, g} => closing[q] = None
      BY <2>1, <3>1, <1>2 DEF Share
    <3>3. Share(f, g)
      BY <2>1, <3>1, <3>2 DEF Share
    <3>4. QED
      BY <3>1, <3>3 DEF Takes, Inv, PortsExclusive
  <2>2. QED
    BY <2>1 DEF PortsExclusive
<1>13. QED
  BY <1>5, <1>6, <1>7, <1>8, <1>9, <1>10, <1>11, <1>12 DEF Inv, Held

(* Closing an object for good, or for what it is assigned.                 *)
LEMMA FinishCloseKeeps ==
  ASSUME Inv, NEW o \in Objs, FinishClose(o)
  PROVE  Inv'
<1>1. closing[o] \in Objs
  BY DEF FinishClose, Inv, Held, TypeOK
<1>2. TypeOK'
  BY <1>1, SocketTypes DEF FinishClose, Moved, Inv, Held, TypeOK
<1>3. Takes(o, closing[o])
  BY <1>1 DEF Takes, FinishClose, Moved, Inv, Held, TypeOK, Closing
<1>4. QED
  BY <1>1, <1>2, <1>3, TakesKeeps

(* Moving to a closed object frees nothing.                                *)
LEMMA MoveKeeps ==
  ASSUME Inv, NEW o \in Objs, NEW from \in Objs, Move(o, from)
  PROVE  Inv'
<1>1. TypeOK'
  BY SocketTypes DEF Move, Moved, kernel, Inv, Held, TypeOK
<1>2. Takes(o, from)
  BY NoneAssumption DEF Takes, Move, Moved, Idle, kernel, Inv, Held, TypeOK
<1>3. QED
  BY <1>1, <1>2, TakesKeeps

-----------------------------------------------------------------------------
(* Every step keeps the invariant.                                         *)
LEMMA NextKeeps == Inv /\ [Next]_vars => Inv'
<1> SUFFICES ASSUME Inv, [Next]_vars PROVE Inv'
  OBVIOUS
<1>1. CASE UNCHANGED vars
  BY <1>1 DEF vars, objects, kernel, history, Inv, Held, TypeOK, Closing,
              DescriptorsOwned, NoLeak, OpenFds, SocketsOK, CurrentTimeout, Backed,
              Registered, Live, PortsExclusive, Share
<1>2. ASSUME NEW o \in Objs, Create(o) PROVE Inv'
  BY <1>2, CreateKeeps
<1>3. ASSUME NEW o \in Objs, FinishClose(o) PROVE Inv'
  BY <1>3, FinishCloseKeeps
<1>4. ASSUME NEW o \in Objs, Listen(o) PROVE Inv'
  BY <1>4, BecomesKeeps DEF Listen
<1>5. ASSUME NEW o \in Objs, Connect(o) PROVE Inv'
  BY <1>5, BecomesKeeps DEF Connect
<1>6. ASSUME NEW o \in Objs, NEW p \in Objs, StartClose(o, p) PROVE Inv'
  BY <1>6, StartCloseKeeps
<1>7. ASSUME NEW o \in Objs, NEW p \in Objs, Move(o, p) PROVE Inv'
  BY <1>7, MoveKeeps
<1>8. ASSUME NEW o \in Objs, NEW p \in Objs, Accept(o, p) PROVE Inv'
  BY <1>8, AcceptKeeps
<1>9. ASSUME NEW o \in Objs, NEW port \in Ports \cup {0}, Bind(o, port) PROVE Inv'
  BY <1>9, BindKeeps
<1>10. ASSUME NEW o \in Objs, NEW option \in Options, NEW ms \in Timeouts,
              SetTimeout(o, option, ms)
       PROVE  Inv'
  BY <1>10, SetTimeoutKeeps
<1>11. QED
  BY <1>1, <1>2, <1>3, <1>4, <1>5, <1>6, <1>7, <1>8, <1>9, <1>10 DEF Next

(* Whatever the threads do with their sockets, the invariant holds.        *)
THEOREM Invariant == Spec => []Inv
  BY InitInv, NextKeeps, PTL DEF Spec

(* The values have their types: each object has a descriptor or none, the  *)
(* registry holds ports that bind was called with, and each socket has a   *)
(* port and timeouts that it was given.                                    *)
THEOREM SocketsTyped == Spec => []TypeOK
<1>1. Inv => TypeOK
  BY DEF Inv, Held
<1>2. QED
  BY <1>1, Invariant, PTL

(* No object closes or uses the descriptor of another, however TCPSocket   *)
(* objects are moved, assigned, closed and created anew.                   *)
THEOREM SocketsOwned == Spec => []DescriptorsOwned
<1>1. Inv => DescriptorsOwned
  BY DEF Inv, Held
<1>2. QED
  BY <1>1, Invariant, PTL

(* No descriptor is lost but by a create on an open object: every other    *)
(* open socket is that of some object.                                     *)
THEOREM NoneLeaked == Spec => []NoLeak
<1>1. Inv => NoLeak
  BY DEF Inv, Held
<1>2. QED
  BY <1>1, Invariant, PTL

(* setTimeout skips only what would change nothing: the fields of          *)
(* TCPSocket.h are the timeouts of the socket, in milliseconds, of every   *)
(* object that did not meet its socket with others.                        *)
THEOREM TimeoutsCurrent == Spec => []CurrentTimeout
<1>1. Inv => CurrentTimeout
  BY DEF Inv
<1>2. QED
  BY <1>1, Invariant, PTL

(* bind refuses no port that is free: close takes each one out of the      *)
(* registry before another socket can be bound to it.                      *)
THEOREM RegistryBacked == Spec => []NoGhostPort
<1>1. Inv => NoGhostPort
  BY DEF Inv, Backed, Live, NoGhostPort
<1>2. QED
  BY <1>1, Invariant, PTL

(* Two sockets that were bound to a port by name share it only if a        *)
(* connection, or a port the kernel chose, brought the registry about it.  *)
THEOREM PortsShared == Spec => []PortsExclusive
<1>1. Inv => PortsExclusive
  BY DEF Inv
<1>2. QED
  BY <1>1, Invariant, PTL
=============================================================================
