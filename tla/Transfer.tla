------------------------------ MODULE Transfer ------------------------------
(***************************************************************************)
(* What becomes of a message that TCPSocket::send (TCPSocket.cpp) is given *)
(* and of the connection it is sent on: the reply of HTTPWorker::run, sent *)
(* after the request was read, or the click that v0reportSearchResults     *)
(* passes on (HTTPServer.cpp).  Either way the socket is closed next, with *)
(* whatever its peer has sent in the meantime unread.  The bytes of the    *)
(* message are numbered.  Of TCP there is what a program can tell of it on *)
(* Linux: a bounded amount on its way, FIN, RST and the error a reset      *)
(* leaves at the socket.                                                   *)
(***************************************************************************)
EXTENDS Naturals, Sequences

CONSTANTS
  Lengths,     (* of the messages there are                                *)
  Capacity,    (* bytes the two kernels hold for the peer                  *)
  Window,      (* pieces they hold for the worker                          *)
  MaxSignals   (* bound: SIGINTs that find the worker blocked in send      *)

ASSUME LengthsAssumption == Lengths \subseteq Nat \ {0}
ASSUME BoundsAssumption  == /\ Capacity \in Nat \ {0}
                            /\ Window \in Nat /\ MaxSignals \in Nat

VARIABLES
  pc,        (* parse (in a recv), copy (in ::send), close, done, killed   *)
  length,    (* val.length()                                               *)
  full_msg,  (* send goes on until all is sent                             *)
  sent,      (* sent by the calls of ::send that have returned             *)
  copied,    (* taken so far by the one under way                          *)
  returned,  (* by TCPSocket::send: none (as yet), true or false           *)
  handed,    (* the bytes the kernel was given, in order                   *)
  got,       (* how many of them the peer has read                         *)
  unread,    (* pieces from the peer that the worker has not read          *)
  peer,      (* there, gone, or what ended its reading: eof or rst         *)
  error,     (* at the worker's socket: none, reset (ECONNRESET, not yet   *)
             (* reported), pipe (EPIPE)                                    *)
  ending,    (* what the worker's kernel tells the peer: open, fin, rst    *)
  signals    (* number of SIGINTs                                          *)

value == <<length, full_msg>>
wire  == <<handed, got, ending>>
vars  == <<pc, value, sent, copied, returned, wire, unread, peer, error, signals>>

Places  == {"parse", "copy", "close", "done", "killed"}
Over    == {"done", "killed"}

Init ==
  /\ pc \in {"parse", "copy"}         (* a reply; a click passed on *)
  /\ length \in Lengths /\ full_msg \in BOOLEAN
  /\ sent = 0 /\ copied = 0 /\ returned = "none"
  /\ handed = <<>> /\ got = 0
  /\ unread = 0
  /\ peer = "there" /\ error = "none" /\ ending = "open"
  /\ signals = 0

-----------------------------------------------------------------------------
(* The worker reads the request.                                           *)

(* A recv that yields something leaves the parser wanting more, or makes   *)
(* it give up on the first line.                                           *)
Hear == /\ pc = "parse" /\ unread > 0
        /\ unread' \in 0..(unread - 1)
        /\ pc' \in {"parse", "copy"}
        /\ UNCHANGED <<value, sent, copied, returned, wire, peer, error, signals>>

(* Mutant: there is no receive timeout.                                    *)
HearNoTimeout ==
  /\ pc = "parse" /\ unread = 0
  /\ peer = "gone" \/ error # "none"
  /\ pc' = "copy"
  /\ error' = IF error = "reset" THEN "pipe" ELSE error
  /\ UNCHANGED <<value, sent, copied, returned, wire, unread, peer, signals>>

(* A recv that yields nothing, after 10 ms at most, is the last.  It also  *)
(* fetches the error of a reset; sends then fail with EPIPE.               *)
HearNothing ==
  /\ pc = "parse" /\ unread = 0
  /\ pc' = "copy"
  /\ error' = IF error = "reset" THEN "pipe" ELSE error
  /\ UNCHANGED <<value, sent, copied, returned, wire, unread, peer, signals>>

-----------------------------------------------------------------------------
(* TCPSocket::send.                                                        *)

Return(total) == pc' = "close" /\ returned' = IF total = length THEN "true" ELSE "false"

(* Mutant: send does not look at how much ::send took.                     *)
SentOnce(n) == sent' = sent + n /\ copied' = 0 /\ Return(length)

(* ::send returned n; the loop calls it again, or ends.                    *)
Sent(n) ==
  /\ sent' = sent + n /\ copied' = 0
  /\ IF sent + n < length /\ full_msg THEN UNCHANGED <<pc, returned>>
                                      ELSE Return(sent + n)

(* ::send returned -1.                                                     *)
SendFails == Return(sent) /\ UNCHANGED <<sent, copied>>

(* Within ::send: the kernel takes another byte while it has room, ...     *)
Room == Len(handed) - got < Capacity

(* Mutants: every call of ::send is given the beginning of the message; it *)
(* is given the length of all of it.                                       *)
CopyWith(byte, more) ==
  /\ pc = "copy" /\ error = "none" /\ Room /\ more
  /\ handed' = Append(handed, byte)
  /\ copied' = copied + 1
  /\ UNCHANGED <<pc, value, sent, returned, got, ending, unread, peer, error, signals>>

CopyFromStart == CopyWith(copied + 1, copied < length - sent)
CopyTooLong   == CopyWith(sent + copied + 1, copied < length)

Copy ==
  /\ pc = "copy" /\ error = "none" /\ Room /\ copied < length - sent
  /\ handed' = Append(handed, sent + copied + 1)
  /\ copied' = copied + 1
  /\ UNCHANGED <<pc, value, sent, returned, got, ending, unread, peer, error, signals>>

(* ... and returns when it has taken all.                                  *)
CopiedAll ==
  /\ pc = "copy" /\ copied = length - sent
  /\ Sent(copied)
  /\ UNCHANGED <<value, wire, unread, peer, error, signals>>

(* Without room the thread waits, and there is no send timeout.  SIGINT    *)
(* (no SA_RESTART) makes it return what it has taken, or -1 for nothing.   *)
Blocked == pc = "copy" /\ error = "none" /\ ~Room /\ copied < length - sent

(* Mutant: the signal makes it fail, whatever it has taken.                *)
InterruptFails ==
  /\ Blocked /\ signals < MaxSignals
  /\ signals' = signals + 1
  /\ Return(sent) /\ UNCHANGED <<sent, copied>>
  /\ UNCHANGED <<value, wire, unread, peer, error>>

Interrupt ==
  /\ Blocked /\ signals < MaxSignals
  /\ signals' = signals + 1
  /\ IF copied > 0 THEN Sent(copied) ELSE SendFails
  /\ UNCHANGED <<value, wire, unread, peer, error>>

(* After a reset ::send returns what it had taken, and otherwise the error *)
(* - or else, the error being EPIPE, SIGPIPE ends the process.             *)
Broken ==
  /\ pc = "copy" /\ error # "none" /\ copied < length - sent
  /\ \/ copied > 0 /\ Sent(copied) /\ UNCHANGED error
     \/ copied = 0 /\ error = "reset" /\ SendFails /\ error' = "pipe"
     \/ copied = 0 /\ error = "pipe" /\ pc' = "killed"
          /\ UNCHANGED <<sent, copied, returned, error>>
  /\ UNCHANGED <<value, wire, unread, peer, signals>>

(* Mutant: the socket is not closed.                                       *)
CloseNot ==
  /\ pc = "close" /\ pc' = "done"
  /\ UNCHANGED <<value, sent, copied, returned, wire, unread, peer, error, signals>>

(* ~HTTPWorker, or the end of link_analysis_sock: TCP resets a connection  *)
(* that is closed with data unread.                                        *)
Close ==
  /\ pc = "close" /\ pc' = "done"
  /\ ending' = IF unread > 0 THEN "rst" ELSE "fin"
  /\ UNCHANGED <<value, sent, copied, returned, handed, got, unread, peer, error, signals>>

-----------------------------------------------------------------------------
(* The peer: a client, or Link Analysis.                                   *)

(* It sends a piece; what comes after the close is answered with a reset.  *)
Ask ==
  /\ peer = "there" /\ unread < Window
  /\ unread' = unread + 1
  /\ ending' = IF pc \in Over THEN "rst" ELSE ending
  /\ UNCHANGED <<pc, value, sent, copied, returned, handed, got, peer, error, signals>>

(* It reads a byte, while there is one that a reset did not overtake.      *)
Take == /\ peer = "there" /\ got < Len(handed)
        /\ got' = got + 1
        /\ UNCHANGED <<pc, value, sent, copied, returned, handed, ending, unread,
                       peer, error, signals>>

(* It reads the end.  A reset may overtake bytes that it has not read.     *)
SeeEnd ==
  /\ peer = "there"
  /\ \/ ending = "fin" /\ got = Len(handed) /\ peer' = "eof"
     \/ ending = "rst" /\ peer' = "rst"
  /\ UNCHANGED <<pc, value, sent, copied, returned, wire, unread, error, signals>>

(* It closes its end, or resets the connection.                            *)
Leave ==
  /\ peer = "there" /\ peer' = "gone"
  /\ error' \in {error} \cup IF pc \in Over THEN {} ELSE {"reset"}
  /\ UNCHANGED <<pc, value, sent, copied, returned, wire, unread, signals>>

(* A byte that comes to a closed end is answered by a reset.               *)
Bounce ==
  /\ peer = "gone" /\ error = "none" /\ pc \notin Over /\ got < Len(handed)
  /\ error' = "pipe"
  /\ UNCHANGED <<pc, value, sent, copied, returned, wire, unread, peer, signals>>

-----------------------------------------------------------------------------
Work == Hear \/ HearNothing \/ Copy \/ CopiedAll \/ Broken \/ Close
Next == Work \/ Interrupt \/ Ask \/ Take \/ SeeEnd \/ Leave \/ Bounce

Spec == Init /\ [][Next]_vars

(* The thread runs on and TCP delivers a reset; the peer does as it likes. *)
FairSpec == Spec /\ WF_vars(Work) /\ WF_vars(Bounce)

-----------------------------------------------------------------------------
TypeOK ==
  /\ pc \in Places
  /\ length \in Lengths /\ full_msg \in BOOLEAN
  /\ sent \in 0..length /\ copied \in 0..(length - sent)
  /\ returned \in {"none", "true", "false"}
  /\ handed \in Seq(Nat) /\ got \in 0..Len(handed)
  /\ unread \in 0..Window
  /\ peer \in {"there", "gone", "eof", "rst"}
  /\ error \in {"none", "reset", "pipe"}
  /\ ending \in {"open", "fin", "rst"}
  /\ signals \in 0..MaxSignals

(* However many calls of ::send the message takes, and whatever cuts them  *)
(* short, its bytes are handed on in order, none twice and none left out   *)
(* (TCPSocket.cpp:122-130).                                                *)
InOrderOnce == \A i \in DOMAIN handed : handed[i] = i

(* A peer that reads to the end of the stream has the whole message if     *)
(* send returned true, and part of it if send returned false.              *)
TrueMeansWhole == peer = "eof" => (returned = "true" <=> got = length)

(* send fails, or the process dies of it, only if the peer has gone or     *)
(* signals come twice: what the call they interrupt has taken by then      *)
(* counts (TCPSocket.cpp:128), and only one that had no room from its      *)
(* beginning fails.  A slow reader alone never costs a message.            *)
FailureExplained ==
  returned = "false" \/ pc = "killed" =>
    \/ peer = "gone"
    \/ signals > 1
    \/ signals = 1 /\ ~full_msg

(* The worker is done with the connection in the end, unless its peer goes *)
(* on sending with pauses of less than 10 ms, or leaves a long reply       *)
(* unread, for there is a receive timeout but no send timeout.             *)
HeldUpOnlyByPeer ==
  \/ <>(pc \in Over)
  \/ []<>(pc = "parse" /\ unread > 0)
  \/ <>[](Blocked /\ peer = "there")

(* A peer that reads on gets to the end, of the stream or the connection,  *)
(* or keeps the parser busy.                                               *)
ReaderIsServed ==
  WF_vars(Take) /\ WF_vars(SeeEnd)
    => \/ <>(peer # "there")
       \/ []<>(pc = "parse" /\ unread > 0)
=============================================================================
