---------------------------- MODULE SocketStream ----------------------------
(***************************************************************************)
(* SocketStream (TCPSocket.h, TCPSocket.cpp): words and lines read from a  *)
(* socket through a buffer.  Characters are model strings; positions count *)
(* from 0, as m_pos does.  A reading call is a function of the buffer, but *)
(* when it reaches the end of it, it calls recv for more - until one recv  *)
(* has yielded nothing, after which it never does again.  A call goes on   *)
(* when nothing it needs is missing; what is missing comes by Recv.        *)
(***************************************************************************)
EXTENDS Integers, SequencesExt

CONSTANTS Texts,     (* what the peer may be about to send                  *)
          MaxRecv    (* most characters one recv returns: buf.size() - 1,   *)
                     (* that is RECV_BUFFER_SIZE - 1                        *)

ASSUME TextsAssumption   == Texts \subseteq Seq(STRING)
ASSUME MaxRecvAssumption == MaxRecv \in Nat \ {0}

VARIABLES text,      (* what the peer is sending                            *)
          buffer,    (* m_buffer                                            *)
          pos,       (* m_pos                                               *)
          timed_out  (* m_timed_out                                         *)

stream == <<text, buffer, pos, timed_out>>

StreamInit == /\ text \in Texts
              /\ buffer = <<>> /\ pos = 0 /\ timed_out = FALSE

Space == {"SP", "CR", "NL"}
isspace(c) == c \in Space

-----------------------------------------------------------------------------
(* The first of some positions in the buffer from i on, or else its end; a *)
(* position past the end is where it was.                                  *)
Find(i, places) ==
  Min({j \in places : j >= i} \cup {IF i > Len(buffer) THEN i ELSE Len(buffer)})

Places   == 0..(Len(buffer) - 1)
Spaces   == {j \in Places : isspace(buffer[j + 1])}
NewLines == {j \in Places : buffer[j + 1] = "NL"}

SkipSpace(i) == Find(i, Places \ Spaces)
WordEnd(i)   == Find(SkipSpace(i), Spaces)
LineEnd(i)   == Find(i, NewLines)

(* m_buffer.substr(from, to - from).                                       *)
Between(from, to) == SubSeq(buffer, from + 1, to)

(* HTTP uses CRLF.  The code takes back() of the line without a test: of   *)
(* an empty one that is undefined, and the byte that libstdc++ finds there *)
(* in the build, the last of the string's length, is no CR.                *)
StripCR(line) == IF line # <<>> /\ Last(line) = "CR" THEN Front(line) ELSE line

hasNext   == SkipSpace(pos) < Len(buffer)
nextWord  == Between(SkipSpace(pos), WordEnd(pos))
nextLine  == StripCR(Between(pos, LineEnd(pos)))
remaining == Between(pos, Len(buffer))

-----------------------------------------------------------------------------
(* Mutant: m_timed_out is not looked at.                                   *)
StarvedAgain(place) == place = Len(buffer)

(* grab_if_needed: a call that has come to the given position receives.    *)
Starved(place) == place = Len(buffer) /\ ~timed_out

(* Mutant: a recv replaces what was read before.                           *)
ReceivedAlone(chunk) == /\ buffer' = chunk
                        /\ timed_out' = (timed_out \/ chunk = <<>>)
                        /\ UNCHANGED <<text, pos>>

Received(chunk) == /\ buffer' = buffer \o chunk
                   /\ timed_out' = (timed_out \/ chunk = <<>>)
                   /\ UNCHANGED <<text, pos>>

(* recv yields some of what the peer sends, cut anywhere, ...              *)
RecvData == \E n \in 1..MaxRecv :
              /\ Len(buffer) + n <= Len(text)
              /\ Received(SubSeq(text, Len(buffer) + 1, Len(buffer) + n))

(* ... or nothing: the peer paused for the timeout, closed or reset the    *)
(* connection, or a signal interrupted the call.                           *)
RecvNothing == Received(<<>>)
=============================================================================
