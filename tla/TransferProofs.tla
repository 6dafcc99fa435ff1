--------------------------- MODULE TransferProofs ---------------------------
(***************************************************************************)
(* Theorems about Transfer, for messages of any length, buffers of any     *)
(* size and any number of signals.                                         *)
(***************************************************************************)
EXTENDS Transfer, TLAPS

-----------------------------------------------------------------------------
(* The inductive invariant.                                                *)

(* The kernel has what the calls of ::send took, and no more.              *)
Counted == Len(handed) = sent + copied

(* send has returned when the worker comes to its close, and said whether  *)
(* all was sent; before its first call nothing is.                         *)
Returned ==
  /\ pc = "parse" => sent = 0 /\ copied = 0
  /\ pc \in {"close", "done"} => copied = 0 /\ (returned = "true" <=> sent = length)
                                      /\ returned # "none"
  /\ pc \notin {"close", "done"} => returned = "none"

(* The stream ends when the worker has closed it, and a peer that has read *)
(* its end has read all that was handed on.                                *)
Ended ==
  /\ ending = "fin" => pc = "done"
  /\ peer = "eof" => pc = "done" /\ got = Len(handed)

(* Only a peer that has gone leaves an error at the socket.                *)
Reported == error # "none" => peer = "gone"

(* A second call of ::send, after one that took a part: the message is to  *)
(* be sent in full, and a signal or the peer has cut the first one short.  *)
Resumed == pc = "copy" /\ sent > 0 => full_msg /\ (signals > 0 \/ peer = "gone")

Inv == /\ TypeOK /\ Counted /\ InOrderOnce /\ Returned /\ Ended /\ Reported
       /\ Resumed /\ FailureExplained

-----------------------------------------------------------------------------
LEMMA InitInv == Init => Inv
<1> SUFFICES ASSUME Init PROVE Inv
  OBVIOUS
<1> USE LengthsAssumption, BoundsAssumption DEF Init
<1>1. returned # "false"
  OBVIOUS
<1>2. length \in Nat /\ handed \in Seq(Nat) /\ Len(handed) = 0
  OBVIOUS
<1>3. TypeOK
  BY <1>2 DEF TypeOK, Places
<1>4. Counted /\ InOrderOnce /\ Returned /\ Ended /\ Reported /\ Resumed
  BY <1>2 DEF Counted, InOrderOnce, Returned, Ended, Reported, Resumed
<1>5. FailureExplained
  BY <1>1 DEF FailureExplained
<1>6. QED
  BY <1>3, <1>4, <1>5 DEF Inv

(* One byte more at the end of a sequence of the first numbers.            *)
LEMMA NextInOrder ==
  ASSUME NEW s \in Seq(Nat), \A i \in DOMAIN s : s[i] = i
  PROVE  LET t == Append(s, Len(s) + 1)
         IN t \in Seq(Nat) /\ Len(t) = Len(s) + 1 /\ \A i \in DOMAIN t : t[i] = i
  OBVIOUS

LEMMA NextInv == Inv /\ [Next]_vars => Inv'
<1> SUFFICES ASSUME Inv, [Next]_vars PROVE Inv'
  OBVIOUS
<1> USE LengthsAssumption, BoundsAssumption
<1>1. CASE Hear
  BY <1>1 DEF Hear, Inv, TypeOK, Counted, InOrderOnce, Returned, Ended,
     Reported, Resumed, FailureExplained, Places, value, wire
<1>2. CASE HearNothing
  BY <1>2 DEF HearNothing, Inv, TypeOK, Counted, InOrderOnce, Returned, Ended,
     Reported, Resumed, FailureExplained, Places, value, wire
<1>3. CASE Copy
  <2>1. handed' = Append(handed, Len(handed) + 1)
    BY <1>3 DEF Copy, Inv, Counted, TypeOK
  <2>2. handed' \in Seq(Nat) /\ Len(handed') = Len(handed) + 1 /\ InOrderOnce'
    BY <2>1, NextInOrder DEF Inv, TypeOK, InOrderOnce
  <2>3. QED
    BY <1>3, <2>2 DEF Copy, Inv, TypeOK, Counted, Returned, Ended, Reported,
       Resumed, FailureExplained, Places, value
<1>4. CASE CopiedAll
  <2>1. /\ sent' = length /\ copied' = 0 /\ sent' = sent + copied
        /\ pc' = "close" /\ returned' = "true"
    BY <1>4 DEF CopiedAll, Sent, Return, Inv, TypeOK
  <2>2. QED
    BY <1>4, <2>1 DEF CopiedAll, Inv, TypeOK, Counted, InOrderOnce, Returned,
       Ended, Reported, Resumed, FailureExplained, Places, value, wire
<1>5. CASE Interrupt
  <2>1. Len(handed) > 0
    BY <1>5 DEF Interrupt, Blocked, Room, Inv, TypeOK
  <2>2. CASE copied > 0
    BY <1>5, <2>2 DEF Interrupt, Blocked, Sent, Return, Inv, TypeOK, Counted,
       InOrderOnce, Returned, Ended, Reported, Resumed, FailureExplained, Places,
       value, wire
  <2>3. CASE copied = 0
    BY <1>5, <2>1, <2>3 DEF Interrupt, Blocked, SendFails, Return, Inv, TypeOK,
       Counted, InOrderOnce, Returned, Ended, Reported, Resumed,
       FailureExplained, Places, value, wire
  <2>4. QED
    BY <2>2, <2>3 DEF Inv, TypeOK
<1>6. CASE Broken
  <2>1. peer = "gone" /\ peer' = "gone"
    BY <1>6 DEF Broken, Inv, Reported
  <2>2. CASE copied > 0
    BY <1>6, <2>1, <2>2 DEF Broken, Sent, Return, Inv, TypeOK, Counted,
       InOrderOnce, Returned, Ended, Reported, Resumed, FailureExplained, Places,
       value, wire
  <2>3. CASE copied = 0
    BY <1>6, <2>1, <2>3 DEF Broken, SendFails, Return, Inv, TypeOK, Counted,
       InOrderOnce, Returned, Ended, Reported, Resumed, FailureExplained, Places,
       value, wire
  <2>4. QED
    BY <2>2, <2>3 DEF Inv, TypeOK
<1>7. CASE Close
  BY <1>7 DEF Close, Inv, TypeOK, Counted, InOrderOnce, Returned, Ended,
     Reported, Resumed, FailureExplained, Places, value
<1>8. CASE Ask \/ Take \/ SeeEnd
  <2>1. CASE Ask
    BY <2>1 DEF Ask, Inv, TypeOK, Counted, InOrderOnce, Returned, Ended,
       Reported, Resumed, FailureExplained, Places, Over, value
  <2>2. CASE Take
    BY <2>2 DEF Take, Inv, TypeOK, Counted, InOrderOnce, Returned, Ended,
       Reported, Resumed, FailureExplained, Places, value
  <2>3. CASE SeeEnd
    BY <2>3 DEF SeeEnd, Inv, TypeOK, Counted, InOrderOnce, Returned, Ended,
       Reported, Resumed, FailureExplained, Places, value, wire
  <2>4. QED
    BY <1>8, <2>1, <2>2, <2>3
<1>9. CASE Leave \/ Bounce
  BY <1>9 DEF Leave, Bounce, Inv, TypeOK, Counted, InOrderOnce, Returned, Ended,
     Reported, Resumed, FailureExplained, Places, Over, value, wire
<1>10. CASE UNCHANGED vars
  BY <1>10 DEF vars, value, wire, Inv, TypeOK, Counted, InOrderOnce, Returned,
     Ended, Reported, Resumed, FailureExplained
<1>11. QED
  BY <1>1, <1>2, <1>3, <1>4, <1>5, <1>6, <1>7, <1>8, <1>9, <1>10 DEF Next, Work

LEMMA InvHolds == Spec => []Inv
  BY InitInv, NextInv, PTL DEF Spec

-----------------------------------------------------------------------------
(* The fields have their types: in particular no call of ::send is given   *)
(* bytes past the end of the message.                                      *)
THEOREM TransferTyped == Spec => []TypeOK
  BY InvHolds, PTL DEF Inv

(* The bytes of a message are handed on in order, each once.               *)
THEOREM BytesInOrder == Spec => []InOrderOnce
  BY InvHolds, PTL DEF Inv

(* Whoever reads a stream to its end can rely on what send returned.       *)
THEOREM ResultTrue == Spec => []TrueMeansWhole
<1>1. Inv => TrueMeansWhole
  BY DEF Inv, TypeOK, Counted, Returned, Ended, TrueMeansWhole
<1>2. QED
  BY <1>1, InvHolds, PTL

(* One signal alone does not cost a message, nor does a slow reader.       *)
THEOREM FailuresExplained == Spec => []FailureExplained
  BY InvHolds, PTL DEF Inv
=============================================================================
