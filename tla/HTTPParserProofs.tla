-------------------------- MODULE HTTPParserProofs --------------------------
(***************************************************************************)
(* Proofs about HTTPParser, for any texts, cut into pieces in any way: the *)
(* parsers never take a substring from beyond the end of what they have.   *)
(* Then lemmas about texts: the places in them that MessageParser's        *)
(* meaning is made of, and what the calls on a stream find, which is the   *)
(* same in every text that its buffer may yet become.                      *)
(***************************************************************************)
EXTENDS HTTPParser, WellFoundedInduction, TLAPS

-----------------------------------------------------------------------------
(* Natural numbers, of which there are some, have a least one.             *)
LEMMA MinOfNaturals ==
  ASSUME NEW S, S \subseteq Nat, S # {}
  PROVE  Min(S) \in S /\ \A y \in S : Min(S) <= y
<1> DEFINE Less == OpToRel(<, Nat)
<1>1. IsWellFoundedOn(Less, Nat)
  BY NatLessThanWellFounded
<1>2. PICK x \in S : \A y \in S : <<y, x>> \notin Less
  <2> HIDE DEF Less
  <2>1. QED
    BY <1>1, WFMin
<1>3. \A y \in S : y < x => <<y, x>> \in Less
  <2>1. Less = {ss \in Nat \X Nat : ss[1] < ss[2]}
    BY DEF OpToRel
  <2>2. TAKE y \in S
  <2>3. HAVE y < x
  <2>4. <<y, x>> \in Nat \X Nat /\ <<y, x>>[1] < <<y, x>>[2]
    BY <2>3
  <2> HIDE DEF Less
  <2>5. QED
    BY <2>1, <2>4
<1>4. ASSUME NEW y \in S PROVE x <= y
  <2>1. ~(y < x)
    BY <1>2, <1>3, Zenon
  <2>2. x \in Nat /\ y \in Nat
    OBVIOUS
  <2>3. QED
    BY <2>1, <2>2
<1>5. QED
  BY <1>4 DEF Min

(* A search never goes back, and past the end only if it began there.      *)
LEMMA FindRange ==
  ASSUME buffer \in Seq(STRING), NEW i \in Nat, NEW places \in SUBSET Places
  PROVE  /\ Find(i, places) \in Nat /\ Find(i, places) >= i
         /\ i <= Len(buffer) => Find(i, places) <= Len(buffer)
<1> DEFINE otherwise == IF i > Len(buffer) THEN i ELSE Len(buffer)
           found     == {j \in places : j >= i} \cup {otherwise}
<1>1. Len(buffer) \in Nat /\ Places \subseteq Nat
  BY DEF Places
<1>2. otherwise \in Nat /\ otherwise >= i
  BY <1>1
<1>3. found \subseteq Nat /\ found # {} /\ \A j \in found : j >= i
  BY <1>1, <1>2
<1>4. Min(found) \in found /\ Min(found) <= otherwise
  <2> HIDE DEF found
  <2>1. Min(found) \in found /\ \A j \in found : Min(found) <= j
    BY <1>3, MinOfNaturals
  <2>2. otherwise \in found
    BY DEF found
  <2>3. QED
    BY <2>1, <2>2
<1>5. Find(i, places) = Min(found)
  BY DEF Find
<1>6. QED
  <2> HIDE DEF found
  <2>1. Min(found) \in Nat /\ Min(found) >= i
    BY <1>3, <1>4
  <2>2. ASSUME i <= Len(buffer) PROVE Min(found) <= Len(buffer)
    BY <1>1, <1>4, <2>2
  <2>3. QED
    BY <1>5, <2>1, <2>2

(* So do the calls that look for the end of white space, a word or a line. *)
LEMMA CallRanges ==
  ASSUME buffer \in Seq(STRING), NEW i \in Nat
  PROVE  /\ SkipSpace(i) \in Nat /\ SkipSpace(i) >= i
         /\ LineEnd(i) \in Nat
         /\ i <= Len(buffer) => /\ SkipSpace(i) <= Len(buffer)
                                /\ WordEnd(i) \in Nat /\ WordEnd(i) <= Len(buffer)
                                /\ LineEnd(i) <= Len(buffer)
<1>1. /\ Places \ Spaces \in SUBSET Places /\ Spaces \in SUBSET Places
      /\ NewLines \in SUBSET Places
  BY DEF Spaces, NewLines
<1>2. /\ SkipSpace(i) \in Nat /\ SkipSpace(i) >= i
      /\ i <= Len(buffer) => SkipSpace(i) <= Len(buffer)
  BY <1>1, FindRange DEF SkipSpace
<1>3. LineEnd(i) \in Nat /\ (i <= Len(buffer) => LineEnd(i) <= Len(buffer))
  BY <1>1, FindRange DEF LineEnd
<1>4. i <= Len(buffer) => WordEnd(i) \in Nat /\ WordEnd(i) <= Len(buffer)
  BY <1>1, <1>2, FindRange DEF WordEnd
<1>5. QED
  BY <1>2, <1>3, <1>4

-----------------------------------------------------------------------------
(* What the parser holds is the beginning of what its peer sends.          *)
Held ==
  /\ text \in Seq(STRING) /\ buffer \in Seq(STRING)
  /\ Len(buffer) <= Len(text)
  /\ \A i \in 1..Len(buffer) : buffer[i] = text[i]

PosInv == /\ Held /\ pos \in Nat
          /\ pos <= Len(buffer) + 1
          /\ NoOutOfRange

(* A recv adds to the end of the buffer.                                   *)
LEMMA RecvGrows ==
  ASSUME Held, Recv
  PROVE  Held' /\ Len(buffer') >= Len(buffer) /\ UNCHANGED <<pos, call>>
<1>1. UNCHANGED <<pos, call, text>>
  BY DEF Recv, RecvData, RecvNothing, Received
<1>2. CASE RecvNothing
  <2>1. buffer' = buffer
    BY <1>2 DEF RecvNothing, Received, Held
  <2>2. QED
    BY <1>1, <2>1 DEF Held
<1>3. CASE RecvData
  <2>1. PICK n \in 1..MaxRecv :
          /\ Len(buffer) + n <= Len(text)
          /\ buffer' = buffer \o SubSeq(text, Len(buffer) + 1, Len(buffer) + n)
    BY <1>3 DEF RecvData, Received
  <2>2. n \in Nat /\ n > 0 /\ Len(buffer) \in Nat /\ Len(text) \in Nat
    BY MaxRecvAssumption DEF Held
  <2> DEFINE chunk == SubSeq(text, Len(buffer) + 1, Len(buffer) + n)
  <2>3. /\ chunk \in Seq(STRING) /\ Len(chunk) = n
        /\ \A i \in 1..n : chunk[i] = text[Len(buffer) + i]
    BY <2>1, <2>2 DEF Held
  <2> HIDE DEF chunk
  <2>4. buffer' = buffer \o chunk
    BY <2>1 DEF chunk
  <2>5. /\ buffer' \in Seq(STRING) /\ Len(buffer') = Len(buffer) + n
        /\ \A i \in 1..Len(buffer) : buffer'[i] = buffer[i]
        /\ \A i \in (Len(buffer) + 1)..(Len(buffer) + n) :
             buffer'[i] = chunk[i - Len(buffer)]
    <3>1. \A s, c \in Seq(STRING) :
            /\ s \o c \in Seq(STRING) /\ Len(s \o c) = Len(s) + Len(c)
            /\ \A i \in 1..Len(s) : (s \o c)[i] = s[i]
            /\ \A i \in (Len(s) + 1)..(Len(s) + Len(c)) : (s \o c)[i] = c[i - Len(s)]
      OBVIOUS
    <3>2. QED
      BY <2>3, <2>4, <3>1 DEF Held
  <2>6. ASSUME NEW i \in 1..Len(buffer') PROVE buffer'[i] = text[i]
    <3>1. CASE i <= Len(buffer)
      BY <2>2, <2>5, <3>1 DEF Held
    <3>2. CASE i > Len(buffer)
      <4>1. i - Len(buffer) \in 1..n /\ i \in (Len(buffer) + 1)..(Len(buffer) + n)
        BY <2>2, <2>5, <3>2
      <4>2. chunk[i - Len(buffer)] = text[Len(buffer) + (i - Len(buffer))]
        BY <2>3, <4>1
      <4>3. Len(buffer) + (i - Len(buffer)) = i
        BY <2>2, <2>5
      <4>4. QED
        BY <2>5, <4>1, <4>2, <4>3
    <3>3. QED
      BY <2>2, <2>5, <3>1, <3>2
  <2>7. QED
    BY <1>1, <2>1, <2>2, <2>5, <2>6 DEF Held
<1>4. QED
  BY <1>2, <1>3 DEF Recv

LEMMA PosKept == Spec => []PosInv
<1>1. Init => PosInv
  <2> SUFFICES ASSUME Init PROVE PosInv
    OBVIOUS
  <2>1. text \in Seq(STRING) /\ buffer = <<>> /\ pos = 0
    BY TextsAssumption DEF Init, StreamInit
  <2>2. QED
    BY <2>1 DEF PosInv, Held, NoOutOfRange
<1>2. PosInv /\ [Next]_vars => PosInv'
  <2> SUFFICES ASSUME PosInv, [Next]_vars PROVE PosInv'
    OBVIOUS
  <2>0. /\ buffer \in Seq(STRING) /\ Len(buffer) \in Nat /\ pos \in Nat
        /\ LineEnd(pos) \in Nat /\ SkipSpace(pos) >= pos /\ SkipSpace(pos) \in Nat
        /\ pos <= Len(buffer) =>
             /\ WordEnd(pos) \in Nat /\ WordEnd(pos) <= Len(buffer)
             /\ LineEnd(pos) <= Len(buffer)
             /\ LineEnd(SkipSpace(pos)) \in Nat
             /\ LineEnd(SkipSpace(pos)) <= Len(buffer)
    <3>1. buffer \in Seq(STRING) /\ Len(buffer) \in Nat /\ pos \in Nat
      BY DEF PosInv, Held
    <3>2. /\ LineEnd(pos) \in Nat /\ SkipSpace(pos) >= pos /\ SkipSpace(pos) \in Nat
          /\ pos <= Len(buffer) =>
               /\ SkipSpace(pos) <= Len(buffer)
               /\ WordEnd(pos) \in Nat /\ WordEnd(pos) <= Len(buffer)
               /\ LineEnd(pos) <= Len(buffer)
      BY <3>1, CallRanges
    <3>3. pos <= Len(buffer) => /\ LineEnd(SkipSpace(pos)) \in Nat
                               /\ LineEnd(SkipSpace(pos)) <= Len(buffer)
      BY <3>1, <3>2, CallRanges
    <3>4. QED
      BY <3>1, <3>2, <3>3
  <2>1. CASE Recv
    <3>1. Held' /\ Len(buffer') >= Len(buffer) /\ UNCHANGED <<pos, call>>
      BY <2>1, RecvGrows DEF PosInv
    <3>2. Len(buffer') \in Nat
      BY <3>1 DEF Held
    <3>3. QED
      BY <2>0, <3>1, <3>2 DEF PosInv, NoOutOfRange
  <2>2. ASSUME UNCHANGED <<text, buffer>>, pos' \in Nat,
               \/ pos' <= Len(buffer)
               \/ pos' <= Len(buffer) + 1 /\ call' \in {"more", "body?", "done"}
        PROVE  PosInv'
    BY <2>0, <2>2 DEF PosInv, Held, NoOutOfRange
  <2> USE DEF Returns, Return
  <2>3. ASSUME NEW field, NEW next, field \notin {"more", "body?", "done"},
               Word(field, next)
        PROVE  PosInv'
    BY <2>0, <2>2, <2>3 DEF Word, PosInv, NoOutOfRange
  <2>4. CASE Version
    BY <2>0, <2>2, <2>4 DEF Version, PosInv, NoOutOfRange
  <2>5. CASE RestOfLine
    BY <2>0, <2>2, <2>5 DEF RestOfLine, PosInv, NoOutOfRange
  <2>6. CASE Code
    BY <2>0, <2>2, <2>6 DEF Code, PosInv, NoOutOfRange
  <2>7. CASE Status
    BY <2>0, <2>2, <2>7 DEF Status, PosInv, NoOutOfRange
  <2>8. CASE More
    BY <2>0, <2>2, <2>8 DEF More, hasNext, PosInv
  <2>9. CASE Header
    BY <2>0, <2>2, <2>9 DEF Header, PosInv, NoOutOfRange
  <2>10. CASE HasBody
    BY <2>0, <2>2, <2>10 DEF HasBody, hasNext, PosInv
  <2>11. CASE Body
    BY <2>0, <2>2, <2>11 DEF Body
  <2>12. CASE UNCHANGED vars
    BY <2>12 DEF vars, stream, PosInv, Held, NoOutOfRange
  <2>13. QED
    BY <2>1, <2>3, <2>4, <2>5, <2>6, <2>7, <2>8, <2>9, <2>10, <2>11, <2>12
       DEF Next, parseRequest, parseResponse, MethodAndResource, HeadersAndBody
<1>3. QED
  BY <1>1, <1>2, PTL DEF Spec

(* No call takes a substring that begins beyond the end of the buffer,     *)
(* whatever is sent and however it comes in.                               *)
THEOREM NeverOutOfRange == Spec => []NoOutOfRange
<1>1. PosInv => NoOutOfRange
  BY DEF PosInv
<1>2. QED
  BY <1>1, PosKept, PTL

-----------------------------------------------------------------------------
(* A request stays a request, a response a response.                       *)
Kept == DOMAIN message' = DOMAIN message

Kinds == call \in Calls /\ timed_out \in BOOLEAN /\ (IsRequest \/ IsResponse)

LEMMA KindsKept == Spec => []Kinds
<1>1. Init => Kinds
  <2> SUFFICES ASSUME Init PROVE Kinds
    OBVIOUS
  <2>1. call \in Calls /\ timed_out \in BOOLEAN
    BY DEF Init, StreamInit, RequestInit, ResponseInit, Calls
  <2>2. IsRequest \/ IsResponse
    BY DEF Init, RequestInit, ResponseInit, IsRequest, IsResponse
  <2>3. QED
    BY <2>1, <2>2 DEF Kinds
<1>2. Kinds /\ [Next]_vars => Kinds'
  <2> SUFFICES ASSUME Kinds, [Next]_vars PROVE Kinds'
    OBVIOUS
  <2>1. ASSUME call' \in Calls, timed_out' \in BOOLEAN, Kept PROVE Kinds'
    BY <2>1 DEF Kinds, Kept, IsRequest, IsResponse, NewRequest, NewResponse
  <2>2. CASE Recv
    <3>1. UNCHANGED <<call, message>>
      BY <2>2 DEF Recv
    <3>2. ASSUME NEW chunk, Received(chunk) PROVE timed_out' \in BOOLEAN
      BY <3>2, Zenon DEF Received, Kinds
    <3>3. timed_out' \in BOOLEAN
      BY <2>2, <3>2 DEF Recv, RecvData, RecvNothing
    <3>4. QED
      BY <2>1, <3>1, <3>3 DEF Kinds, Kept
  <2>3. ASSUME UNCHANGED timed_out, call' \in Calls, Kept PROVE Kinds'
    BY <2>1, <2>3 DEF Kinds
  <2> USE DEF Returns, Return
  <2>4. ASSUME NEW field, NEW next \in Calls, Word(field, next) PROVE Kinds'
    BY <2>3, <2>4 DEF Word, Kept
  <2>5. CASE Version
    BY <2>3, <2>5 DEF Version, Kept, Calls
  <2>6. CASE RestOfLine
    BY <2>3, <2>6 DEF RestOfLine, Kept, Calls
  <2>7. CASE Code
    BY <2>3, <2>7 DEF Code, Kept, Calls
  <2>8. CASE Status
    BY <2>3, <2>8 DEF Status, Kept, Calls
  <2>9. CASE More \/ HasBody
    BY <2>3, <2>9 DEF More, HasBody, Kept, Calls
  <2>10. CASE Header
    BY <2>3, <2>10 DEF Header, Kept, Calls
  <2>11. CASE Body
    BY <2>3, <2>11 DEF Body, Kept, Calls
  <2>12. CASE UNCHANGED vars
    BY <2>3, <2>12 DEF vars, stream, Kinds, Kept
  <2>13. QED
    BY <2>2, <2>4, <2>5, <2>6, <2>7, <2>8, <2>9, <2>10, <2>11, <2>12
       DEF Next, parseRequest, parseResponse, MethodAndResource, HeadersAndBody, Calls
<1>3. QED
  BY <1>1, <1>2, PTL DEF Spec

(* The parser is always at one of its calls, with the beginning of what is *)
(* sent in its buffer and its position in there, or one past the end.      *)
THEOREM ParserTyped == Spec => []TypeOK
<1>1. Held => IsPrefix(buffer, text)
  <2> SUFFICES ASSUME Held PROVE IsPrefix(buffer, text)
    OBVIOUS
  <2>1. /\ Len(buffer) \in Nat /\ Len(buffer) <= Len(text)
        /\ \A i \in 1..Len(buffer) : buffer[i] = text[i]
    BY DEF Held
  <2>2. SubSeq(buffer, 1, Len(buffer)) = SubSeq(text, 1, Len(buffer))
    BY <2>1 DEF Held
  <2>3. QED
    BY <2>1, <2>2 DEF IsPrefix
<1>2. PosInv /\ Kinds => TypeOK
  <2> SUFFICES ASSUME PosInv, Kinds PROVE TypeOK
    OBVIOUS
  <2>1. pos \in 0..(Len(buffer) + 1)
    BY DEF PosInv, Held
  <2>2. QED
    BY <1>1, <2>1 DEF TypeOK, Kinds, PosInv
<1>3. QED
  BY <1>2, PosKept, KindsKept, PTL
-----------------------------------------------------------------------------
(* Least and later elements of sets of places.                             *)
LEMMA MinIs ==
  ASSUME NEW S, S \subseteq Nat, NEW x \in S, \A y \in S : x <= y
  PROVE  Min(S) = x
<1>1. Min(S) \in S /\ \A y \in S : Min(S) <= y
  BY MinOfNaturals
<1>2. Min(S) <= x /\ x <= Min(S) /\ Min(S) \in Nat /\ x \in Nat
  BY <1>1
<1>3. QED
  BY <1>2

LEMMA MaxIs ==
  ASSUME NEW S, S \subseteq Nat, NEW x \in S, \A y \in S : y <= x
  PROVE  Max(S) = x
<1>1. \E z \in S : \A y \in S : z >= y
  BY DEF Max
<1>2. Max(S) \in S /\ \A y \in S : Max(S) >= y
  BY <1>1 DEF Max
<1>3. Max(S) <= x /\ x <= Max(S) /\ Max(S) \in Nat /\ x \in Nat
  BY <1>2
<1>4. QED
  BY <1>3

(* A bounded set of places has a last one.                                 *)
LEMMA BoundedMax ==
  ASSUME NEW S, S # {}, NEW n \in Nat, \A x \in S : x \in Nat /\ x <= n
  PROVE  Max(S) \in S
<1> DEFINE D == {n - x : x \in S}
<1>1. D \subseteq Nat /\ D # {}
  OBVIOUS
<1>2. Min(D) \in D /\ \A d \in D : Min(D) <= d
  <2> HIDE DEF D
  <2>1. QED
    BY <1>1, MinOfNaturals
<1>3. PICK z \in S : Min(D) = n - z
  BY <1>2
<1>4. ASSUME NEW y \in S PROVE y <= z
  <2>1. n - y \in D
    OBVIOUS
  <2>2. n - z <= n - y
    BY <1>2, <1>3, <2>1
  <2>3. QED
    BY <2>2
<1>5. S \subseteq Nat
  OBVIOUS
<1> HIDE DEF D
<1>6. Max(S) = z
  BY <1>4, <1>5, MaxIs
<1>7. QED
  BY <1>6

(* One more place, after all the others.                                   *)
LEMMA OneMore ==
  ASSUME NEW P, P \subseteq Nat, NEW x \in Nat, \A y \in P : y < x
  PROVE  /\ Later(P \cup {x}) = IF P = {} THEN {} ELSE Later(P) \cup {x}
         /\ P # {} => Min(P \cup {x}) = Min(P)
         /\ Min({x}) = x
<1>1. Later(P \cup {x}) = IF P = {} THEN {} ELSE Later(P) \cup {x}
  <2>1. CASE P = {}
    BY <2>1 DEF Later
  <2>2. CASE P # {}
    <3>1. ASSUME NEW i \in P PROVE i \in Later(P \cup {x}) <=> i \in Later(P)
      <4>1. i \in Nat /\ i < x
        OBVIOUS
      <4>2. ~(x < i)
        BY <4>1
      <4>3. QED
        BY <4>2 DEF Later
    <3>2. x \in Later(P \cup {x})
      BY <2>2 DEF Later
    <3>3. Later(P \cup {x}) \subseteq P \cup {x} /\ Later(P) \subseteq P
      BY DEF Later
    <3>4. QED
      BY <2>2, <3>1, <3>2, <3>3
  <2>3. QED
    BY <2>1, <2>2
<1>2. ASSUME P # {} PROVE Min(P \cup {x}) = Min(P)
  <2>1. Min(P) \in P /\ \A y \in P : Min(P) <= y
    BY <1>2, MinOfNaturals
  <2>2. Min(P) \in Nat /\ Min(P) < x
    BY <2>1
  <2>. DEFINE m == Min(P)
  <2>. HIDE DEF m
  <2>4. m \in Nat /\ m < x /\ m \in P /\ \A y \in P : m <= y
    BY <2>1, <2>2 DEF m
  <2>5. \A y \in P \cup {x} : m <= y
    BY <2>4
  <2>3. QED
    BY <2>4, <2>5, MinIs DEF m
<1>3. Min({x}) = x
  BY MinIs
<1>4. QED
  BY <1>1, <1>2, <1>3

(* The beginning of a set of places has the same first one, and so has     *)
(* what comes later in it.                                                 *)
Begins(A, B) == A \subseteq B /\ \A a \in A, b \in B : b < a => b \in A

LEMMA BeginsSame ==
  ASSUME NEW B, B \subseteq Nat, NEW A, Begins(A, B)
  PROVE  /\ Begins(Later(A), Later(B)) /\ Later(B) \subseteq Nat
         /\ A # {} => Min(A) = Min(B)
<1>1. A \subseteq B /\ \A a \in A, b \in B : b < a => b \in A
  BY DEF Begins
<1>2. Begins(Later(A), Later(B)) /\ Later(B) \subseteq Nat
  <2>1. Later(A) \subseteq Later(B) /\ Later(B) \subseteq Nat
    BY <1>1 DEF Later
  <2>2. ASSUME NEW a \in Later(A), NEW b \in Later(B), b < a PROVE b \in Later(A)
    <3>1. b \in A
      BY <1>1, <2>2 DEF Later
    <3>2. PICK j \in B : j < b
      BY DEF Later
    <3>3. j \in A
      BY <1>1, <3>1, <3>2
    <3>4. QED
      BY <3>1, <3>2, <3>3 DEF Later
  <2>3. QED
    BY <2>1, <2>2 DEF Begins
<1>3. ASSUME A # {} PROVE Min(A) = Min(B)
  <2>1. Min(A) \in A /\ \A y \in A : Min(A) <= y
    BY <1>1, <1>3, MinOfNaturals
  <2>2. ASSUME NEW y \in B PROVE Min(A) <= y
    <3>1. Min(A) \in Nat /\ y \in Nat
      BY <1>1, <2>1
    <3>2. CASE y < Min(A)
      BY <1>1, <2>1, <3>2
    <3>3. QED
      BY <3>1, <3>2
  <2>3. QED
    BY <1>1, <2>1, <2>2, MinIs
<1>4. QED
  BY <1>2, <1>3

-----------------------------------------------------------------------------
(* Where a text stops.                                                     *)
LEMMA StopIs ==
  ASSUME NEW s \in Seq(STRING), NEW i \in Nat \ {0}, NEW chars
  PROVE  LET e == Stop(s, i, chars)
         IN /\ e \in Nat /\ e <= Len(s) + 1 /\ (i <= Len(s) + 1 => i <= e)
            /\ e <= Len(s) => s[e] \in chars /\ i <= e
            /\ \A j \in i..Len(s) : j < e => s[j] \notin chars
<1> DEFINE S == {j \in i..Len(s) : s[j] \in chars} \cup {Len(s) + 1}
<1>1. S \subseteq Nat /\ S # {} /\ Len(s) \in Nat /\ Len(s) + 1 \in S
      /\ \A j \in S : j <= Len(s) + 1
  OBVIOUS
<1>2. Min(S) \in S /\ \A j \in S : Min(S) <= j
  <2> HIDE DEF S
  <2>1. QED
    BY <1>1, MinOfNaturals
<1>3. Stop(s, i, chars) = Min(S)
  BY DEF Stop
<1>4. \A j \in i..Len(s) : s[j] \in chars => j \in S
  OBVIOUS
<1>5. \A j \in S : j <= Len(s) => s[j] \in chars /\ i <= j
  OBVIOUS
<1>6. \A j \in S : i <= Len(s) + 1 => i <= j
  OBVIOUS
<1> HIDE DEF S
<1>7. ASSUME NEW j \in i..Len(s), j < Min(S) PROVE s[j] \notin chars
  <2>1. j \in Nat
    BY <1>1
  <2>2. ~(Min(S) <= j)
    <3>1. Min(S) \in Nat
      BY <1>1, <1>2
    <3>2. QED
      BY <1>7, <2>1, <3>1
  <2>3. QED
    BY <1>2, <1>4, <2>2
<1>8. QED
  BY <1>1, <1>2, <1>3, <1>5, <1>6, <1>7

LEMMA StopThere ==
  ASSUME NEW s \in Seq(STRING), NEW i \in Nat \ {0}, NEW chars,
         NEW e \in i..(Len(s) + 1), e <= Len(s) => s[e] \in chars,
         \A j \in i..Len(s) : j < e => s[j] \notin chars
  PROVE  Stop(s, i, chars) = e
<1>1. Stop(s, i, chars) \in Nat /\ Stop(s, i, chars) <= Len(s) + 1
      /\ i <= Stop(s, i, chars)
      /\ (Stop(s, i, chars) <= Len(s) => s[Stop(s, i, chars)] \in chars)
      /\ \A j \in i..Len(s) : j < Stop(s, i, chars) => s[j] \notin chars
  BY StopIs
<1>2. e \in Nat /\ Len(s) \in Nat /\ i <= e
  OBVIOUS
<1>3. ~(e < Stop(s, i, chars))
  BY <1>1, <1>2
<1>4. ~(Stop(s, i, chars) < e)
  BY <1>1, <1>2
<1>5. QED
  BY <1>1, <1>2, <1>3, <1>4

-----------------------------------------------------------------------------
(* A text that the buffer may yet become; after the last recv, itself.     *)
Fits(s) ==
  /\ s \in Seq(STRING) /\ Len(buffer) <= Len(s)
  /\ \A i \in 1..Len(buffer) : s[i] = buffer[i]
  /\ timed_out => s = buffer

LEMMA FindIs ==
  ASSUME buffer \in Seq(STRING), NEW i \in Nat, NEW places \in SUBSET Places
  PROVE  LET f == Find(i, places)
         IN /\ f \in Nat /\ i <= f
            /\ i <= Len(buffer) => f <= Len(buffer)
            /\ i > Len(buffer) => f = i
            /\ f < Len(buffer) => f \in places
            /\ \A j \in places : i <= j => f <= j
<1> DEFINE otherwise == IF i > Len(buffer) THEN i ELSE Len(buffer)
           found     == {j \in places : j >= i} \cup {otherwise}
<1>1. Len(buffer) \in Nat /\ \A j \in places : j \in Nat /\ j < Len(buffer)
  BY DEF Places
<1>2. otherwise \in Nat /\ otherwise >= i /\ otherwise >= Len(buffer)
  BY <1>1
<1>3. /\ found \subseteq Nat /\ found # {} /\ otherwise \in found
      /\ \A j \in found : j \in places \/ j = otherwise
      /\ \A j \in places : i <= j => j \in found
  BY <1>1, <1>2
<1>4. Min(found) \in found /\ \A j \in found : Min(found) <= j
  <2> HIDE DEF found
  <2>1. QED
    BY <1>3, MinOfNaturals
<1>5. Find(i, places) = Min(found)
  BY DEF Find
<1>6. /\ Find(i, places) \in Nat /\ i <= Find(i, places)
      /\ i <= Len(buffer) => Find(i, places) <= Len(buffer)
  BY FindRange
<1>7. ASSUME i > Len(buffer) PROVE Find(i, places) = i
  <2>1. otherwise = i
    BY <1>7
  <2> HIDE DEF found, otherwise
  <2>2. Find(i, places) <= i
    BY <1>3, <1>4, <1>5, <2>1
  <2>3. QED
    BY <1>6, <2>2
<1>8. ASSUME Find(i, places) < Len(buffer) PROVE Find(i, places) \in places
  <2> HIDE DEF found, otherwise
  <2>1. Find(i, places) # otherwise
    BY <1>1, <1>2, <1>6, <1>8
  <2>2. QED
    BY <1>3, <1>4, <1>5, <2>1
<1>9. \A j \in places : i <= j => Find(i, places) <= j
  <2> HIDE DEF found
  <2>1. QED
    BY <1>3, <1>4, <1>5
<1>10. QED
  BY <1>6, <1>7, <1>8, <1>9

(* What a call reads is the same in all these texts.                       *)
LEMMA BetweenIs ==
  ASSUME buffer \in Seq(STRING), NEW s, Fits(s), NEW from \in Nat,
         NEW to \in Nat, to <= Len(buffer)
  PROVE  Between(from, to) = SubSeq(s, from + 1, to)
<1>1. /\ s \in Seq(STRING) /\ Len(buffer) \in Nat
      /\ \A i \in (from + 1)..to : i \in 1..Len(buffer) /\ s[i] = buffer[i]
  BY DEF Fits
<1>2. QED
  BY <1>1 DEF Between

(* Skipping white space from a place.                                      *)
LEMMA SkipIs ==
  ASSUME buffer \in Seq(STRING), NEW s, Fits(s), NEW i \in Nat,
         i > Len(buffer) => timed_out
  PROVE  LET q == SkipSpace(i)
         IN /\ q \in Nat /\ i <= q
            /\ i <= Len(buffer) => q <= Len(buffer)
            /\ q < Len(buffer) => q < Len(s) /\ ~isspace(s[q + 1])
            /\ \A j \in (i + 1)..q : j <= Len(s) => isspace(s[j])
            /\ q >= Len(buffer) /\ ~Starved(q) => timed_out /\ s = buffer
<1> DEFINE q == SkipSpace(i)
<1>1. Len(buffer) \in Nat /\ Len(s) \in Nat /\ Len(buffer) <= Len(s)
      /\ (timed_out => s = buffer) /\ s \in Seq(STRING)
      /\ \A j \in 1..Len(buffer) : s[j] = buffer[j]
  BY DEF Fits
<1>2. /\ Places \ Spaces \in SUBSET Places
      /\ \A j : j \in Places \ Spaces
               <=> j \in 0..(Len(buffer) - 1) /\ ~isspace(buffer[j + 1])
  BY DEF Places, Spaces
<1>3. /\ q \in Nat /\ i <= q
      /\ i <= Len(buffer) => q <= Len(buffer)
      /\ i > Len(buffer) => q = i
      /\ q < Len(buffer) => q \in Places \ Spaces
      /\ \A j \in Places \ Spaces : i <= j => q <= j
  BY <1>2, FindIs DEF SkipSpace
<1> HIDE DEF q
<1>4. ASSUME q < Len(buffer) PROVE q < Len(s) /\ ~isspace(s[q + 1])
  <2>1. q + 1 \in 1..Len(buffer) /\ ~isspace(buffer[q + 1])
    BY <1>1, <1>2, <1>3, <1>4
  <2>2. s[q + 1] = buffer[q + 1] /\ q < Len(s)
    BY <1>1, <1>3, <1>4, <2>1
  <2>3. QED
    BY <2>1, <2>2
<1>5. ASSUME NEW j \in (i + 1)..q, j <= Len(s) PROVE isspace(s[j])
  <2>1. j \in Nat /\ j >= 1 /\ i <= j - 1 /\ j <= q
    BY <1>3
  <2>2. j <= Len(buffer)
    <3>1. CASE i <= Len(buffer)
      BY <1>1, <1>3, <2>1, <3>1
    <3>2. CASE i > Len(buffer)
      BY <1>1, <1>5, <3>2
    <3>3. QED
      BY <1>1, <3>1, <3>2
  <2>3. j \in 1..Len(buffer) /\ s[j] = buffer[j] /\ (j - 1) + 1 = j
        /\ j - 1 \in 0..(Len(buffer) - 1)
    BY <1>1, <2>1, <2>2
  <2>4. j - 1 \notin Places \ Spaces
    BY <1>3, <2>1, <2>3
  <2>5. isspace(buffer[j])
    BY <1>2, <2>3, <2>4
  <2>6. QED
    BY <2>3, <2>5
<1>6. ASSUME q >= Len(buffer), ~Starved(q) PROVE timed_out /\ s = buffer
  <2>1. timed_out
    <3>1. CASE i <= Len(buffer)
      <4>1. q = Len(buffer)
        BY <1>1, <1>3, <1>6, <3>1
      <4>2. QED
        BY <1>6, <4>1 DEF Starved
    <3>2. CASE i > Len(buffer)
      BY <3>2
    <3>3. QED
      BY <1>1, <3>1, <3>2
  <2>2. QED
    BY <1>1, <2>1
<1>7. QED
  BY <1>3, <1>4, <1>5, <1>6 DEF q

(* Going on to one of some characters.                                     *)
LEMMA StopsAt ==
  ASSUME buffer \in Seq(STRING), NEW s, Fits(s), NEW chars,
         NEW i \in Nat, i <= Len(buffer), NEW places,
         places = {j \in Places : buffer[j + 1] \in chars},
         ~Starved(Find(i, places))
  PROVE  LET e == Find(i, places)
         IN /\ e \in Nat /\ i <= e /\ e <= Len(buffer) /\ e <= Len(s)
            /\ e < Len(s) => e \in places /\ s[e + 1] \in chars
            /\ e = Len(buffer) => timed_out /\ s = buffer
            /\ \A j \in (i + 1)..e : s[j] \notin chars
            /\ Stop(s, i + 1, chars) = e + 1
<1> DEFINE e == Find(i, places)
<1>1. Len(buffer) \in Nat /\ Len(s) \in Nat /\ Len(buffer) <= Len(s)
      /\ (timed_out => s = buffer) /\ s \in Seq(STRING)
      /\ \A j \in 1..Len(buffer) : s[j] = buffer[j]
  BY DEF Fits
<1>2. /\ places \in SUBSET Places
      /\ \A j : j \in places
               <=> j \in 0..(Len(buffer) - 1) /\ buffer[j + 1] \in chars
  BY DEF Places
<1>3. /\ e \in Nat /\ i <= e /\ e <= Len(buffer)
      /\ e < Len(buffer) => e \in places
      /\ \A j \in places : i <= j => e <= j
  BY <1>2, FindIs
<1>4. e = Len(buffer) => timed_out /\ s = buffer
  BY <1>1 DEF Starved
<1> HIDE DEF e
<1>5. ASSUME e < Len(s) PROVE e \in places /\ s[e + 1] \in chars
  <2>1. e < Len(buffer)
    BY <1>1, <1>3, <1>4, <1>5
  <2>2. e + 1 \in 1..Len(buffer)
    BY <1>1, <1>3, <2>1
  <2>3. QED
    BY <1>1, <1>2, <1>3, <2>1, <2>2
<1>6. ASSUME NEW j \in (i + 1)..e PROVE s[j] \notin chars
  <2>1. j \in Nat /\ j >= 1 /\ i <= j - 1 /\ j <= e /\ j - 1 < e
    BY <1>3
  <2>2. j \in 1..Len(buffer) /\ s[j] = buffer[j] /\ (j - 1) + 1 = j
        /\ j - 1 \in 0..(Len(buffer) - 1)
    BY <1>1, <1>3, <2>1
  <2>3. j - 1 \notin places
    BY <1>3, <2>1, <2>2
  <2>4. QED
    BY <1>2, <2>2, <2>3
<1>7. Stop(s, i + 1, chars) = e + 1
  <2>1. e + 1 \in (i + 1)..(Len(s) + 1) /\ i + 1 \in Nat \ {0}
    BY <1>1, <1>3
  <2>2. e + 1 <= Len(s) => s[e + 1] \in chars
    BY <1>1, <1>3, <1>5
  <2>3. \A j \in (i + 1)..Len(s) : j < e + 1 => s[j] \notin chars
    BY <1>1, <1>3, <1>6
  <2>4. QED
    BY <1>1, <2>1, <2>2, <2>3, StopThere
<1>8. QED
  BY <1>1, <1>3, <1>4, <1>5, <1>6, <1>7 DEF e

LEMMA LineIs ==
  ASSUME buffer \in Seq(STRING), NEW s, Fits(s),
         NEW i \in Nat, i <= Len(buffer), ~Starved(LineEnd(i))
  PROVE  LET e == LineEnd(i)
         IN /\ e \in Nat /\ i <= e /\ e <= Len(buffer) /\ e <= Len(s)
            /\ e < Len(s) => e \in NewLines /\ s[e + 1] = "NL"
            /\ e = Len(buffer) => timed_out /\ s = buffer
            /\ \A j \in (i + 1)..e : s[j] # "NL"
            /\ Stop(s, i + 1, {"NL"}) = e + 1
<1> DEFINE chars == {"NL"}
           e     == LineEnd(i)
<1>1. /\ NewLines = {j \in Places : buffer[j + 1] \in chars}
      /\ e = Find(i, NewLines) /\ ~Starved(Find(i, NewLines))
  BY DEF NewLines, LineEnd
<1> HIDE DEF chars, e
<1>2. /\ e \in Nat /\ i <= e /\ e <= Len(buffer) /\ e <= Len(s)
      /\ e < Len(s) => e \in NewLines /\ s[e + 1] \in chars
      /\ e = Len(buffer) => timed_out /\ s = buffer
      /\ \A j \in (i + 1)..e : s[j] \notin chars
      /\ Stop(s, i + 1, chars) = e + 1
  <2> HIDE DEF chars
  <2>1. QED
    BY <1>1, StopsAt
<1>3. QED
  BY <1>2 DEF e, chars

LEMMA WordIs ==
  ASSUME buffer \in Seq(STRING), NEW s, Fits(s),
         NEW i \in Nat, i <= Len(buffer), ~Starved(WordEnd(i))
  PROVE  LET q == SkipSpace(i)
             e == WordEnd(i)
         IN /\ q \in Nat /\ i <= q /\ q <= e
            /\ e \in Nat /\ e <= Len(buffer) /\ e <= Len(s)
            /\ \A j \in (i + 1)..q : isspace(s[j])
            /\ \A j \in (q + 1)..e : ~isspace(s[j])
            /\ e < Len(s) => isspace(s[e + 1])
            /\ e = q => q = Len(s)
            /\ nextWord = SubSeq(s, q + 1, Stop(s, q + 1, Space) - 1) \/ i # pos
            /\ Stop(s, q + 1, Space) = e + 1
<1> DEFINE q == SkipSpace(i)
           e == WordEnd(i)
<1>1. Len(buffer) \in Nat /\ Len(s) \in Nat /\ Len(buffer) <= Len(s) /\ s \in Seq(STRING)
  BY DEF Fits
<1>2. /\ q \in Nat /\ i <= q /\ q <= Len(buffer)
      /\ q < Len(buffer) => q < Len(s) /\ ~isspace(s[q + 1])
      /\ \A j \in (i + 1)..q : j <= Len(s) => isspace(s[j])
  BY <1>1, SkipIs
<1>3. Spaces = {j \in Places : buffer[j + 1] \in Space} /\ e = Find(q, Spaces)
  BY DEF Spaces, WordEnd, isspace
<1> HIDE DEF q, e
<1>4. ~Starved(Find(q, Spaces))
  BY <1>3 DEF e
<1>5. /\ e \in Nat /\ q <= e /\ e <= Len(buffer) /\ e <= Len(s)
      /\ e < Len(s) => s[e + 1] \in Space
      /\ e = Len(buffer) => s = buffer
      /\ \A j \in (q + 1)..e : s[j] \notin Space
      /\ Stop(s, q + 1, Space) = e + 1
  <2> DEFINE f == Find(q, Spaces)
  <2>1. /\ f \in Nat /\ q <= f /\ f <= Len(buffer) /\ f <= Len(s)
        /\ f < Len(s) => f \in Spaces /\ s[f + 1] \in Space
        /\ f = Len(buffer) => timed_out /\ s = buffer
        /\ \A j \in (q + 1)..f : s[j] \notin Space
        /\ Stop(s, q + 1, Space) = f + 1
    BY <1>2, <1>3, <1>4, StopsAt
  <2> HIDE DEF f
  <2>2. f = e
    BY <1>3 DEF f
  <2>3. QED
    BY <2>1, <2>2
<1>6. ASSUME e = q PROVE q = Len(s)
  <2>1. ~(q < Len(s))
    <3>1. SUFFICES ASSUME q < Len(s) PROVE FALSE
      OBVIOUS
    <3>2. isspace(s[q + 1])
      BY <1>5, <1>6, <3>1 DEF isspace
    <3>3. q = Len(buffer)
      BY <1>1, <1>2, <3>2
    <3>4. QED
      BY <1>5, <1>6, <3>1, <3>3
  <2>2. QED
    BY <1>1, <1>2, <2>1
<1>7. ASSUME i = pos PROVE nextWord = SubSeq(s, q + 1, Stop(s, q + 1, Space) - 1)
  <2>1. nextWord = Between(q, e)
    BY <1>7 DEF nextWord, q, e
  <2>2. Between(q, e) = SubSeq(s, q + 1, e)
    BY <1>2, <1>5, BetweenIs
  <2>3. Stop(s, q + 1, Space) - 1 = e
    BY <1>5
  <2>4. QED
    BY <2>1, <2>2, <2>3
<1>8. \A j \in (i + 1)..q : isspace(s[j])
  BY <1>1, <1>2
<1>9. \A j \in (q + 1)..e : ~isspace(s[j])
  BY <1>5 DEF isspace
<1>10. e < Len(s) => isspace(s[e + 1])
  BY <1>5 DEF isspace
<1>11. QED
  BY <1>2, <1>5, <1>6, <1>7, <1>8, <1>9, <1>10 DEF q, e

-----------------------------------------------------------------------------
(* The words of a text, not of its first line only; those up to a place.   *)
Starts(s) == {i \in 1..Len(s) : ~isspace(s[i]) /\ (i = 1 \/ isspace(s[i - 1]))}
Passed(s, place) == {i \in Starts(s) : i <= place}

AtWordEnd(s, place) == place < Len(s) => isspace(s[place + 1])

BlankFrom(s, place) == \A i \in (place + 1)..Len(s) : isspace(s[i])

NoNewLine(s, place) == \A i \in 1..place : s[i] # "NL"

(* Behind white space, at the end of a word or at the beginning of the     *)
(* text, a character that is not blank begins a word.                      *)
LEMMA NewStart ==
  ASSUME NEW s \in Seq(STRING), NEW place \in Nat, NEW q \in Nat,
         place = 0 \/ AtWordEnd(s, place), place <= q, q < Len(s),
         \A j \in (place + 1)..q : isspace(s[j]), ~isspace(s[q + 1])
  PROVE  q + 1 \in Starts(s) /\ \A i \in Starts(s) : i <= q => i <= place
<1>1. Len(s) \in Nat /\ q + 1 \in 1..Len(s) /\ (q + 1) - 1 = q
  OBVIOUS
<1>2. q + 1 = 1 \/ isspace(s[q])
  <2>1. CASE q = place
    <3>1. place = 0
      BY <2>1 DEF AtWordEnd
    <3>2. QED
      BY <2>1, <3>1
  <2>2. CASE q # place
    <3>1. q \in (place + 1)..q
      BY <2>2
    <3>2. QED
      BY <3>1
  <2>3. QED
    BY <2>1, <2>2
<1>3. q + 1 \in Starts(s)
  BY <1>1, <1>2 DEF Starts
<1>4. ASSUME NEW i \in Starts(s), i <= q PROVE i <= place
  <2>1. i \in Nat /\ ~isspace(s[i])
    BY DEF Starts
  <2>2. ~(place < i)
    BY <1>4, <2>1
  <2>3. QED
    BY <2>1, <2>2
<1>5. QED
  BY <1>3, <1>4

(* A word read, if there is another.                                       *)
NoWordTo(s, e) ==
  /\ nextWord = <<>> /\ Passed(s, e) = Passed(s, pos)
  /\ BlankFrom(s, pos) /\ BlankFrom(s, e)

WordFrom(s, i, e) ==
  /\ i \in Starts(s) /\ pos < i /\ i <= e
  /\ Passed(s, e) = Passed(s, pos) \cup {i}
  /\ nextWord = SubSeq(s, i, Stop(s, i, Space) - 1)
  /\ nextWord # <<>> /\ \A j \in i..e : s[j] # "NL"

LEMMA WordRead ==
  ASSUME buffer \in Seq(STRING), NEW s, Fits(s), pos \in Nat, pos <= Len(buffer),
         pos = 0 \/ AtWordEnd(s, pos), ~Starved(WordEnd(pos))
  PROVE  LET e == WordEnd(pos)
         IN /\ e \in Nat /\ pos <= e /\ e <= Len(buffer) /\ AtWordEnd(s, e)
            /\ NoWordTo(s, e) \/ \E i \in Nat : WordFrom(s, i, e)
<1> DEFINE q == SkipSpace(pos)
           e == WordEnd(pos)
<1>1. Len(buffer) \in Nat /\ Len(s) \in Nat /\ Len(buffer) <= Len(s) /\ s \in Seq(STRING)
  BY DEF Fits
<1>2. /\ q \in Nat /\ pos <= q /\ q <= e
      /\ e \in Nat /\ e <= Len(buffer) /\ e <= Len(s)
      /\ \A j \in (pos + 1)..q : isspace(s[j])
      /\ \A j \in (q + 1)..e : ~isspace(s[j])
      /\ e < Len(s) => isspace(s[e + 1])
      /\ e = q => q = Len(s)
      /\ nextWord = SubSeq(s, q + 1, Stop(s, q + 1, Space) - 1)
      /\ Stop(s, q + 1, Space) = e + 1
  BY WordIs
<1> HIDE DEF q, e
<1>3. AtWordEnd(s, e)
  BY <1>2 DEF AtWordEnd
<1>4. CASE e = q
  <2>1. e = Len(s) /\ \A j \in (pos + 1)..Len(s) : isspace(s[j])
    BY <1>2, <1>4
  <2>2. BlankFrom(s, pos) /\ BlankFrom(s, e)
    BY <1>1, <1>2, <2>1 DEF BlankFrom
  <2>3. nextWord = <<>>
    <3>1. Stop(s, q + 1, Space) - 1 = q
      BY <1>2, <1>4
    <3>2. SubSeq(s, q + 1, q) = <<>>
      BY <1>1, <1>2
    <3>3. QED
      BY <1>2, <3>1, <3>2
  <2>4. Passed(s, e) = Passed(s, pos)
    <3>1. ASSUME NEW i \in Starts(s) PROVE i <= pos
      <4>1. i \in 1..Len(s) /\ ~isspace(s[i])
        BY DEF Starts
      <4>2. QED
        BY <1>1, <2>1, <4>1
    <3>2. \A i \in Starts(s) : i <= e
      BY <1>1, <2>1 DEF Starts
    <3>3. QED
      BY <3>1, <3>2 DEF Passed
  <2>5. QED
    BY <1>2, <1>3, <2>2, <2>3, <2>4 DEF e, NoWordTo
<1>5. CASE e # q
  <2>1. q < e /\ q < Len(s) /\ ~isspace(s[q + 1])
    <3>1. q < e /\ q < Len(s)
      BY <1>1, <1>2, <1>5
    <3>2. q + 1 \in (q + 1)..e
      BY <1>2, <3>1
    <3>3. QED
      BY <1>2, <3>1, <3>2
  <2>2. q + 1 \in Starts(s) /\ \A i \in Starts(s) : i <= q => i <= pos
    BY <1>1, <1>2, <2>1, NewStart
  <2>3. Passed(s, e) = Passed(s, pos) \cup {q + 1}
    <3>1. ASSUME NEW i \in Starts(s), i <= e PROVE i <= pos \/ i = q + 1
      <4>1. /\ i \in Nat /\ ~isspace(s[i])
            /\ i = 1 \/ isspace(s[i - 1])
        BY DEF Starts
      <4>2. CASE i <= q + 1
        BY <1>2, <2>2, <4>1, <4>2
      <4>3. CASE i > q + 1
        <5>1. i - 1 \in (q + 1)..e /\ i # 1
          BY <1>2, <3>1, <4>1, <4>3
        <5>2. QED
          BY <1>2, <4>1, <5>1
      <4>4. QED
        BY <1>2, <4>1, <4>2, <4>3
    <3>2. \A i \in Starts(s) : i \in Nat
      BY DEF Starts
    <3>3. \A i \in Starts(s) : i <= e <=> i <= pos \/ i = q + 1
      BY <1>2, <2>1, <3>1, <3>2
    <3>4. QED
      BY <2>2, <3>3 DEF Passed
  <2>4. nextWord # <<>>
    <3>1. nextWord = SubSeq(s, q + 1, e)
      <4>1. Stop(s, q + 1, Space) - 1 = e
        BY <1>2
      <4>2. QED
        BY <1>2, <4>1
    <3>2. Len(SubSeq(s, q + 1, e)) = e - q /\ e - q # 0
      BY <1>1, <1>2, <2>1
    <3>3. Len(<<>>) = 0
      OBVIOUS
    <3>4. QED
      BY <3>1, <3>2, <3>3
  <2>5. \A j \in (q + 1)..e : s[j] # "NL"
    BY <1>2 DEF isspace, Space
  <2>6. pos < q + 1 /\ q + 1 <= e
    BY <1>2, <2>1
  <2>7. WordFrom(s, q + 1, e) /\ q + 1 \in Nat
    BY <1>2, <2>2, <2>3, <2>4, <2>5, <2>6 DEF WordFrom
  <2>8. QED
    BY <1>2, <1>3, <2>7 DEF e
<1>6. QED
  BY <1>4, <1>5

(* The first, second and third of the words of a text, when its words up   *)
(* to there were read one after another.                                   *)
LEMMA OneMoreWord ==
  ASSUME NEW s, NEW P, P \subseteq Nat, NEW i \in Nat, \A y \in P : y < i
  PROVE  /\ P = {} => FirstWord(s, P \cup {i}) = SubSeq(s, i, Stop(s, i, Space) - 1)
         /\ P # {} => FirstWord(s, P \cup {i}) = FirstWord(s, P)
         /\ P = {} => Later(P \cup {i}) = {}
         /\ P # {} => Later(P \cup {i}) = Later(P) \cup {i}
         /\ Later(P) \subseteq Nat /\ \A y \in Later(P) : y < i
<1>1. /\ Later(P \cup {i}) = IF P = {} THEN {} ELSE Later(P) \cup {i}
      /\ P # {} => Min(P \cup {i}) = Min(P)
      /\ Min({i}) = i
  BY OneMore
<1>2. P \cup {i} # {}
  OBVIOUS
<1>3. P = {} => FirstWord(s, P \cup {i}) = SubSeq(s, i, Stop(s, i, Space) - 1)
  <2>1. P = {} => P \cup {i} = {i}
    OBVIOUS
  <2>2. QED
    BY <1>1, <1>2, <2>1 DEF FirstWord
<1>4. P # {} => FirstWord(s, P \cup {i}) = FirstWord(s, P)
  BY <1>1, <1>2 DEF FirstWord
<1>5. Later(P) \subseteq P
  BY DEF Later
<1>6. QED
  BY <1>1, <1>3, <1>4, <1>5

LEMMA WordsKept ==
  ASSUME buffer \in Seq(STRING), NEW s, Fits(s), pos \in Nat, pos <= Len(buffer),
         pos = 0 \/ AtWordEnd(s, pos), ~Starved(WordEnd(pos))
  PROVE  LET e   == WordEnd(pos)
             was == Passed(s, pos)
             now == Passed(s, e)
         IN /\ was = {} =>
                 /\ nextWord = FirstWord(s, now)
                 /\ Later(now) = {} /\ (now = {} => BlankFrom(s, e))
            /\ Later(was) = {} /\ (was = {} => BlankFrom(s, pos)) =>
                 /\ FirstWord(s, now) = FirstWord(s, was)
                 /\ nextWord = FirstWord(s, Later(now))
                 /\ Later(Later(now)) = {} /\ (Later(now) = {} => BlankFrom(s, e))
            /\ Later(Later(was)) = {} /\ (Later(was) = {} => BlankFrom(s, pos)) =>
                 /\ FirstWord(s, now) = FirstWord(s, was)
                 /\ FirstWord(s, Later(now)) = FirstWord(s, Later(was))
                 /\ nextWord = FirstWord(s, Later(Later(now)))
                 /\ Later(Later(Later(now))) = {}
<1> DEFINE e   == WordEnd(pos)
           was == Passed(s, pos)
           now == Passed(s, e)
<1>1. NoWordTo(s, e) \/ \E i \in Nat : WordFrom(s, i, e)
  BY WordRead
<1>2. was \subseteq Nat /\ (\A y \in was : y <= pos /\ y \in 1..Len(s) /\ ~isspace(s[y]))
  BY DEF Passed, Starts
<1>3. Later({}) = {} /\ FirstWord(s, {}) = <<>>
  BY DEF Later, FirstWord
<1>4. CASE NoWordTo(s, e)
  <2>1. now = was /\ nextWord = <<>> /\ BlankFrom(s, e)
    BY <1>4 DEF NoWordTo
  <2> HIDE DEF now, was, e
  <2>2. QED
    BY <1>3, <2>1 DEF now, was, e
<1>5. ASSUME NEW i \in Nat, WordFrom(s, i, e)
      PROVE  /\ was = {} => nextWord = FirstWord(s, now) /\ Later(now) = {} /\ now # {}
             /\ Later(was) = {} /\ was # {} =>
                 /\ FirstWord(s, now) = FirstWord(s, was)
                 /\ nextWord = FirstWord(s, Later(now))
                 /\ Later(Later(now)) = {} /\ Later(now) # {}
             /\ Later(Later(was)) = {} /\ was # {} /\ Later(was) # {} =>
                 /\ FirstWord(s, now) = FirstWord(s, was)
                 /\ FirstWord(s, Later(now)) = FirstWord(s, Later(was))
                 /\ nextWord = FirstWord(s, Later(Later(now)))
                 /\ Later(Later(Later(now))) = {}
             /\ ~BlankFrom(s, pos)
  <2> DEFINE it == SubSeq(s, i, Stop(s, i, Space) - 1)
  <2>1. now = was \cup {i} /\ pos < i /\ i \in Starts(s) /\ nextWord = it
    BY <1>5 DEF WordFrom
  <2>2. \A y \in was : y < i
    BY <1>2, <2>1
  <2>3. ~BlankFrom(s, pos)
    <3>1. i \in (pos + 1)..Len(s) /\ ~isspace(s[i])
      BY <2>1 DEF Starts
    <3>2. QED
      BY <3>1 DEF BlankFrom
  <2> HIDE DEF now, was, it
  <2>4. \A P \in SUBSET Nat : (\A y \in P : y < i) =>
          /\ P = {} => FirstWord(s, P \cup {i}) = it
          /\ P # {} => FirstWord(s, P \cup {i}) = FirstWord(s, P)
          /\ P = {} => Later(P \cup {i}) = {}
          /\ P # {} => Later(P \cup {i}) = Later(P) \cup {i}
          /\ Later(P) \in SUBSET Nat /\ \A y \in Later(P) : y < i
    BY OneMoreWord DEF it
  <2>5. /\ was \in SUBSET Nat /\ Later(was) \in SUBSET Nat
        /\ Later(Later(was)) \in SUBSET Nat
        /\ \A y \in Later(was) : y < i
        /\ \A y \in Later(Later(was)) : y < i
    BY <1>2, <2>2, <2>4
  <2>6. CASE was = {}
    BY <1>3, <2>1, <2>2, <2>3, <2>4, <2>5, <2>6
  <2>7. CASE was # {} /\ Later(was) = {}
    BY <1>3, <2>1, <2>2, <2>3, <2>4, <2>5, <2>7
  <2>8. CASE was # {} /\ Later(was) # {} /\ Later(Later(was)) = {}
    BY <1>3, <2>1, <2>2, <2>3, <2>4, <2>5, <2>8
  <2>9. QED
    BY <1>3, <2>3, <2>6, <2>7, <2>8
<1>6. CASE \E i \in Nat : WordFrom(s, i, e)
  <2> HIDE DEF now, was, e
  <2>1. QED
    BY <1>3, <1>5, <1>6 DEF now, was, e
<1>7. QED
  BY <1>1, <1>4, <1>6

LEMMA SameWord ==
  ASSUME NEW s, NEW B, B \subseteq Nat, NEW A, Begins(A, B), A # {}
  PROVE  FirstWord(s, A) = FirstWord(s, B)
<1>1. Min(A) = Min(B)
  BY BeginsSame
<1>2. B # {}
  BY DEF Begins
<1>3. QED
  BY <1>1, <1>2 DEF FirstWord

LEMMA WordsNotEmpty ==
  ASSUME NEW s \in Seq(STRING), NEW P, P \subseteq Starts(s), P # {}
  PROVE  FirstWord(s, P) # <<>>
<1> DEFINE i == Min(P)
           e == Stop(s, i, Space)
<1>1. P \subseteq Nat
  BY DEF Starts
<1>2. i \in P
  BY <1>1, MinOfNaturals
<1>3. i \in 1..Len(s) /\ s[i] \notin Space
  BY <1>2 DEF Starts, isspace
<1> HIDE DEF i
<1>4. /\ e \in Nat /\ e <= Len(s) + 1 /\ (i <= Len(s) + 1 => i <= e)
      /\ e <= Len(s) => s[e] \in Space
  BY <1>3, StopIs
<1> HIDE DEF e
<1>5. i < e
  BY <1>3, <1>4
<1>6. Len(SubSeq(s, i, e - 1)) = e - i /\ e - i # 0
  BY <1>3, <1>4, <1>5
<1>7. FirstWord(s, P) = SubSeq(s, i, e - 1)
  BY DEF FirstWord, i, e
<1>8. Len(<<>>) = 0
  OBVIOUS
<1>9. QED
  BY <1>6, <1>7, <1>8

(* The words of the first line and the words up to a place are both the    *)
(* beginning of the words of the text, so one is the beginning of the      *)
(* other.                                                                  *)
LEMMA FirstLine ==
  ASSUME NEW s \in Seq(STRING), NEW place \in Nat, place <= Len(s)
  PROVE  LET line == WordStarts(s)
             here == Passed(s, place)
             stop == Stop(s, 1, {"NL"})
         IN /\ line \subseteq Nat /\ here \subseteq Nat /\ Starts(s) \subseteq Nat
            /\ line = {i \in Starts(s) : i < stop}
            /\ here \subseteq Starts(s) /\ line \subseteq Starts(s)
            /\ Begins(line, Starts(s)) /\ Begins(here, Starts(s))
            /\ NoNewLine(s, place) => place < stop /\ Begins(here, line)
            /\ ~NoNewLine(s, place) => stop <= place /\ Begins(line, here)
<1> DEFINE line == WordStarts(s)
           here == Passed(s, place)
           stop == Stop(s, 1, {"NL"})
<1>1. /\ stop \in Nat /\ stop <= Len(s) + 1 /\ 1 <= stop
      /\ stop <= Len(s) => s[stop] = "NL"
      /\ \A j \in 1..Len(s) : j < stop => s[j] # "NL"
  <2> DEFINE chars == {"NL"}
             e == Stop(s, 1, chars)
  <2>1. Len(s) \in Nat /\ 1 \in Nat \ {0}
    OBVIOUS
  <2> HIDE DEF chars
  <2>2. /\ e \in Nat /\ e <= Len(s) + 1 /\ (1 <= Len(s) + 1 => 1 <= e)
        /\ e <= Len(s) => s[e] \in chars
        /\ \A j \in 1..Len(s) : j < e => s[j] \notin chars
    BY <2>1, StopIs
  <2>3. QED
    BY <2>1, <2>2 DEF chars
<1>2. line = {i \in Starts(s) : i < stop}
  <2> HIDE DEF stop
  <2>1. line = {i \in 1..(stop - 1) : ~isspace(s[i]) /\ (i = 1 \/ isspace(s[i - 1]))}
    BY DEF WordStarts, stop
  <2>2. \A i : i \in 1..(stop - 1) <=> i \in 1..Len(s) /\ i < stop
    BY <1>1
  <2>3. QED
    BY <2>1, <2>2 DEF Starts
<1> HIDE DEF stop, line
<1>3. Starts(s) \subseteq Nat /\ here = {i \in Starts(s) : i <= place}
  BY DEF Starts, Passed
<1> HIDE DEF here
<1>4. Begins(line, Starts(s)) /\ Begins(here, Starts(s))
  BY <1>1, <1>2, <1>3 DEF Begins
<1>5. NoNewLine(s, place) => place < stop /\ Begins(here, line)
  <2> SUFFICES ASSUME NoNewLine(s, place) PROVE place < stop /\ Begins(here, line)
    OBVIOUS
  <2>1. place < stop
    <3>1. SUFFICES ASSUME stop <= place PROVE FALSE
      BY <1>1
    <3>2. stop \in 1..place /\ stop <= Len(s)
      BY <1>1, <3>1
    <3>3. QED
      BY <1>1, <3>2 DEF NoNewLine
  <2>2. QED
    BY <1>1, <1>2, <1>3, <2>1 DEF Begins
<1>6. ~NoNewLine(s, place) => stop <= place /\ Begins(line, here)
  <2> SUFFICES ASSUME ~NoNewLine(s, place) PROVE stop <= place /\ Begins(line, here)
    OBVIOUS
  <2>1. PICK j \in 1..place : s[j] = "NL"
    BY DEF NoNewLine
  <2>2. stop <= place
    <3>1. ~(j < stop)
      BY <1>1, <2>1
    <3>2. QED
      BY <1>1, <3>1
  <2>3. QED
    BY <1>1, <1>2, <1>3, <2>2 DEF Begins
<1>7. QED
  BY <1>2, <1>3, <1>4, <1>5, <1>6 DEF stop, line, here, Begins

-----------------------------------------------------------------------------
(* The lines after the first up to a place.                                *)
Before(s, place) == {h \in LineStarts(s) \ {1} : h <= place}

LEMMA NoHeaders == \A s : HeadersAt(s, {}) = <<>>
<1> SUFFICES ASSUME NEW s PROVE HeadersAt(s, {}) = <<>>
  OBVIOUS
<1>1. {Name(LineAt(s, i)) : i \in {}} = {}
  OBVIOUS
<1>2. QED
  BY <1>1 DEF HeadersAt

(* The last line of a name counts.                                         *)
LEMMA OneMoreHeader ==
  ASSUME NEW s, NEW S, S \subseteq Nat, NEW i \in Nat, \A h \in S : h < i
  PROVE  HeadersAt(s, S \cup {i})
           = Put(HeadersAt(s, S), Name(LineAt(s, i)), Value(LineAt(s, i)))
<1> DEFINE name(h) == Name(LineAt(s, h))
           At(n, S1) == Value(LineAt(s, Max({h \in S1 : name(h) = n})))
           all   == {name(h) : h \in S \cup {i}}
           some  == {name(h) : h \in S}
<1>1. all = some \cup {name(i)}
  OBVIOUS
<1>2. At(name(i), S \cup {i}) = Value(LineAt(s, i))
  <2>1. Max({h \in S \cup {i} : name(h) = name(i)}) = i
    <3> DEFINE those == {h \in S \cup {i} : name(h) = name(i)}
    <3> HIDE DEF name
    <3>1. \A h \in S \cup {i} : h \in Nat /\ h <= i
      OBVIOUS
    <3>2. those \subseteq S \cup {i} /\ i \in those
      OBVIOUS
    <3> HIDE DEF those
    <3>3. those \subseteq Nat /\ \A h \in those : h <= i
      BY <3>1, <3>2
    <3>4. QED
      BY <3>2, <3>3, MaxIs DEF those
  <2>2. QED
    BY <2>1
<1>3. ASSUME NEW n, n # name(i) PROVE At(n, S \cup {i}) = At(n, S)
  <2>1. {h \in S \cup {i} : name(h) = n} = {h \in S : name(h) = n}
    BY <1>3
  <2>2. QED
    BY <2>1
<1>4. /\ HeadersAt(s, S \cup {i}) = [n \in all |-> At(n, S \cup {i})]
      /\ HeadersAt(s, S) = [n \in some |-> At(n, S)]
  BY DEF HeadersAt
<1> DEFINE old == HeadersAt(s, S)
<1>5. DOMAIN old = some /\ \A n \in some : old[n] = At(n, S)
  BY <1>4
<1>6. Put(old, name(i), Value(LineAt(s, i)))
        = [n \in some \cup {name(i)} |->
             IF n = name(i) THEN Value(LineAt(s, i)) ELSE old[n]]
  BY <1>5 DEF Put
<1> HIDE DEF At, all, some, old, name
<1>7. ASSUME NEW n \in all
      PROVE  At(n, S \cup {i})
               = IF n = name(i) THEN Value(LineAt(s, i)) ELSE old[n]
  BY <1>1, <1>2, <1>3, <1>5
<1>8. HeadersAt(s, S \cup {i}) = Put(old, name(i), Value(LineAt(s, i)))
  BY <1>1, <1>4, <1>6, <1>7
<1>9. QED
  BY <1>8 DEF old, name

(* A line loses a carriage return at most.                                 *)
LEMMA StripIs ==
  ASSUME NEW line \in Seq(STRING)
  PROVE  /\ StripCR(line) \in Seq(STRING) /\ Len(StripCR(line)) <= Len(line)
         /\ \A i \in 1..Len(StripCR(line)) : StripCR(line)[i] = line[i]
         /\ \A i \in (Len(StripCR(line)) + 1)..Len(line) : line[i] = "CR"
<1>1. Len(line) \in Nat
  OBVIOUS
<1>2. CASE line # <<>> /\ Last(line) = "CR"
  <2>1. StripCR(line) = SubSeq(line, 1, Len(line) - 1) /\ line[Len(line)] = "CR"
    BY <1>2 DEF StripCR, Last, Front
  <2>2. Len(line) > 0
    BY <1>2
  <2> DEFINE short == SubSeq(line, 1, Len(line) - 1)
  <2>3. /\ short \in Seq(STRING) /\ Len(short) = Len(line) - 1
        /\ \A i \in 1..(Len(line) - 1) : short[i] = line[i]
    <3> DEFINE n == Len(line) - 1
    <3>1. n \in Nat /\ n <= Len(line)
      BY <1>1, <2>2
    <3> HIDE DEF n
    <3>2. /\ SubSeq(line, 1, n) \in Seq(STRING) /\ Len(SubSeq(line, 1, n)) = n
          /\ \A i \in 1..n : SubSeq(line, 1, n)[i] = line[i]
      BY <1>1, <3>1
    <3>3. QED
      BY <3>2 DEF n
  <2> HIDE DEF short
  <2>4. \A i \in (Len(short) + 1)..Len(line) : i = Len(line)
    BY <1>1, <2>3
  <2>5. StripCR(line) = short
    BY <2>1 DEF short
  <2>6. QED
    BY <1>1, <2>1, <2>3, <2>4, <2>5
<1>3. CASE ~(line # <<>> /\ Last(line) = "CR")
  <2>1. StripCR(line) = line
    BY <1>3 DEF StripCR
  <2>2. \A i \in (Len(line) + 1)..Len(line) : FALSE
    BY <1>1
  <2>3. QED
    BY <1>1, <2>1, <2>2
<1>4. QED
  BY <1>2, <1>3

LEMMA NoColon ==
  ASSUME NEW line \in Seq(STRING), \A i \in 1..Len(line) : line[i] # ":"
  PROVE  Colon(line) = 0
<1>1. {i \in 1..Len(line) : line[i] = ":"} = {}
  OBVIOUS
<1>2. QED
  BY <1>1 DEF Colon, SelectInSeq

(* What is blank behind a place.                                           *)
LEMMA BlankRest ==
  ASSUME NEW s \in Seq(STRING), NEW place \in Nat
  PROVE  LET rest == SubSeq(s, place + 1, Len(s))
         IN /\ (\A i \in DOMAIN rest : isspace(rest[i])) <=> BlankFrom(s, place)
            /\ place >= Len(s) => rest = <<>>
<1> DEFINE rest == SubSeq(s, place + 1, Len(s))
<1>1. place >= Len(s) => rest = <<>>
  OBVIOUS
<1>2. CASE place >= Len(s)
  <2>1. DOMAIN rest = {} /\ (place + 1)..Len(s) = {}
    BY <1>1, <1>2
  <2>2. QED
    BY <1>1, <2>1 DEF BlankFrom
<1>3. CASE place < Len(s)
  <2>1. /\ DOMAIN rest = 1..(Len(s) - place)
        /\ \A i \in 1..(Len(s) - place) : rest[i] = s[place + i]
    BY <1>3
  <2> HIDE DEF rest
  <2>2. ASSUME BlankFrom(s, place), NEW i \in DOMAIN rest PROVE isspace(rest[i])
    <3>1. place + i \in (place + 1)..Len(s) /\ rest[i] = s[place + i]
      BY <2>1
    <3>2. QED
      BY <2>2, <3>1 DEF BlankFrom
  <2>3. ASSUME \A i \in DOMAIN rest : isspace(rest[i]), NEW j \in (place + 1)..Len(s)
        PROVE  isspace(s[j])
    <3>1. j - place \in DOMAIN rest /\ place + (j - place) = j
      BY <2>1
    <3>2. QED
      BY <2>1, <2>3, <3>1
  <2>4. (\A i \in DOMAIN rest : isspace(rest[i])) <=> BlankFrom(s, place)
    BY <2>2, <2>3 DEF BlankFrom
  <2>5. QED
    BY <1>3, <2>4 DEF rest
<1>4. QED
  BY <1>2, <1>3

(* At the beginning of a line that is not the first, or past the end.      *)
AtLine(s, place) == place >= 1 /\ (place <= Len(s) => s[place] = "NL")

(* Each of these lines begins behind a newline.                            *)
LEMMA LineStartsAre ==
  ASSUME NEW s \in Seq(STRING)
  PROVE  \A h : h \in LineStarts(s) \ {1}
                 <=> h \in Nat /\ h - 1 \in 1..Len(s) /\ s[h - 1] = "NL"
<1>1. Len(s) \in Nat
  OBVIOUS
<1>2. ASSUME NEW h, h \in LineStarts(s) \ {1}
      PROVE  h \in Nat /\ h - 1 \in 1..Len(s) /\ s[h - 1] = "NL"
  <2>1. PICK j \in 1..Len(s) : s[j] = "NL" /\ h = j + 1
    BY <1>2 DEF LineStarts
  <2>2. h - 1 = j /\ h \in Nat
    BY <2>1
  <2>3. QED
    BY <2>1, <2>2
<1>3. ASSUME NEW h, h \in Nat, h - 1 \in 1..Len(s), s[h - 1] = "NL"
      PROVE  h \in LineStarts(s) \ {1}
  <2>1. (h - 1) + 1 = h /\ h # 1
    BY <1>3
  <2>2. h - 1 \in {i \in 1..Len(s) : s[i] = "NL"}
    BY <1>3
  <2>3. QED
    BY <2>1, <2>2 DEF LineStarts
<1>4. QED
  BY <1>2, <1>3

(* The next of these lines.                                                *)
LEMMA NextLine ==
  ASSUME NEW s \in Seq(STRING), NEW place \in Nat, AtLine(s, place), place <= Len(s)
  PROVE  LET e == Stop(s, place + 1, {"NL"})
         IN /\ e \in Nat /\ place < e /\ e <= Len(s) + 1 /\ AtLine(s, e)
            /\ place + 1 \in LineStarts(s) \ {1}
            /\ Before(s, place) \subseteq Nat /\ \A h \in Before(s, place) : h < place + 1
            /\ Before(s, e) = Before(s, place) \cup {place + 1}
<1> DEFINE chars == {"NL"}
           e     == Stop(s, place + 1, chars)
           L     == LineStarts(s) \ {1}
<1>1. Len(s) \in Nat /\ place >= 1 /\ s[place] = "NL" /\ place + 1 \in Nat \ {0}
  BY DEF AtLine
<1>2. /\ e \in Nat /\ e <= Len(s) + 1 /\ place + 1 <= e
      /\ e <= Len(s) => s[e] = "NL"
      /\ \A j \in (place + 1)..Len(s) : j < e => s[j] # "NL"
  <2> HIDE DEF chars
  <2>1. /\ e \in Nat /\ e <= Len(s) + 1 /\ (place + 1 <= Len(s) + 1 => place + 1 <= e)
        /\ e <= Len(s) => s[e] \in chars
        /\ \A j \in (place + 1)..Len(s) : j < e => s[j] \notin chars
    BY <1>1, StopIs
  <2>2. QED
    BY <1>1, <2>1 DEF chars
<1> HIDE DEF e
<1>3. \A h : h \in L <=> h \in Nat /\ h - 1 \in 1..Len(s) /\ s[h - 1] = "NL"
  BY LineStartsAre
<1> HIDE DEF L
<1>4. place + 1 \in L
  <2>1. (place + 1) - 1 = place /\ place \in 1..Len(s)
    BY <1>1
  <2>2. QED
    BY <1>1, <1>3, <2>1
<1>5. Before(s, e) = Before(s, place) \cup {place + 1}
  <2>1. ASSUME NEW h \in L, h <= e PROVE h <= place + 1
    <3>1. h \in Nat /\ h - 1 \in 1..Len(s) /\ s[h - 1] = "NL"
      BY <1>3
    <3>2. ~(h - 1 \in (place + 1)..Len(s) /\ h - 1 < e)
      BY <1>2, <3>1
    <3>3. QED
      BY <1>1, <1>2, <2>1, <3>1, <3>2
  <2>2. \A h \in L : h \in Nat
    BY <1>3
  <2>3. \A h \in L : h <= e <=> h <= place \/ h = place + 1
    BY <1>2, <2>1, <2>2
  <2>4. Before(s, e) = {h \in L : h <= e} /\ Before(s, place) = {h \in L : h <= place}
    BY DEF Before, L
  <2>5. QED
    BY <1>4, <2>3, <2>4
<1>6. Before(s, place) \subseteq Nat /\ \A h \in Before(s, place) : h < place + 1
  <2>1. Before(s, place) = {h \in L : h <= place}
    BY DEF Before, L
  <2>2. \A h \in L : h \in Nat
    BY <1>3
  <2>3. QED
    BY <2>1, <2>2
<1>7. AtLine(s, e)
  BY <1>2 DEF AtLine
<1>8. QED
  BY <1>2, <1>4, <1>5, <1>6, <1>7 DEF e, L

(* The first line without a colon ends the headers, and what comes behind  *)
(* it is the body.                                                         *)
LEMMA HeadersEnd ==
  ASSUME NEW s \in Seq(STRING), NEW place \in Nat, AtLine(s, place), place <= Len(s),
         \A h \in Before(s, place) : Colon(LineAt(s, h)) # 0,
         Colon(LineAt(s, place + 1)) = 0
  PROVE  LET e == Stop(s, place + 1, {"NL"})
         IN /\ HeaderStarts(s) = Before(s, place)
            /\ BodyOf(s) = IF BlankFrom(s, e) THEN <<>> ELSE SubSeq(s, e + 1, Len(s))
<1> DEFINE e == Stop(s, place + 1, {"NL"})
           L == LineStarts(s) \ {1}
<1>1. /\ e \in Nat /\ place + 1 \in L
      /\ Before(s, place) \subseteq Nat /\ \A h \in Before(s, place) : h < place + 1
  BY NextLine
<1> HIDE DEF e
<1>2. L \subseteq Nat
  BY LineStartsAre
<1>3. Before(s, place) = {h \in L : h <= place}
  BY DEF Before
<1>4. HeaderStarts(s) = {i \in L : \A h \in L : h <= i => Colon(LineAt(s, h)) # 0}
  BY DEF HeaderStarts
<1> HIDE DEF L
<1>5. HeaderStarts(s) = Before(s, place)
  <2>1. ASSUME NEW i \in L, i <= place, NEW h \in L, h <= i
        PROVE  Colon(LineAt(s, h)) # 0
    <3>1. h \in Before(s, place)
      BY <1>2, <1>3, <2>1
    <3>2. QED
      BY <3>1
  <2>2. ASSUME NEW i \in L, ~(i <= place) PROVE i \notin HeaderStarts(s)
    <3>1. place + 1 <= i
      BY <1>2, <2>2
    <3>2. QED
      BY <1>1, <1>4, <3>1
  <2>3. QED
    BY <1>3, <1>4, <2>1, <2>2
<1>6. LineStarts(s) \ ({1} \cup HeaderStarts(s)) = {h \in L : ~(h <= place)}
  BY <1>3, <1>5 DEF L
<1> DEFINE others == {h \in L : ~(h <= place)}
<1>7. others # {} /\ Min(others) = place + 1
  <2>1. \A h \in Nat : ~(h <= place) <=> place + 1 <= h
    OBVIOUS
  <2>2. others \subseteq Nat /\ place + 1 \in others /\ \A h \in others : place + 1 <= h
    <3>1. place + 1 \in others
      <4>1. ~(place + 1 <= place)
        OBVIOUS
      <4>2. QED
        BY <1>1, <4>1
    <3>2. others \subseteq Nat
      BY <1>2
    <3>3. ASSUME NEW h \in others PROVE place + 1 <= h
      BY <2>1, <3>2
    <3>4. QED
      BY <3>1, <3>2, <3>3
  <2> HIDE DEF others
  <2>3. QED
    BY <2>2, MinIs
<1> HIDE DEF others
<1> DEFINE rest == SubSeq(s, e + 1, Len(s))
<1>8. BodyOf(s) = IF \A i \in DOMAIN rest : isspace(rest[i]) THEN <<>> ELSE rest
  BY <1>6, <1>7 DEF BodyOf, others, e
<1>9. (\A i \in DOMAIN rest : isspace(rest[i])) <=> BlankFrom(s, e)
  BY <1>1, BlankRest
<1> HIDE DEF rest
<1>10. BodyOf(s) = IF BlankFrom(s, e) THEN <<>> ELSE rest
  BY <1>8, <1>9
<1>11. QED
  BY <1>5, <1>10 DEF e, rest

(* If nothing but white space follows, there are no more headers and there *)
(* is no body.                                                             *)
LEMMA OnlyBlank ==
  ASSUME NEW s \in Seq(STRING), NEW place \in Nat, AtLine(s, place), BlankFrom(s, place),
         \A h \in Before(s, place) : Colon(LineAt(s, h)) # 0
  PROVE  HeaderStarts(s) = Before(s, place) /\ BodyOf(s) = <<>>
<1>1. CASE place <= Len(s)
  <2> DEFINE e    == Stop(s, place + 1, {"NL"})
             line == SubSeq(s, place + 1, e - 1)
  <2>1. e \in Nat /\ place < e /\ e <= Len(s) + 1
    BY <1>1, NextLine
  <2> HIDE DEF e
  <2>2. /\ line \in Seq(STRING)
        /\ \A i \in 1..Len(line) : line[i] = s[place + i] /\ place + i \in (place + 1)..Len(s)
    BY <2>1
  <2> HIDE DEF line
  <2>3. \A i \in 1..Len(line) : isspace(line[i])
    BY <2>2 DEF BlankFrom
  <2>4. \A c : isspace(c) => c # ":"
    BY DEF isspace, Space
  <2>5. LineAt(s, place + 1) = StripCR(line)
    BY DEF LineAt, line, e
  <2>6. Colon(StripCR(line)) = 0
    <3>1. /\ StripCR(line) \in Seq(STRING) /\ Len(StripCR(line)) <= Len(line)
          /\ \A i \in 1..Len(StripCR(line)) : StripCR(line)[i] = line[i]
      BY <2>2, StripIs
    <3>2. Len(line) \in Nat /\ Len(StripCR(line)) \in Nat
      BY <2>2, <3>1
    <3>3. \A i \in 1..Len(StripCR(line)) : StripCR(line)[i] # ":"
      BY <2>3, <2>4, <3>1, <3>2
    <3>4. QED
      BY <3>1, <3>3, NoColon
  <2>7. /\ HeaderStarts(s) = Before(s, place)
        /\ BodyOf(s) = IF BlankFrom(s, e) THEN <<>> ELSE SubSeq(s, e + 1, Len(s))
    BY <1>1, <2>5, <2>6, HeadersEnd DEF e
  <2>8. BlankFrom(s, e)
    BY <2>1 DEF BlankFrom
  <2>9. QED
    BY <2>7, <2>8
<1>2. CASE place > Len(s)
  <2> DEFINE L == LineStarts(s) \ {1}
  <2>1. \A h \in L : h \in Nat /\ h <= place
    BY <1>2, LineStartsAre
  <2> HIDE DEF L
  <2>2. Before(s, place) = L
    BY <2>1 DEF Before, L
  <2>3. HeaderStarts(s) = L
    BY <2>2 DEF HeaderStarts, L
  <2>4. LineStarts(s) \ ({1} \cup HeaderStarts(s)) = {}
    BY <2>3 DEF L
  <2>5. DOMAIN <<>> = {}
    OBVIOUS
  <2>6. BodyOf(s) = <<>>
    BY <2>4, <2>5 DEF BodyOf
  <2>7. QED
    BY <2>2, <2>3, <2>6
<1>3. QED
  BY <1>1, <1>2

(* The first of these lines begins where the first line ends.              *)
LEMMA FirstHeader ==
  ASSUME NEW s \in Seq(STRING)
  PROVE  LET n == Stop(s, 1, {"NL"})
         IN n \in Nat /\ AtLine(s, n) /\ Before(s, n) = {}
<1> DEFINE chars == {"NL"}
           n     == Stop(s, 1, chars)
<1>1. Len(s) \in Nat /\ 1 \in Nat \ {0}
  OBVIOUS
<1>2. /\ n \in Nat /\ 1 <= n
      /\ n <= Len(s) => s[n] = "NL"
      /\ \A j \in 1..Len(s) : j < n => s[j] # "NL"
  <2> HIDE DEF chars
  <2>1. /\ n \in Nat /\ (1 <= Len(s) + 1 => 1 <= n)
        /\ n <= Len(s) => s[n] \in chars
        /\ \A j \in 1..Len(s) : j < n => s[j] \notin chars
    BY <1>1, StopIs
  <2>2. QED
    BY <1>1, <2>1 DEF chars
<1> HIDE DEF n
<1>3. ASSUME NEW h \in LineStarts(s) \ {1} PROVE ~(h <= n)
  <2>1. h \in Nat /\ h - 1 \in 1..Len(s) /\ s[h - 1] = "NL"
    BY LineStartsAre
  <2>2. ~(h - 1 < n)
    BY <1>2, <2>1
  <2>3. QED
    BY <1>2, <2>1, <2>2
<1>4. Before(s, n) = {}
  BY <1>3 DEF Before
<1>5. QED
  BY <1>2, <1>4 DEF n, AtLine

(* If no more words follow, all of them have been passed.                  *)
LEMMA AllPassed ==
  ASSUME NEW s \in Seq(STRING), NEW place \in Nat, BlankFrom(s, place)
  PROVE  Passed(s, place) = Starts(s)
<1>1. ASSUME NEW i \in Starts(s) PROVE i <= place
  <2>1. i \in 1..Len(s) /\ ~isspace(s[i])
    BY DEF Starts
  <2>2. ~(i \in (place + 1)..Len(s))
    BY <2>1 DEF BlankFrom
  <2>3. QED
    BY <2>1, <2>2
<1>2. QED
  BY <1>1 DEF Passed

(* Less has no more that comes later.                                      *)
LEMMA LaterGrows ==
  ASSUME NEW B, NEW A, A \subseteq B
  PROVE  /\ Later(A) \subseteq Later(B)
         /\ Later(Later(A)) \subseteq Later(Later(B))
         /\ Later(Later(Later(A))) \subseteq Later(Later(Later(B)))
<1>1. \A C, D : C \subseteq D => Later(C) \subseteq Later(D)
  BY DEF Later
<1>2. QED
  BY <1>1

(* Two beginnings of the words of a text agree on the second word.         *)
LEMMA SecondWord ==
  ASSUME NEW s, NEW C, C \subseteq Nat, NEW A, NEW B, Begins(A, C), Begins(B, C),
         Later(A) # {}, Later(B) # {}
  PROVE  FirstWord(s, Later(A)) = FirstWord(s, Later(B))
<1>1. Begins(Later(A), Later(C)) /\ Begins(Later(B), Later(C)) /\ Later(C) \subseteq Nat
  BY BeginsSame
<1>2. QED
  BY <1>1, SameWord

(* What is left of the first line is blank or has another word.            *)
LEMMA EndOfFirstLine ==
  ASSUME NEW s \in Seq(STRING), NEW place \in Nat, place <= Len(s), NoNewLine(s, place)
  PROVE  Stop(s, place + 1, {"NL"}) = Stop(s, 1, {"NL"})
<1> DEFINE chars == {"NL"}
           n     == Stop(s, place + 1, chars)
<1>1. Len(s) \in Nat /\ 1 \in Nat \ {0} /\ place + 1 \in Nat \ {0}
  OBVIOUS
<1>2. \A j \in 1..place : s[j] \notin chars
  BY DEF NoNewLine
<1> HIDE DEF chars
<1>3. /\ n \in Nat /\ n <= Len(s) + 1 /\ (place + 1 <= Len(s) + 1 => place + 1 <= n)
      /\ n <= Len(s) => s[n] \in chars
      /\ \A j \in (place + 1)..Len(s) : j < n => s[j] \notin chars
  BY <1>1, StopIs
<1> HIDE DEF n
<1>4. n \in 1..(Len(s) + 1)
  BY <1>1, <1>3
<1>5. ASSUME NEW j \in 1..Len(s), j < n PROVE s[j] \notin chars
  <2>1. CASE j <= place
    BY <1>2, <2>1
  <2>2. CASE ~(j <= place)
    <3>1. j \in (place + 1)..Len(s)
      BY <2>2
    <3>2. QED
      BY <1>3, <1>5, <3>1
  <2>3. QED
    BY <2>1, <2>2
<1>6. Stop(s, 1, chars) = n
  BY <1>1, <1>3, <1>4, <1>5, StopThere
<1>7. QED
  BY <1>6 DEF n, chars

LEMMA RestOfFirstLine ==
  ASSUME NEW s \in Seq(STRING), NEW place \in Nat, place <= Len(s),
         AtWordEnd(s, place), NoNewLine(s, place)
  PROVE  LET rest  == StripCR(SubSeq(s, place + 1, Stop(s, place + 1, {"NL"}) - 1))
             blank == \A i \in DOMAIN rest : isspace(rest[i])
         IN /\ blank => WordStarts(s) = Passed(s, place)
            /\ ~blank => \E j \in WordStarts(s) : j > place
<1> DEFINE n    == Stop(s, 1, {"NL"})
           line == SubSeq(s, place + 1, n - 1)
           rest == StripCR(line)
<1>1. Stop(s, place + 1, {"NL"}) = n
  BY EndOfFirstLine
<1>2. n \in Nat /\ n <= Len(s) + 1 /\ Len(s) \in Nat
  BY StopIs
<1>3. /\ WordStarts(s) = {i \in Starts(s) : i < n} /\ place < n
      /\ Begins(Passed(s, place), WordStarts(s))
  BY FirstLine
<1> HIDE DEF n
<1>4. /\ line \in Seq(STRING) /\ Len(line) = n - 1 - place
      /\ \A i \in 1..Len(line) : line[i] = s[place + i]
  BY <1>2, <1>3
<1> HIDE DEF line
<1>5. /\ rest \in Seq(STRING) /\ Len(rest) <= Len(line) /\ Len(rest) \in Nat
      /\ \A i \in 1..Len(rest) : rest[i] = line[i]
      /\ \A i \in (Len(rest) + 1)..Len(line) : line[i] = "CR"
  BY <1>4, StripIs
<1> HIDE DEF rest
<1>6. ASSUME \A i \in DOMAIN rest : isspace(rest[i]) PROVE WordStarts(s) = Passed(s, place)
  <2>1. ASSUME NEW i \in 1..Len(line) PROVE isspace(line[i])
    <3>1. CASE i <= Len(rest)
      <4>1. i \in 1..Len(rest) /\ i \in DOMAIN rest
        BY <1>5, <3>1
      <4>2. QED
        BY <1>5, <1>6, <4>1
    <3>2. CASE ~(i <= Len(rest))
      <4>1. i \in (Len(rest) + 1)..Len(line)
        BY <1>4, <1>5, <3>2
      <4>2. QED
        BY <1>5, <4>1 DEF isspace, Space
    <3>3. QED
      BY <3>1, <3>2
  <2>2. ASSUME NEW i \in WordStarts(s) PROVE i <= place
    <3>1. i \in Nat /\ ~isspace(s[i]) /\ i < n
      BY <1>3 DEF Starts
    <3>2. SUFFICES ASSUME place < i PROVE FALSE
      BY <3>1
    <3>3. i - place \in 1..Len(line) /\ place + (i - place) = i
      BY <1>2, <1>4, <3>1, <3>2
    <3>4. line[i - place] = s[i]
      BY <1>4, <3>3
    <3>5. QED
      BY <2>1, <3>1, <3>3, <3>4
  <2>3. QED
    BY <1>3, <2>2 DEF Begins, Passed
<1>7. ASSUME NEW k \in DOMAIN rest, ~isspace(rest[k])
      PROVE  \E j \in WordStarts(s) : j > place
  <2> DEFINE dark == {j \in 1..Len(s) : place < j /\ j < n /\ ~isspace(s[j])}
             j    == Min(dark)
  <2>1. k \in 1..Len(line) /\ rest[k] = s[place + k]
    BY <1>4, <1>5
  <2>2. place + k \in dark
    BY <1>2, <1>4, <1>7, <2>1
  <2>3. j \in dark /\ \A i \in dark : j <= i
    <3>1. dark \subseteq Nat /\ dark # {}
      BY <2>2
    <3> HIDE DEF dark
    <3>2. QED
      BY <3>1, MinOfNaturals
  <2>4. j \in 1..Len(s) /\ place < j /\ j < n /\ ~isspace(s[j])
    BY <2>3
  <2>5. ASSUME NEW i \in (place + 1)..(j - 1) PROVE isspace(s[i])
    <3> HIDE DEF j
    <3>1. i \in 1..Len(s) /\ place < i /\ i < n /\ i < j
      BY <1>2, <2>4
    <3>2. i \notin dark
      <4> HIDE DEF dark
      <4>1. QED
        BY <2>3, <2>4, <3>1
    <3>3. QED
      BY <3>1, <3>2
  <2> HIDE DEF j, dark
  <2> DEFINE q == j - 1
  <2>6. q \in Nat /\ place <= q /\ q < Len(s) /\ q + 1 = j
    BY <2>4
  <2>7. \A i \in (place + 1)..q : isspace(s[i])
    BY <2>5
  <2>8. ~isspace(s[q + 1])
    BY <2>4, <2>6
  <2> HIDE DEF q
  <2>9. q + 1 \in Starts(s)
    BY <2>6, <2>7, <2>8, NewStart
  <2>10. QED
    BY <1>3, <2>4, <2>6, <2>9
<1>8. QED
  <2>1. (\A i \in DOMAIN rest : isspace(rest[i])) => WordStarts(s) = Passed(s, place)
    BY <1>6
  <2>2. ~(\A i \in DOMAIN rest : isspace(rest[i])) => \E j \in WordStarts(s) : j > place
    BY <1>7
  <2>3. QED
    BY <1>1, <2>1, <2>2 DEF rest, line

-----------------------------------------------------------------------------
(* A text that was cut: whatever was complete in it is what it was.        *)
Cut(s, t) == /\ s \in Seq(STRING) /\ t \in Seq(STRING) /\ Len(s) <= Len(t)
             /\ \A i \in 1..Len(s) : s[i] = t[i]

LEMMA SameStop ==
  ASSUME NEW s, NEW t, Cut(s, t), NEW i \in Nat \ {0}, NEW chars,
         Stop(s, i, chars) <= Len(s)
  PROVE  LET e == Stop(s, i, chars)
         IN /\ e \in Nat /\ i <= e /\ Stop(t, i, chars) = e
            /\ SubSeq(s, i, e - 1) = SubSeq(t, i, e - 1)
<1> DEFINE e == Stop(s, i, chars)
<1>1. /\ s \in Seq(STRING) /\ t \in Seq(STRING) /\ Len(s) \in Nat /\ Len(t) \in Nat
      /\ Len(s) <= Len(t) /\ \A k \in 1..Len(s) : s[k] = t[k]
  BY DEF Cut
<1>2. /\ e \in Nat /\ i <= e /\ s[e] \in chars
      /\ \A j \in i..Len(s) : j < e => s[j] \notin chars
  BY <1>1, StopIs
<1> HIDE DEF e
<1>3. e <= Len(s)
  BY DEF e
<1>4. t[e] \in chars /\ e \in i..(Len(t) + 1)
  BY <1>1, <1>2, <1>3
<1>5. ASSUME NEW j \in i..Len(t), j < e PROVE t[j] \notin chars
  <2>1. j \in i..Len(s) /\ j \in 1..Len(s)
    BY <1>1, <1>2, <1>3, <1>5
  <2>2. QED
    BY <1>1, <1>2, <1>5, <2>1
<1>6. Stop(t, i, chars) = e
  BY <1>1, <1>4, <1>5, StopThere
<1>7. SubSeq(s, i, e - 1) = SubSeq(t, i, e - 1)
  <2> DEFINE d == e - 1
  <2>1. d \in Nat /\ d <= Len(s) /\ i - 1 <= d
    BY <1>2, <1>3
  <2> HIDE DEF d
  <2> DEFINE a == SubSeq(s, i, d)
             b == SubSeq(t, i, d)
  <2>2. /\ a \in Seq(STRING) /\ Len(a) = d - i + 1
        /\ \A k \in 1..(d - i + 1) : a[k] = s[i + k - 1]
    BY <1>1, <2>1
  <2>3. /\ b \in Seq(STRING) /\ Len(b) = d - i + 1
        /\ \A k \in 1..(d - i + 1) : b[k] = t[i + k - 1]
    BY <1>1, <2>1
  <2>4. ASSUME NEW k \in 1..(d - i + 1) PROVE a[k] = b[k]
    <3>1. i + k - 1 \in 1..Len(s)
      BY <1>1, <2>1
    <3>2. QED
      BY <1>1, <2>2, <2>3, <3>1
  <2> HIDE DEF a, b
  <2>5. a = b
    BY <2>2, <2>3, <2>4
  <2>6. QED
    BY <2>5 DEF a, b, d
<1>8. QED
  BY <1>2, <1>6, <1>7 DEF e

(* If the first line has ended, its words are what they were.              *)
LEMMA SameLine ==
  ASSUME NEW s, NEW t, Cut(s, t), Stop(s, 1, {"NL"}) <= Len(s)
  PROVE  /\ WordStarts(s) = WordStarts(t)
         /\ \A P : P \subseteq WordStarts(s) => FirstWord(s, P) = FirstWord(t, P)
<1> DEFINE chars == {"NL"}
           n     == Stop(s, 1, chars)
<1>1. /\ s \in Seq(STRING) /\ t \in Seq(STRING) /\ Len(s) \in Nat /\ Len(t) \in Nat
      /\ Len(s) <= Len(t) /\ \A k \in 1..Len(s) : s[k] = t[k]
  BY DEF Cut
<1>2. n \in Nat /\ n <= Len(s) /\ 1 <= n /\ Stop(t, 1, chars) = n
  <2> HIDE DEF chars
  <2>1. 1 \in Nat \ {0} /\ Stop(s, 1, chars) <= Len(s)
    BY DEF chars
  <2>2. QED
    BY <2>1, SameStop
<1>3. s[n] = "NL"
  <2> HIDE DEF chars
  <2>1. s[n] \in chars
    <3>1. 1 \in Nat \ {0}
      OBVIOUS
    <3>2. QED
      BY <1>1, <1>2, <3>1, StopIs
  <2>2. QED
    BY <2>1 DEF chars
<1> HIDE DEF n
<1>4. /\ WordStarts(s) = {i \in 1..(n - 1) : ~isspace(s[i]) /\ (i = 1 \/ isspace(s[i - 1]))}
      /\ WordStarts(t) = {i \in 1..(n - 1) : ~isspace(t[i]) /\ (i = 1 \/ isspace(t[i - 1]))}
  BY <1>2 DEF WordStarts, n
<1>5. ASSUME NEW i \in 1..(n - 1)
      PROVE  s[i] = t[i] /\ (i # 1 => s[i - 1] = t[i - 1])
  <2>1. i \in 1..Len(s) /\ (i # 1 => i - 1 \in 1..Len(s))
    BY <1>1, <1>2
  <2>2. QED
    BY <1>1, <2>1
<1>6. WordStarts(s) = WordStarts(t)
  BY <1>4, <1>5
<1>7. ASSUME NEW i \in 1..(n - 1)
      PROVE  SubSeq(s, i, Stop(s, i, Space) - 1) = SubSeq(t, i, Stop(t, i, Space) - 1)
  <2>1. i \in Nat \ {0} /\ n \in i..Len(s) /\ s[n] \in Space /\ i <= Len(s) + 1
    BY <1>1, <1>2, <1>3 DEF Space
  <2>2. /\ Stop(s, i, Space) \in Nat
        /\ \A j \in i..Len(s) : j < Stop(s, i, Space) => s[j] \notin Space
    BY <1>1, <2>1, StopIs
  <2>3. Stop(s, i, Space) <= Len(s)
    BY <1>1, <1>2, <2>1, <2>2
  <2>4. QED
    BY <2>1, <2>3, SameStop
<1>8. ASSUME NEW P, P \subseteq WordStarts(s), P # {} PROVE FirstWord(s, P) = FirstWord(t, P)
  <2>1. P \subseteq Nat /\ P \subseteq 1..(n - 1)
    BY <1>2, <1>4, <1>8
  <2>2. Min(P) \in P
    BY <1>8, <2>1, MinOfNaturals
  <2>3. Min(P) \in 1..(n - 1)
    BY <2>1, <2>2
  <2>4. QED
    BY <1>7, <1>8, <2>3 DEF FirstWord
<1>9. ASSUME NEW P, P = {} PROVE FirstWord(s, P) = FirstWord(t, P)
  BY <1>9 DEF FirstWord
<1>10. QED
  BY <1>6, <1>8, <1>9

(* If it has not, there is nothing behind it.                              *)
LEMMA OneLine ==
  ASSUME NEW s \in Seq(STRING), ~(Stop(s, 1, {"NL"}) <= Len(s))
  PROVE  HeadersOf(s) = <<>> /\ BodyOf(s) = <<>>
<1> DEFINE chars == {"NL"}
<1>1. Len(s) \in Nat
  OBVIOUS
<1>2. \A j \in 1..Len(s) : s[j] # "NL"
  <2> HIDE DEF chars
  <2>1. 1 \in Nat \ {0} /\ 1 <= Len(s) + 1
    BY <1>1
  <2>2. /\ Stop(s, 1, chars) \in Nat
        /\ \A j \in 1..Len(s) : j < Stop(s, 1, chars) => s[j] \notin chars
    BY <2>1, StopIs
  <2>3. ~(Stop(s, 1, chars) <= Len(s))
    BY DEF chars
  <2>4. \A j \in 1..Len(s) : s[j] \notin chars
    BY <1>1, <2>2, <2>3
  <2>5. QED
    BY <2>4 DEF chars
<1>3. LineStarts(s) \ {1} = {}
  <2>1. \A h : h \notin LineStarts(s) \ {1}
    BY <1>2, LineStartsAre
  <2>2. QED
    BY <2>1
<1>4. HeaderStarts(s) = {}
  BY <1>3 DEF HeaderStarts
<1>5. HeadersOf(s) = <<>>
  BY <1>4, NoHeaders DEF HeadersOf
<1>6. BodyOf(s) = <<>>
  <2>1. LineStarts(s) \ ({1} \cup HeaderStarts(s)) = {}
    BY <1>3
  <2>2. QED
    BY <2>1 DEF BodyOf
<1>7. QED
  BY <1>5, <1>6

(* A body follows a line without a colon that has ended.                   *)
EndsHeaders(s, place) ==
  /\ AtLine(s, place) /\ place <= Len(s)
  /\ \A h \in Before(s, place) : Colon(LineAt(s, h)) # 0
  /\ Colon(LineAt(s, place + 1)) = 0

LEMMA BodyFound ==
  ASSUME NEW s \in Seq(STRING), BodyOf(s) # <<>>
  PROVE  \E place \in Nat :
           EndsHeaders(s, place) /\ ~BlankFrom(s, Stop(s, place + 1, {"NL"}))
<1> DEFINE L      == LineStarts(s) \ {1}
           others == LineStarts(s) \ ({1} \cup HeaderStarts(s))
           m      == Min(others)
<1>1. \A h : h \in L <=> h \in Nat /\ h - 1 \in 1..Len(s) /\ s[h - 1] = "NL"
  BY LineStartsAre
<1>2. others \subseteq L /\ \A h \in L : h \notin others => h \in HeaderStarts(s)
  OBVIOUS
<1>3. others # {}
  <2>1. others = {} => BodyOf(s) = <<>>
    BY DEF BodyOf
  <2>2. QED
    BY <2>1
<1>4. HeaderStarts(s) = {i \in L : \A h \in L : h <= i => Colon(LineAt(s, h)) # 0}
      /\ \A h \in others : h \notin HeaderStarts(s)
  BY DEF HeaderStarts
<1> HIDE DEF L, others, m
<1>5. others \subseteq Nat /\ L \subseteq Nat
  BY <1>1, <1>2
<1>6. m \in others /\ \A h \in others : m <= h
  BY <1>3, <1>5, MinOfNaturals DEF m
<1> DEFINE place == m - 1
<1>7. /\ m \in Nat /\ m \in L /\ place \in 1..Len(s) /\ s[place] = "NL" /\ place + 1 = m
      /\ place \in Nat
  BY <1>1, <1>2, <1>6
<1> HIDE DEF place
<1>8. ASSUME NEW h \in L, h < m PROVE h \in HeaderStarts(s) /\ Colon(LineAt(s, h)) # 0
  <2>1. h \in Nat /\ ~(m <= h)
    BY <1>5, <1>7, <1>8
  <2>2. h \in HeaderStarts(s)
    BY <1>2, <1>6, <2>1
  <2>3. h <= h
    BY <2>1
  <2>4. QED
    BY <1>4, <2>2, <2>3
<1>9. Colon(LineAt(s, m)) = 0
  <2>1. PICK h \in L : h <= m /\ Colon(LineAt(s, h)) = 0
    BY <1>4, <1>6, <1>7
  <2>2. ~(h < m)
    BY <1>8, <2>1
  <2>3. h = m
    BY <1>5, <1>7, <2>1, <2>2
  <2>4. QED
    BY <2>1, <2>3
<1>10. EndsHeaders(s, place)
  <2>1. AtLine(s, place) /\ place <= Len(s)
    BY <1>7 DEF AtLine
  <2>2. ASSUME NEW h \in Before(s, place) PROVE Colon(LineAt(s, h)) # 0
    <3>1. h \in L /\ h <= place
      BY DEF Before, L
    <3>2. h < m
      BY <1>5, <1>7, <3>1
    <3>3. QED
      BY <1>8, <3>1, <3>2
  <2>3. QED
    BY <1>7, <1>9, <2>1, <2>2 DEF EndsHeaders
<1>11. ~BlankFrom(s, Stop(s, place + 1, {"NL"}))
  <2> DEFINE e == Stop(s, place + 1, {"NL"})
  <2>1. BodyOf(s) = IF BlankFrom(s, e) THEN <<>> ELSE SubSeq(s, e + 1, Len(s))
    BY <1>7, <1>10, HeadersEnd DEF EndsHeaders
  <2> HIDE DEF e
  <2>2. ~BlankFrom(s, e)
    BY <2>1
  <2>3. QED
    BY <2>2 DEF e
<1>12. QED
  BY <1>7, <1>10, <1>11

(* What a text that was cut in its body lost is at the end of it.          *)
LEMMA SameHeaders ==
  ASSUME NEW s, NEW t, Cut(s, t), BodyOf(s) # <<>>
  PROVE  /\ HeadersOf(t) = HeadersOf(s) /\ BodyOf(t) # <<>>
         /\ Len(BodyOf(s)) \in Nat
         /\ Len(BodyOf(t)) = Len(BodyOf(s)) + (Len(t) - Len(s))
<1> DEFINE chars == {"NL"}
<1>1. /\ s \in Seq(STRING) /\ t \in Seq(STRING) /\ Len(s) \in Nat /\ Len(t) \in Nat
      /\ Len(s) <= Len(t) /\ \A k \in 1..Len(s) : s[k] = t[k]
  BY DEF Cut
<1>2. PICK place \in Nat : EndsHeaders(s, place) /\ ~BlankFrom(s, Stop(s, place + 1, chars))
  BY <1>1, BodyFound
<1> DEFINE k == place + 1
           e == Stop(s, k, chars)
<1>3. /\ k \in Nat \ {0} /\ place <= Len(s) /\ AtLine(s, place)
      /\ \A h \in Before(s, place) : Colon(LineAt(s, h)) # 0
      /\ Colon(LineAt(s, k)) = 0
  BY <1>2 DEF EndsHeaders
<1>4. ~BlankFrom(s, e)
  BY <1>2
<1> HIDE DEF chars, k, e
<1>5. e \in Nat
  BY <1>1, <1>3, StopIs DEF e
<1>6. PICK j \in (e + 1)..Len(s) : ~isspace(s[j])
  BY <1>4 DEF BlankFrom
<1>7. e < Len(s) /\ j \in 1..Len(s) /\ j \in (e + 1)..Len(t)
  BY <1>1, <1>5, <1>6
<1>8. /\ Stop(t, k, chars) = e /\ k <= e
      /\ SubSeq(s, k, e - 1) = SubSeq(t, k, e - 1)
  BY <1>1, <1>3, <1>5, <1>7, SameStop DEF e
<1>9. ~BlankFrom(t, e)
  BY <1>1, <1>6, <1>7 DEF BlankFrom
<1>10. Before(s, place) = Before(t, place)
  <2>1. \A h : h \in LineStarts(s) \ {1} <=> h \in Nat /\ h - 1 \in 1..Len(s) /\ s[h - 1] = "NL"
    BY <1>1, LineStartsAre
  <2>2. \A h : h \in LineStarts(t) \ {1} <=> h \in Nat /\ h - 1 \in 1..Len(t) /\ t[h - 1] = "NL"
    BY <1>1, LineStartsAre
  <2>3. ASSUME NEW h \in Nat, h <= place
        PROVE  h \in LineStarts(s) \ {1} <=> h \in LineStarts(t) \ {1}
    <3>1. h - 1 \in 1..Len(t) => h - 1 \in 1..Len(s)
      BY <1>1, <1>3, <2>3
    <3>2. h - 1 \in 1..Len(s) => h - 1 \in 1..Len(t) /\ s[h - 1] = t[h - 1]
      BY <1>1
    <3>3. QED
      BY <2>1, <2>2, <3>1, <3>2
  <2>4. QED
    BY <2>1, <2>2, <2>3 DEF Before
<1>11. ASSUME NEW h \in Before(s, place) PROVE LineAt(s, h) = LineAt(t, h)
  <2>1. h \in Nat /\ h - 1 \in 1..Len(s) /\ h <= place
    BY <1>1, LineStartsAre DEF Before
  <2>2. h \in Nat \ {0} /\ place \in h..Len(s) /\ h <= Len(s) + 1
    BY <1>1, <1>3, <2>1
  <2>3. s[place] \in chars
    BY <1>3, <2>2 DEF AtLine, chars
  <2>4. /\ Stop(s, h, chars) \in Nat
        /\ \A i \in h..Len(s) : i < Stop(s, h, chars) => s[i] \notin chars
    BY <1>1, <2>2, StopIs
  <2>5. Stop(s, h, chars) <= Len(s)
    BY <1>1, <2>2, <2>3, <2>4
  <2>6. SubSeq(s, h, Stop(s, h, chars) - 1) = SubSeq(t, h, Stop(t, h, chars) - 1)
    BY <2>2, <2>5, SameStop
  <2>7. QED
    BY <2>6 DEF LineAt, chars
<1>12. LineAt(s, k) = LineAt(t, k)
  BY <1>8 DEF LineAt, chars, e
<1>13. /\ AtLine(t, place) /\ place <= Len(t)
       /\ \A h \in Before(t, place) : Colon(LineAt(t, h)) # 0
       /\ Colon(LineAt(t, k)) = 0
  <2>1. place \in 1..Len(s) /\ place <= Len(t)
    BY <1>1, <1>3 DEF AtLine
  <2>2. AtLine(t, place)
    BY <1>1, <1>3, <2>1 DEF AtLine
  <2>3. QED
    BY <1>3, <1>10, <1>11, <1>12, <2>1, <2>2
<1>14. /\ HeaderStarts(s) = Before(s, place)
       /\ BodyOf(s) = IF BlankFrom(s, e) THEN <<>> ELSE SubSeq(s, e + 1, Len(s))
  BY <1>1, <1>3, HeadersEnd DEF k, e, chars
<1>15. /\ HeaderStarts(t) = Before(t, place)
       /\ BodyOf(t) = IF BlankFrom(t, e) THEN <<>> ELSE SubSeq(t, e + 1, Len(t))
  <2>1. /\ HeaderStarts(t) = Before(t, place)
        /\ BodyOf(t) = IF BlankFrom(t, Stop(t, k, chars)) THEN <<>>
                       ELSE SubSeq(t, Stop(t, k, chars) + 1, Len(t))
    BY <1>1, <1>13, HeadersEnd DEF k, chars
  <2>2. QED
    BY <1>8, <2>1
<1>16. HeadersOf(t) = HeadersOf(s)
  <2> DEFINE S == Before(s, place)
  <2>1. \A h \in S : LineAt(s, h) = LineAt(t, h)
    BY <1>11
  <2> HIDE DEF S
  <2>2. {Name(LineAt(s, i)) : i \in S} = {Name(LineAt(t, i)) : i \in S}
    BY <2>1
  <2>3. ASSUME NEW name \in {Name(LineAt(s, i)) : i \in S}
        PROVE  Value(LineAt(s, Max({i \in S : Name(LineAt(s, i)) = name})))
                 = Value(LineAt(t, Max({i \in S : Name(LineAt(t, i)) = name})))
    <3> DEFINE those == {i \in S : Name(LineAt(s, i)) = name}
    <3>1. those = {i \in S : Name(LineAt(t, i)) = name}
      BY <2>1
    <3>2. those \subseteq S /\ those # {}
      BY <2>3
    <3>3. \A i \in S : i \in Nat /\ i <= place
      BY <1>1, LineStartsAre DEF S, Before
    <3> HIDE DEF those
    <3>4. Max(those) \in those
      BY <3>2, <3>3, BoundedMax
    <3>5. LineAt(s, Max(those)) = LineAt(t, Max(those))
      BY <2>1, <3>2, <3>4
    <3>6. QED
      BY <3>1, <3>5 DEF those
  <2>4. HeadersAt(s, S) = HeadersAt(t, S)
    BY <2>2, <2>3 DEF HeadersAt
  <2>5. QED
    BY <1>10, <1>14, <1>15, <2>4 DEF HeadersOf, S
<1>17. /\ BodyOf(t) # <<>> /\ Len(BodyOf(s)) = Len(s) - e /\ Len(BodyOf(t)) = Len(t) - e
  <2>1. BodyOf(s) = SubSeq(s, e + 1, Len(s)) /\ BodyOf(t) = SubSeq(t, e + 1, Len(t))
    BY <1>4, <1>9, <1>14, <1>15
  <2> DEFINE q == e + 1
  <2>2. q \in Nat /\ q <= Len(s) /\ q <= Len(t)
    BY <1>1, <1>5, <1>7
  <2> HIDE DEF q
  <2>3. Len(SubSeq(s, q, Len(s))) = Len(s) - q + 1
        /\ Len(SubSeq(t, q, Len(t))) = Len(t) - q + 1
    BY <1>1, <2>2
  <2>4. Len(SubSeq(t, q, Len(t))) > 0
    BY <1>1, <2>2, <2>3
  <2>5. SubSeq(t, q, Len(t)) # <<>>
    <3> DEFINE b == SubSeq(t, q, Len(t))
    <3>1. Len(b) > 0
      BY <2>4
    <3> HIDE DEF b
    <3>2. b # <<>>
      BY <3>1
    <3>3. QED
      BY <3>2 DEF b
  <2>6. QED
    BY <1>1, <1>5, <2>1, <2>3, <2>5 DEF q
<1>18. QED
  BY <1>1, <1>5, <1>7, <1>16, <1>17
=============================================================================
