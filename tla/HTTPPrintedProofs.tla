-------------------------- MODULE HTTPPrintedProofs --------------------------
(***************************************************************************)
(* What to_string prints, whatever the message, the order of its headers   *)
(* and the pieces it arrives in, is read again by the parsers.             *)
(***************************************************************************)
EXTENDS HTTPMeaningProofs, FiniteSetTheorems

-----------------------------------------------------------------------------
(* The characters of what is printed.  That these are strings too is more  *)
(* than the provers know.                                                  *)
Chars == STRING \cup {"SP", "CR", "NL", ":"}
EOL   == Printer!EOL

-----------------------------------------------------------------------------
(* A text that holds a word from some place on.                            *)
Has(t, place, w) == /\ w \in Seq(Chars) /\ place + Len(w) <= Len(t)
                    /\ \A i \in 1..Len(w) : t[place + i] = w[i]

(* Of two words one after the other, each is there.                        *)
LEMMA HasBoth ==
  ASSUME NEW t \in Seq(STRING), NEW place \in Nat,
         NEW v \in Seq(Chars), NEW w \in Seq(Chars), Has(t, place, v \o w)
  PROVE  /\ Has(t, place, v) /\ Has(t, place + Len(v), w)
         /\ Len(v \o w) = Len(v) + Len(w)
<1> DEFINE vw == v \o w
<1>1. /\ Len(v) \in Nat /\ Len(w) \in Nat /\ Len(t) \in Nat
      /\ vw \in Seq(Chars) /\ Len(vw) = Len(v) + Len(w)
      /\ \A i \in 1..Len(v) : vw[i] = v[i]
      /\ \A i \in 1..Len(w) : vw[Len(v) + i] = w[i]
  OBVIOUS
<1> HIDE DEF vw
<1>2. place + Len(vw) <= Len(t) /\ \A i \in 1..Len(vw) : t[place + i] = vw[i]
  BY DEF Has, vw
<1>3. Has(t, place, v)
  <2>1. place + Len(v) <= Len(t)
    BY <1>1, <1>2
  <2>2. ASSUME NEW i \in 1..Len(v) PROVE t[place + i] = v[i]
    <3>1. i \in 1..Len(vw)
      BY <1>1
    <3>2. QED
      BY <1>1, <1>2, <3>1
  <2>3. QED
    BY <2>1, <2>2 DEF Has
<1>4. Has(t, place + Len(v), w)
  <2>1. (place + Len(v)) + Len(w) <= Len(t)
    BY <1>1, <1>2
  <2>2. ASSUME NEW i \in 1..Len(w) PROVE t[(place + Len(v)) + i] = w[i]
    <3>1. Len(v) + i \in 1..Len(vw) /\ place + (Len(v) + i) = (place + Len(v)) + i
      BY <1>1
    <3>2. QED
      BY <1>1, <1>2, <3>1
  <2>3. QED
    BY <2>1, <2>2 DEF Has
<1>5. QED
  BY <1>1, <1>3, <1>4 DEF vw

(* What is there is what is cut out.                                       *)
LEMMA HasSub ==
  ASSUME NEW t \in Seq(STRING), NEW place \in Nat, NEW w, Has(t, place, w)
  PROVE  SubSeq(t, place + 1, place + Len(w)) = w
<1> DEFINE i == place + 1
           d == place + Len(w)
           x == SubSeq(t, i, d)
<1>1. /\ w \in Seq(Chars) /\ Len(w) \in Nat /\ Len(t) \in Nat /\ d <= Len(t)
      /\ \A k \in 1..Len(w) : t[place + k] = w[k]
  BY DEF Has
<1>2. i \in Nat /\ i >= 1 /\ d \in Nat /\ i - 1 <= d /\ d - i + 1 = Len(w)
  BY <1>1
<1>3. /\ x \in Seq(STRING) /\ Len(x) = Len(w)
      /\ \A k \in 1..Len(w) : x[k] = t[i + k - 1]
  <2> HIDE DEF i, d
  <2>1. QED
    BY <1>1, <1>2
<1>4. ASSUME NEW k \in 1..Len(w) PROVE x[k] = w[k]
  <2>1. i + k - 1 = place + k
    BY <1>1
  <2>2. QED
    BY <1>1, <1>3, <2>1
<1> HIDE DEF x
<1>5. x = w
  BY <1>1, <1>3, <1>4
<1>6. QED
  BY <1>5 DEF x

(* A word that white space follows.                                        *)
LEMMA WordThere ==
  ASSUME NEW t \in Seq(STRING), NEW place \in Nat, NEW w, Has(t, place, w),
         \A i \in 1..Len(w) : ~isspace(w[i]),
         place + Len(w) + 1 <= Len(t), isspace(t[place + Len(w) + 1])
  PROVE  SubSeq(t, place + 1, Stop(t, place + 1, Space) - 1) = w
<1> DEFINE k == place + 1
           e == place + Len(w) + 1
<1>1. /\ w \in Seq(Chars) /\ Len(w) \in Nat /\ Len(t) \in Nat
      /\ \A i \in 1..Len(w) : t[place + i] = w[i]
  BY DEF Has
<1>2. k \in Nat \ {0} /\ e \in k..(Len(t) + 1) /\ t[e] \in Space
  BY <1>1 DEF isspace
<1>3. ASSUME NEW j \in k..Len(t), j < e PROVE t[j] \notin Space
  <2>1. j - place \in 1..Len(w) /\ place + (j - place) = j
    BY <1>1, <1>3
  <2>2. QED
    BY <1>1, <2>1 DEF isspace
<1> HIDE DEF k, e
<1>4. Stop(t, k, Space) = e
  BY <1>2, <1>3, StopThere
<1>5. Stop(t, k, Space) - 1 = place + Len(w)
  BY <1>1, <1>4 DEF e
<1>6. QED
  BY <1>5, HasSub DEF k

(* The end of a line that to_string prints.                                *)
LEMMA EOLIs == EOL \in Seq(Chars) /\ Len(EOL) = 2 /\ EOL[1] = "CR" /\ EOL[2] = "NL"
<1>1. EOL = <<"CR", "NL">>
  BY DEF EOL, Printer!EOL
<1>2. "CR" \in Chars /\ "NL" \in Chars
  BY DEF Chars
<1>3. <<"CR", "NL">> \in Seq(Chars)
  BY <1>2
<1>4. Len(<<"CR", "NL">>) = 2 /\ <<"CR", "NL">>[1] = "CR" /\ <<"CR", "NL">>[2] = "NL"
  OBVIOUS
<1>5. QED
  BY <1>1, <1>3, <1>4

(* A line of the text, from its first character to its newline, is the     *)
(* word that was printed, without the carriage return.                     *)
LEMMA LineThere ==
  ASSUME NEW t \in Seq(STRING), NEW place \in Nat, NEW w, Has(t, place, w),
         \A i \in 1..Len(w) : w[i] # "NL", Has(t, place + Len(w), EOL)
  PROVE  /\ Stop(t, place + 1, {"NL"}) = place + Len(w) + 2
         /\ place + Len(w) + 2 <= Len(t)
         /\ t[place + Len(w) + 1] = "CR" /\ t[place + Len(w) + 2] = "NL"
         /\ LineAt(t, place + 1) = w
<1> DEFINE k == place + 1
           n == place + Len(w) + 2
           chars == {"NL"}
<1>1. /\ w \in Seq(Chars) /\ Len(w) \in Nat /\ Len(t) \in Nat
      /\ \A i \in 1..Len(w) : t[place + i] = w[i]
  BY DEF Has
<1>2. n <= Len(t) /\ t[n - 1] = "CR" /\ t[n] = "NL"
  <2>1. /\ (place + Len(w)) + 2 <= Len(t)
        /\ t[(place + Len(w)) + 1] = "CR" /\ t[(place + Len(w)) + 2] = "NL"
    BY EOLIs DEF Has
  <2>2. (place + Len(w)) + 2 = n /\ (place + Len(w)) + 1 = n - 1
    BY <1>1
  <2>3. QED
    BY <2>1, <2>2
<1>3. k \in Nat \ {0} /\ n \in k..(Len(t) + 1) /\ t[n] \in chars
  BY <1>1, <1>2
<1>4. ASSUME NEW j \in k..Len(t), j < n PROVE t[j] \notin chars
  <2>1. CASE j = n - 1
    BY <1>2, <2>1
  <2>2. CASE j # n - 1
    <3> DEFINE i == j - place
    <3>1. i \in 1..Len(w) /\ place + i = j
      <4>1. Len(w) \in Nat /\ j \in Int /\ place + 1 <= j /\ j < place + Len(w) + 2
        BY <1>1, <1>4
      <4>2. j # place + Len(w) + 1
        BY <1>1, <2>2
      <4>3. QED
        BY <4>1, <4>2
    <3> HIDE DEF i
    <3>2. QED
      BY <1>1, <3>1
  <2>3. QED
    BY <2>1, <2>2
<1> HIDE DEF chars
<1>5. Stop(t, k, chars) = n
  <2> HIDE DEF k, n
  <2>1. QED
    BY <1>3, <1>4, StopThere
<1> DEFINE d == n - 1
           x == SubSeq(t, k, d)
<1>6. /\ x \in Seq(STRING) /\ Len(x) = Len(w) + 1
      /\ \A i \in 1..(Len(w) + 1) : x[i] = t[k + i - 1]
  <2>1. d \in Nat /\ k \in Nat /\ k >= 1 /\ k - 1 <= d /\ d <= Len(t) /\ d - k + 1 = Len(w) + 1
    BY <1>1, <1>2
  <2> HIDE DEF d, k
  <2>2. QED
    BY <1>1, <2>1
<1>7. x[Len(x)] = "CR"
  <2>1. k + (Len(w) + 1) - 1 = d /\ Len(w) + 1 \in 1..(Len(w) + 1)
    BY <1>1
  <2>2. QED
    BY <1>2, <1>6, <2>1
<1>8. \A i \in 1..Len(w) : x[i] = w[i]
  <2>1. ASSUME NEW i \in 1..Len(w) PROVE x[i] = w[i]
    <3>1. i \in 1..(Len(w) + 1) /\ k + i - 1 = place + i
      BY <1>1
    <3>2. QED
      BY <1>1, <1>6, <3>1
  <2>2. QED
    BY <2>1
<1>9. LineAt(t, k) = StripCR(x)
  BY <1>5 DEF LineAt, chars
<1> HIDE DEF x
<1>10. StripCR(x) = w
  <2>1. x # <<>>
    BY <1>1, <1>6
  <2>2. Last(x) = "CR" /\ StripCR(x) = SubSeq(x, 1, Len(x) - 1)
    BY <1>7, <2>1 DEF StripCR, Last, Front
  <2>3. Len(x) - 1 = Len(w)
    BY <1>1, <1>6
  <2> DEFINE y == SubSeq(x, 1, Len(w))
  <2>4. /\ y \in Seq(STRING) /\ Len(y) = Len(w)
        /\ \A i \in 1..Len(w) : y[i] = x[i]
    BY <1>1, <1>6
  <2> HIDE DEF y
  <2>5. y = w
    BY <1>1, <1>8, <2>4
  <2>6. QED
    BY <2>2, <2>3, <2>5 DEF y
<1>11. n - 1 = place + Len(w) + 1
  BY <1>1
<1>12. QED
  BY <1>2, <1>5, <1>9, <1>10, <1>11 DEF k, chars

-----------------------------------------------------------------------------
(* A header line.                                                          *)
PrintedHeader(name, value) == name \o <<":", "SP">> \o value

(* A sequence of strings is one of such characters.                        *)
LEMMA AlsoChars == \A w \in Seq(STRING) : w \in Seq(Chars)
<1>1. STRING \subseteq Chars
  BY DEF Chars
<1> HIDE DEF Chars
<1>2. ASSUME NEW w \in Seq(STRING) PROVE w \in Seq(Chars)
  <2>1. Len(w) \in Nat /\ w \in [1..Len(w) -> STRING]
    OBVIOUS
  <2>2. w \in [1..Len(w) -> Chars]
    BY <1>1, <2>1
  <2>3. QED
    BY <2>1, <2>2
<1>3. QED
  BY <1>2

(* One word after another, character by character.                         *)
LEMMA JoinIs ==
  ASSUME NEW v \in Seq(Chars), NEW w \in Seq(Chars)
  PROVE  /\ v \o w \in Seq(Chars) /\ Len(v \o w) = Len(v) + Len(w)
         /\ \A i \in 1..Len(v) : (v \o w)[i] = v[i]
         /\ \A i \in 1..Len(w) : (v \o w)[Len(v) + i] = w[i]
OBVIOUS

(* The first colon of a line.                                              *)
LEMMA ColonIs ==
  ASSUME NEW line \in Seq(Chars), NEW n \in 1..Len(line), line[n] = ":",
         \A i \in 1..(n - 1) : line[i] # ":"
  PROVE  Colon(line) = n
<1> DEFINE I == {i \in 1..Len(line) : line[i] = ":"}
<1>1. Colon(line) = IF I # {} THEN Min(I) ELSE 0
  BY DEF Colon, SelectInSeq
<1>2. I \subseteq Nat /\ n \in I
  OBVIOUS
<1>3. ASSUME NEW i \in I PROVE n <= i
  <2>1. ~(i \in 1..(n - 1))
    BY <1>3
  <2>2. QED
    BY <2>1
<1> HIDE DEF I
<1>4. Min(I) = n
  BY <1>2, <1>3, MinIs
<1>5. QED
  BY <1>1, <1>2, <1>4

(* A header that was printed is read as its name, in lower case, and its   *)
(* value.                                                                  *)
LEMMA HeaderIs ==
  ASSUME NEW name, NEW value, IsName(name), IsValue(value)
  PROVE  LET line == PrintedHeader(name, value)
         IN /\ line \in Seq(Chars) /\ Colon(line) # 0
            /\ Name(line) = Lower(name) /\ Value(line) = value
            /\ \A i \in 1..Len(line) : line[i] # "NL"
<1> DEFINE line == PrintedHeader(name, value)
           n    == Len(name) + 1
           l    == Len(value)
<1>1. name \in Seq(Chars) /\ Len(name) \in Nat
      /\ \A i \in 1..Len(name) : name[i] # ":" /\ name[i] # "NL"
  BY AlsoChars DEF IsName, IsText
<1>2. value \in Seq(Chars) /\ l \in Nat
      /\ \A i \in 1..l : value[i] # "NL"
  BY AlsoChars DEF IsValue, IsText
<1> DEFINE mid == <<":", "SP">>
<1>3. mid \in Seq(Chars) /\ Len(mid) = 2 /\ mid[1] = ":" /\ mid[2] = "SP"
  <2>1. ":" \in Chars /\ "SP" \in Chars
    BY DEF Chars
  <2>2. QED
    BY <2>1
<1> HIDE DEF mid
<1> DEFINE front == name \o mid
<1>4. /\ front \in Seq(Chars) /\ Len(front) = n + 1
      /\ \A i \in 1..Len(name) : front[i] = name[i]
      /\ front[n] = ":" /\ front[n + 1] = "SP"
  <2>5. /\ front \in Seq(Chars) /\ Len(front) = Len(name) + Len(mid)
        /\ \A i \in 1..Len(name) : front[i] = name[i]
        /\ \A i \in 1..Len(mid) : front[Len(name) + i] = mid[i]
    BY <1>1, <1>3, JoinIs
  <2> HIDE DEF front
  <2>1. /\ front \in Seq(Chars) /\ Len(front) = Len(name) + 2
        /\ \A i \in 1..Len(name) : front[i] = name[i]
        /\ \A i \in 1..2 : front[Len(name) + i] = mid[i]
    BY <1>3, <2>5
  <2> HIDE DEF front
  <2>2. n + 1 = Len(name) + 2
    BY <1>1
  <2>3. 1 \in 1..2 /\ 2 \in 1..2
    OBVIOUS
  <2>4. QED
    BY <1>3, <2>1, <2>2, <2>3
<1> HIDE DEF front
<1>5. line = front \o value
  BY DEF PrintedHeader, front, mid
<1> DEFINE m == n + 1
<1>6. n \in Nat \ {0} /\ m \in Nat /\ n = Len(name) + 1 /\ m = n + 1
  BY <1>1
<1> HIDE DEF line, n, m, l
<1>7. /\ line \in Seq(Chars) /\ Len(line) = m + l
      /\ \A i \in 1..m : line[i] = front[i]
      /\ \A i \in 1..l : line[m + i] = value[i]
  <2>1. Len(front) = m
    BY <1>4, <1>6
  <2>2. Len(value) = l /\ l \in Nat
    BY <1>2 DEF l
  <2> DEFINE both == front \o value
  <2>3. /\ both \in Seq(Chars) /\ Len(both) = Len(front) + Len(value)
        /\ \A i \in 1..Len(front) : both[i] = front[i]
        /\ \A i \in 1..Len(value) : both[Len(front) + i] = value[i]
    BY <1>2, <1>4
  <2> HIDE DEF both
  <2>4. line = both
    BY <1>5 DEF both
  <2>5. QED
    BY <2>1, <2>2, <2>3, <2>4
<1>8. \A i \in 1..Len(line) :
        i \in 1..Len(name) \/ i = n \/ i = m \/ (i - m \in 1..l /\ i = m + (i - m))
  BY <1>1, <1>2, <1>6, <1>7
<1>9. /\ \A i \in 1..Len(name) : line[i] = name[i]
      /\ line[n] = ":" /\ line[m] = "SP" /\ n \in 1..Len(line)
  BY <1>1, <1>2, <1>4, <1>6, <1>7 DEF m
<1>10. ASSUME NEW i \in 1..Len(line) PROVE line[i] # "NL"
  <2>1. CASE i \in 1..Len(name)
    BY <1>1, <1>9, <2>1
  <2>2. CASE i = n \/ i = m
    BY <1>9, <2>2
  <2>3. CASE i - m \in 1..l /\ i = m + (i - m)
    <3>1. line[i] = value[i - m]
      BY <1>7, <2>3
    <3>2. QED
      BY <1>2, <2>3, <3>1
  <2>4. QED
    BY <1>8, <2>1, <2>2, <2>3
<1>11. Colon(line) = n
  <2>1. \A i \in 1..(n - 1) : line[i] # ":"
    BY <1>1, <1>6, <1>9
  <2>2. QED
    BY <1>7, <1>9, <2>1, ColonIs
<1>12. Name(line) = Lower(name)
  <2>1. Colon(line) - 1 = Len(name)
    BY <1>1, <1>6, <1>11
  <2>2. Name(line) = [i \in 1..Len(name) |-> tolower(line[i])]
    BY <2>1 DEF Name
  <2>3. QED
    BY <1>9, <2>2 DEF Lower
<1>13. Value(line) = value
  <2> DEFINE I == {i \in m..Len(line) : ~isspace(line[i])}
             start == IF I # {} THEN Min(I) ELSE 0
  <2>1. Value(line) = IF start = 0 THEN <<>> ELSE SubSeq(line, start, Len(line))
    BY <1>6, <1>11 DEF Value, SelectInSubSeq
  <2>2. isspace(line[m])
    BY <1>9 DEF isspace, Space
  <2>3. CASE value = <<>>
    <3>1. l = 0
      BY <2>3 DEF l
    <3>2. ASSUME NEW i \in I PROVE FALSE
      <4>1. i = m
        BY <1>6, <1>7, <3>1
      <4>2. QED
        BY <2>2, <4>1
    <3>3. I = {}
      BY <3>2
    <3>4. QED
      BY <2>1, <2>3, <3>3
  <2>4. CASE value # <<>>
    <3> DEFINE k == m + 1
    <3>1. l > 0 /\ ~isspace(value[1])
      BY <1>2, <2>4 DEF IsValue, IsText, l
    <3>2. line[m + 1] = value[1]
      BY <1>2, <1>7, <3>1
    <3>3. I \subseteq Nat /\ k \in I
      BY <1>2, <1>6, <1>7, <3>1, <3>2
    <3>4. ASSUME NEW i \in I PROVE k <= i
      <4>1. i # m
        BY <2>2
      <4>2. i \in Nat /\ m <= i
        BY <1>6
      <4>3. QED
        BY <1>6, <4>1, <4>2
    <3>5. Min(I) = k
      <4> HIDE DEF I, k
      <4>1. QED
        BY <3>3, <3>4, MinIs
    <3> HIDE DEF k
    <3>6. Value(line) = SubSeq(line, k, Len(line))
      <4>1. k # 0 /\ start = k
        <5>1. I # {}
          BY <3>3
        <5>2. QED
          BY <1>6, <3>5, <5>1 DEF k
      <4>2. QED
        BY <2>1, <4>1
    <3> DEFINE x == SubSeq(line, k, Len(line))
    <3>7. /\ x \in Seq(Chars) /\ Len(x) = l
          /\ \A i \in 1..l : x[i] = line[k + i - 1]
      <4>1. /\ k \in Nat /\ k >= 1 /\ Len(line) \in Nat
            /\ k - 1 <= Len(line) /\ Len(line) - k + 1 = l
        BY <1>2, <1>6, <1>7 DEF k
      <4>2. QED
        BY <1>7, <4>1
    <3> HIDE DEF x
    <3>8. \A i \in 1..l : k + i - 1 = m + i
      BY <1>2, <1>6 DEF k
    <3>9. x = value
      BY <1>2, <1>7, <3>7, <3>8 DEF l
    <3>10. QED
      BY <3>6, <3>9 DEF x
  <2>5. QED
    BY <2>3, <2>4
<1>14. Colon(line) # 0
  BY <1>6, <1>11
<1>15. QED
  BY <1>7, <1>10, <1>12, <1>13, <1>14 DEF line

-----------------------------------------------------------------------------
(* Lines one after the other.                                              *)
Joined(seqs, n, parts) ==
  /\ parts[0] = <<>>
  /\ \A k \in 1..n : parts[k] = parts[k - 1] \o seqs[k]
  /\ \A k \in 0..n : parts[k] \in Seq(Chars)

AreTexts(seqs, n) == \A k \in 1..n : seqs[k] \in Seq(Chars)

(* There are such parts, whatever the lines.                               *)
LEMMA CanBeJoined ==
  ASSUME NEW seqs, NEW n \in Nat, AreTexts(seqs, n)
  PROVE  \E parts : Joined(seqs, n, parts)
<1> DEFINE bad == {k \in 0..n : ~ \E parts : Joined(seqs, k, parts)}
<1>1. bad \subseteq Nat
  OBVIOUS
<1>2. CASE bad # {}
  <2> DEFINE m == Min(bad)
  <2>1. m \in bad /\ \A k \in bad : m <= k
    <3> HIDE DEF bad
    <3>1. QED
      BY <1>1, <1>2, MinOfNaturals
  <2> HIDE DEF m
  <2>2. m \in 0..n /\ ~ \E parts : Joined(seqs, m, parts)
    BY <2>1
  <2>3. m # 0
    <3> DEFINE parts == [k \in {0} |-> <<>>]
    <3>1. Joined(seqs, 0, parts)
      BY DEF Joined
    <3>2. QED
      BY <2>2, <3>1
  <2> DEFINE d == m - 1
  <2>4. d \in 0..n /\ m = d + 1 /\ ~(m <= d) /\ m \in 1..n /\ d \in Nat
    BY <2>2, <2>3
  <2> HIDE DEF d
  <2>5. d \notin bad
    BY <2>1, <2>4
  <2>6. PICK parts : Joined(seqs, d, parts)
    BY <2>4, <2>5
  <2> DEFINE more == [k \in 0..m |-> IF k = m THEN parts[d] \o seqs[m] ELSE parts[k]]
  <2>7. /\ parts[d] \in Seq(Chars) /\ seqs[m] \in Seq(Chars)
        /\ (parts[d] \o seqs[m]) \in Seq(Chars)
    <3>1. d \in 0..d
      BY <2>4
    <3>2. parts[d] \in Seq(Chars) /\ seqs[m] \in Seq(Chars)
      BY <2>4, <2>6, <3>1 DEF Joined, AreTexts
    <3>3. QED
      BY <3>2
  <2>8. more[0] = <<>>
    BY <2>3, <2>4, <2>6 DEF Joined
  <2>9. ASSUME NEW k \in 1..m PROVE more[k] = more[k - 1] \o seqs[k]
    <3>1. CASE k = m
      <4>1. m - 1 = d /\ d \in 0..m /\ m \in 0..m /\ d # m
        BY <2>4
      <4>2. more[m] = parts[d] \o seqs[m] /\ more[d] = parts[d]
        BY <4>1
      <4>3. QED
        BY <3>1, <4>1, <4>2
    <3>2. CASE k # m
      <4>1. k \in 1..d /\ k - 1 \in 0..m /\ k - 1 # m /\ k \in 0..m
        BY <2>4, <3>2
      <4>2. more[k] = parts[k] /\ more[k - 1] = parts[k - 1]
        BY <3>2, <4>1
      <4>3. parts[k] = parts[k - 1] \o seqs[k]
        BY <2>6, <4>1 DEF Joined
      <4>4. QED
        BY <4>2, <4>3
    <3>3. QED
      BY <3>1, <3>2
  <2>10. ASSUME NEW k \in 0..m PROVE more[k] \in Seq(Chars)
    <3>1. CASE k = m
      BY <2>7, <3>1
    <3>2. CASE k # m
      <4>1. k \in 0..d
        BY <2>4, <3>2
      <4>2. QED
        BY <2>6, <3>2, <4>1 DEF Joined
    <3>3. QED
      BY <3>1, <3>2
  <2> HIDE DEF more
  <2>11. Joined(seqs, m, more)
    BY <2>8, <2>9, <2>10 DEF Joined
  <2>12. QED
    BY <2>2, <2>11
<1>3. CASE bad = {}
  BY <1>3
<1>4. QED
  BY <1>2, <1>3

(* The last of these parts is what FlattenSeq makes of the lines.          *)
LEMMA FlattenIs ==
  ASSUME NEW seqs, NEW n \in Nat, Len(seqs) = n, n # 0,
         NEW parts, Joined(seqs, n, parts)
  PROVE  Printer!FlattenSeq(seqs) = parts[n]
<1> DEFINE Eq(f) == f = [i \in 1..n |-> IF i = 1 THEN seqs[i] ELSE f[i - 1] \o seqs[i]]
           F == CHOOSE f : Eq(f)
<1>1. Printer!FlattenSeq(seqs) = F[n]
  BY DEF Printer!FlattenSeq
<1>2. \A k \in 1..n : parts[k] = parts[k - 1] \o seqs[k]
  BY DEF Joined
<1>3. parts[1] = seqs[1]
  <2>1. parts[1] = <<>> \o seqs[1]
    <3>1. 1 \in 1..n /\ 1 - 1 = 0
      OBVIOUS
    <3>2. QED
      BY <1>2, <3>1 DEF Joined
  <2>2. QED
    BY <2>1
<1>4. Eq([i \in 1..n |-> parts[i]])
  <2> DEFINE g == [i \in 1..n |-> parts[i]]
  <2>1. ASSUME NEW i \in 1..n
        PROVE  parts[i] = IF i = 1 THEN seqs[i] ELSE g[i - 1] \o seqs[i]
    <3>1. CASE i = 1
      BY <1>3, <3>1
    <3>2. CASE i # 1
      <4>1. i - 1 \in 1..n
        BY <3>2
      <4>2. g[i - 1] = parts[i - 1]
        BY <4>1
      <4>3. QED
        BY <1>2, <3>2, <4>2
    <3>3. QED
      BY <3>1, <3>2
  <2>2. QED
    BY <2>1
<1>5. Eq(F)
  <2> HIDE DEF Eq
  <2>1. QED
    BY <1>4
<1> HIDE DEF F
<1> DEFINE bad == {k \in 1..n : F[k] # parts[k]}
<1>6. bad \subseteq Nat
  OBVIOUS
<1>7. CASE bad # {}
  <2> DEFINE m == Min(bad)
  <2>1. m \in bad /\ \A k \in bad : m <= k
    <3> HIDE DEF bad
    <3>1. QED
      BY <1>6, <1>7, MinOfNaturals
  <2> HIDE DEF m
  <2>2. m \in 1..n /\ F[m] # parts[m]
    BY <2>1
  <2>3. F[m] = IF m = 1 THEN seqs[m] ELSE F[m - 1] \o seqs[m]
    BY <1>5, <2>2
  <2>4. m # 1
    BY <1>3, <2>2, <2>3
  <2>5. m - 1 \in 1..n /\ ~(m <= m - 1)
    BY <2>2, <2>4
  <2>6. m - 1 \notin bad
    BY <2>1, <2>5
  <2>7. F[m - 1] = parts[m - 1]
    BY <2>5, <2>6
  <2>8. QED
    BY <1>2, <2>2, <2>3, <2>4, <2>7
<1>8. CASE bad = {}
  <2>1. n \in 1..n
    OBVIOUS
  <2>2. QED
    BY <1>1, <1>8, <2>1
<1>9. QED
  BY <1>7, <1>8

-----------------------------------------------------------------------------
(* The first line: two words, and the rest of it, with spaces between.     *)
SPACE == <<"SP">>

(* The space between two words of the first line.                          *)
LEMMA SpaceIs == SPACE \in Seq(Chars) /\ Len(SPACE) = 1 /\ SPACE[1] = "SP"
<1>1. "SP" \in Chars
  BY DEF Chars
<1>2. QED
  BY <1>1 DEF SPACE

(* The first three of some places.                                         *)
BeginWith(W, b, c) == /\ W \subseteq Nat /\ 1 \in W /\ b \in W /\ c \in W
                      /\ 1 < b /\ b < c
                      /\ \A x \in W : x <= c => x \in {1, b, c}

LEMMA FirstThree ==
  ASSUME NEW W, NEW b, NEW c, BeginWith(W, b, c)
  PROVE  /\ W # {} /\ Min(W) = 1
         /\ Later(W) # {} /\ Min(Later(W)) = b
         /\ Later(Later(W)) # {} /\ Min(Later(Later(W))) = c
         /\ (\A x \in W : x <= c) => Later(Later(Later(W))) = {}
<1>1. /\ W \subseteq Nat /\ 1 \in W /\ b \in W /\ c \in W
      /\ b \in Nat /\ c \in Nat /\ 1 < b /\ b < c
      /\ \A x \in W : x <= c => x \in {1, b, c}
  BY DEF BeginWith
<1>2. \A x \in W : x \in Nat /\ (x = 1 \/ x = b \/ c <= x)
  <2>1. ASSUME NEW x \in W PROVE x \in Nat /\ (x = 1 \/ x = b \/ c <= x)
    <3>1. x \in Nat /\ (x <= c \/ c <= x)
      BY <1>1
    <3>2. QED
      BY <1>1, <3>1
  <2>2. QED
    BY <2>1
<1>3. Min(W) = 1
  <2>1. \A x \in W : 1 <= x
    BY <1>1, <1>2
  <2>2. QED
    BY <1>1, <2>1, MinIs
<1> DEFINE two == Later(W)
           three == Later(two)
<1>4. two = W \ {1}
  <2>1. \A x \in W : x # 1 <=> 1 < x
    BY <1>1, <1>2
  <2>2. \A x, y \in W : y < x => 1 < x
    BY <1>1, <1>2
  <2>3. QED
    BY <1>1, <2>1, <2>2 DEF Later
<1>5. three = W \ {1, b}
  <2>1. \A x \in W : x # 1 /\ x # b => b < x
    BY <1>1, <1>2
  <2>2. \A y \in W : y # 1 => ~(y < b)
    BY <1>1, <1>2
  <2>3. b \in two
    BY <1>1, <1>4
  <2> HIDE DEF two
  <2>4. QED
    BY <1>4, <2>1, <2>2, <2>3 DEF Later
<1> HIDE DEF two, three
<1>6. b \in two /\ c \in three /\ two \subseteq Nat /\ three \subseteq Nat
  BY <1>1, <1>4, <1>5
<1>7. \A x \in two : b <= x
  BY <1>1, <1>2, <1>4
<1>8. \A x \in three : c <= x
  BY <1>1, <1>2, <1>5
<1>9. Min(two) = b /\ Min(three) = c
  BY <1>6, <1>7, <1>8, MinIs
<1>10. ASSUME \A x \in W : x <= c PROVE Later(three) = {}
  <2>1. \A x, y \in three : ~(y < x)
    BY <1>1, <1>2, <1>5, <1>8, <1>10
  <2>2. QED
    BY <2>1 DEF Later
<1>11. QED
  BY <1>1, <1>3, <1>6, <1>9, <1>10 DEF two, three

(* The first line of a printed message: its words are those that were      *)
(* printed, the third of which may begin a text of several words.          *)
LEMMA FirstLineIs ==
  ASSUME NEW t \in Seq(STRING), NEW v, NEW w, NEW rest,
         IsWord(v), IsWord(w), IsStatus(rest),
         Has(t, 0, v \o SPACE \o w \o SPACE \o rest),
         Has(t, Len(v \o SPACE \o w \o SPACE \o rest), EOL)
  PROVE  LET one   == WordStarts(t)
             two   == Later(one)
             three == Later(two)
             n     == Len(v \o SPACE \o w \o SPACE \o rest) + 2
         IN /\ FirstWord(t, one) = v /\ FirstWord(t, two) = w
            /\ three # {}
            /\ IsWord(rest) => FirstWord(t, three) = rest /\ Later(three) = {}
            /\ Stop(t, 1, {"NL"}) = n /\ n \in Nat /\ n <= Len(t)
            /\ LineStarts(t) # {1}
            /\ StripCR(SubSeq(t, Min(three), n - 1)) = rest
<1> DEFINE all == v \o SPACE \o w \o SPACE \o rest
           a   == v \o SPACE
           ab  == a \o w
           abc == ab \o SPACE
           p   == Len(v)
           q   == Len(w)
           r   == Len(rest)
           b   == p + 2
           c   == p + q + 3
           n   == p + q + r + 4
<1>1. /\ v \in Seq(Chars) /\ w \in Seq(Chars) /\ rest \in Seq(Chars)
      /\ p \in Nat \ {0} /\ q \in Nat \ {0} /\ r \in Nat \ {0}
      /\ Len(t) \in Nat
  <2>1. v \in Seq(STRING) /\ w \in Seq(STRING) /\ rest \in Seq(STRING)
        /\ v # <<>> /\ w # <<>> /\ rest # <<>>
    BY DEF IsWord, IsStatus, IsValue, IsText
  <2>2. QED
    BY <2>1, AlsoChars
<1>2. a \in Seq(Chars) /\ Len(a) = p + 1
  <2>1. v \o SPACE \in Seq(Chars) /\ Len(v \o SPACE) = Len(v) + Len(SPACE)
    BY <1>1, SpaceIs, JoinIs
  <2>2. QED
    BY <1>1, SpaceIs, <2>1
<1> HIDE DEF a
<1>3. ab \in Seq(Chars) /\ Len(ab) = p + q + 1
  <2>1. a \o w \in Seq(Chars) /\ Len(a \o w) = Len(a) + Len(w)
    BY <1>1, <1>2, JoinIs
  <2>2. QED
    BY <1>1, <1>2, <2>1
<1> HIDE DEF ab
<1>4. abc \in Seq(Chars) /\ Len(abc) = p + q + 2
  <2>1. ab \o SPACE \in Seq(Chars) /\ Len(ab \o SPACE) = Len(ab) + Len(SPACE)
    BY <1>1, <1>3, SpaceIs, JoinIs
  <2>2. QED
    BY <1>1, <1>3, SpaceIs, <2>1
<1> HIDE DEF abc
<1>5. all = abc \o rest
  BY DEF a, ab, abc
<1>6. Len(all) = p + q + r + 2 /\ Has(t, 0, all) /\ Has(t, Len(all), EOL)
  <2>1. Len(abc \o rest) = Len(abc) + Len(rest)
    BY <1>1, <1>4, JoinIs
  <2>2. Len(all) = p + q + r + 2
    BY <1>1, <1>4, <1>5, <2>1
  <2>3. QED
    BY <2>2
<1> HIDE DEF all
<1>7. Has(t, 0, abc) /\ Has(t, p + q + 2, rest)
  <2>1. Has(t, 0, abc) /\ Has(t, 0 + Len(abc), rest)
    BY <1>1, <1>4, <1>5, <1>6, HasBoth
  <2>2. 0 + Len(abc) = p + q + 2
    BY <1>1, <1>4
  <2>3. QED
    BY <2>1, <2>2
<1>8. Has(t, 0, ab) /\ Has(t, p + q + 1, SPACE)
  <2>1. Has(t, 0, ab) /\ Has(t, 0 + Len(ab), SPACE)
    BY <1>3, <1>7, SpaceIs, HasBoth DEF abc
  <2>2. 0 + Len(ab) = p + q + 1
    BY <1>1, <1>3
  <2>3. QED
    BY <2>1, <2>2
<1>9. Has(t, 0, a) /\ Has(t, p + 1, w)
  <2>1. Has(t, 0, a) /\ Has(t, 0 + Len(a), w)
    BY <1>1, <1>2, <1>8, HasBoth DEF ab
  <2>2. 0 + Len(a) = p + 1
    BY <1>1, <1>2
  <2>3. QED
    BY <2>1, <2>2
<1>10. Has(t, 0, v) /\ Has(t, p, SPACE)
  <2>1. Has(t, 0, v) /\ Has(t, 0 + Len(v), SPACE)
    BY <1>1, <1>9, SpaceIs, HasBoth DEF a
  <2>2. 0 + Len(v) = p
    BY <1>1
  <2>3. QED
    BY <2>1, <2>2
<1>11. /\ \A i \in 1..p : t[0 + i] = v[i]
       /\ \A i \in 1..q : t[(p + 1) + i] = w[i]
       /\ \A i \in 1..r : t[(p + q + 2) + i] = rest[i]
       /\ t[p + 1] = "SP" /\ t[(p + q + 1) + 1] = "SP"
  BY <1>7, <1>8, <1>9, <1>10, SpaceIs DEF Has
<1>12. /\ n <= Len(t) /\ t[n - 1] = "CR" /\ t[n] = "NL" /\ Len(all) + 2 = n
  <2>1. /\ Len(all) + 2 <= Len(t)
        /\ t[Len(all) + 1] = "CR" /\ t[Len(all) + 2] = "NL"
    BY <1>6, EOLIs DEF Has
  <2>2. Len(all) + 2 = n /\ Len(all) + 1 = n - 1
    BY <1>1, <1>6
  <2>3. QED
    BY <2>1, <2>2
<1>13. /\ b \in Nat /\ c \in Nat /\ n \in Nat /\ 1 < b /\ b < c /\ c < n - 1
       /\ b = p + 2 /\ c = b + q + 1 /\ n = c + r + 1
  BY <1>1
<1>14. /\ \A i \in 1..p : t[i] = v[i] /\ ~isspace(t[i]) /\ t[i] # "NL"
       /\ \A i \in b..(c - 2) : ~isspace(t[i]) /\ t[i] # "NL"
       /\ \A i \in c..(n - 2) : t[i] # "NL"
       /\ ~isspace(t[c])
       /\ IsWord(rest) => \A i \in c..(n - 2) : ~isspace(t[i])
  <2>1. ASSUME NEW i \in 1..p PROVE t[i] = v[i] /\ ~isspace(t[i])
    BY <1>1, <1>11 DEF IsWord, IsText
  <2>2. ASSUME NEW i \in b..(c - 2) PROVE ~isspace(t[i])
    <3> DEFINE j == i - (p + 1)
    <3>1. j \in 1..q /\ (p + 1) + j = i
      BY <1>1
    <3> HIDE DEF j
    <3>2. t[i] = w[j]
      BY <1>11, <3>1
    <3>3. QED
      BY <3>1, <3>2 DEF IsWord, IsText
  <2>3. ASSUME NEW i \in c..(n - 2)
        PROVE  t[i] # "NL" /\ (IsWord(rest) => ~isspace(t[i])) /\ (i = c => ~isspace(t[i]))
    <3> DEFINE j == i - (p + q + 2)
    <3>1. j \in 1..r /\ (p + q + 2) + j = i /\ (i = c => j = 1)
      BY <1>1
    <3> HIDE DEF j
    <3>2. t[i] = rest[j]
      BY <1>11, <3>1
    <3>3. QED
      BY <3>1, <3>2 DEF IsWord, IsStatus, IsValue, IsText
  <2>4. c \in c..(n - 2)
    BY <1>1
  <2>5. \A x : ~isspace(x) => x # "NL"
    BY DEF isspace, Space
  <2>6. QED
    BY <2>1, <2>2, <2>3, <2>4, <2>5
<1>15. /\ isspace(t[p + 1]) /\ isspace(t[c - 1]) /\ isspace(t[n - 1])
       /\ t[p + 1] # "NL" /\ t[c - 1] # "NL" /\ t[n - 1] # "NL"
  <2>1. (p + q + 1) + 1 = c - 1
    BY <1>1
  <2>2. QED
    BY <1>11, <1>12, <2>1 DEF isspace, Space
<1> HIDE DEF p, q, r, b, c, n
<1>16. \A i \in 1..(n - 1) : \/ i \in 1..p \/ i = p + 1 \/ i \in b..(c - 2)
                             \/ i = c - 1 \/ i \in c..(n - 2) \/ i = n - 1
  BY <1>1, <1>13
<1>17. Stop(t, 1, {"NL"}) = n
  <2> DEFINE chars == {"NL"}
  <2>1. ASSUME NEW j \in 1..Len(t), j < n PROVE t[j] \notin chars
    <3>1. j \in 1..(n - 1)
      BY <1>13, <2>1
    <3>2. QED
      BY <1>14, <1>15, <1>16, <3>1
  <2>2. n \in 1..(Len(t) + 1) /\ t[n] \in chars
    BY <1>1, <1>12, <1>13
  <2> HIDE DEF chars
  <2>3. Stop(t, 1, chars) = n
    <3>1. 1 \in Nat \ {0}
      OBVIOUS
    <3>2. QED
      BY <2>1, <2>2, <3>1, StopThere
  <2>4. QED
    BY <2>3 DEF chars
<1> DEFINE one == WordStarts(t)
<1>18. one = {i \in 1..(n - 1) : ~isspace(t[i]) /\ (i = 1 \/ isspace(t[i - 1]))}
  BY <1>17 DEF WordStarts
<1> HIDE DEF one
<1>19. one \subseteq Nat /\ 1 \in one /\ b \in one /\ c \in one
  <2>1. 1 \in 1..(n - 1) /\ 1 \in 1..p /\ b \in 1..(n - 1) /\ b \in b..(c - 2)
        /\ b - 1 = p + 1 /\ c \in 1..(n - 1)
    BY <1>1, <1>13
  <2>2. QED
    BY <1>14, <1>15, <1>18, <2>1
<1>20. ASSUME NEW x \in one
       PROVE  /\ x <= c => x \in {1, b, c}
              /\ IsWord(rest) => x <= c
  <2>1. x \in 1..(n - 1) /\ ~isspace(t[x]) /\ (x = 1 \/ isspace(t[x - 1]))
    BY <1>18
  <2>2. x \in 1..p => x = 1
    <3>1. x \in 1..p /\ x # 1 => x - 1 \in 1..p
      BY <1>1
    <3>2. QED
      BY <1>14, <2>1, <3>1
  <2>3. x \in b..(c - 2) => x = b
    <3>1. x \in b..(c - 2) /\ x # b => x - 1 \in b..(c - 2) /\ x # 1
      BY <1>1, <1>13
    <3>2. QED
      BY <1>14, <2>1, <3>1
  <2>4. IsWord(rest) /\ x \in c..(n - 2) => x = c
    <3>1. x \in c..(n - 2) /\ x # c => x - 1 \in c..(n - 2) /\ x # 1
      BY <1>1, <1>13
    <3>2. QED
      BY <1>14, <2>1, <3>1
  <2>5. x # p + 1 /\ x # c - 1 /\ x # n - 1
    BY <1>15, <2>1
  <2>6. x \in 1..p \/ x \in b..(c - 2) \/ x \in c..(n - 2)
    BY <1>16, <2>1, <2>5
  <2>7. x \in c..(n - 2) /\ x <= c => x = c
    BY <1>13
  <2>8. QED
    BY <1>1, <1>13, <2>2, <2>3, <2>4, <2>6, <2>7
<1> DEFINE two == Later(one)
           three == Later(two)
<1>21. /\ one # {} /\ Min(one) = 1 /\ two # {} /\ Min(two) = b
       /\ three # {} /\ Min(three) = c
       /\ IsWord(rest) => Later(three) = {}
  <2>1. \A x \in one : x <= c => x \in {1, b, c}
    BY <1>20
  <2>2. /\ one # {} /\ Min(one) = 1
        /\ Later(one) # {} /\ Min(Later(one)) = b
        /\ Later(Later(one)) # {} /\ Min(Later(Later(one))) = c
        /\ (\A x \in one : x <= c) => Later(Later(Later(one))) = {}
    <3>1. BeginWith(one, b, c)
      BY <1>13, <1>19, <2>1 DEF BeginWith
    <3>2. QED
      BY <3>1, FirstThree
  <2>3. QED
    BY <1>20, <2>2
<1> HIDE DEF two, three
<1>22. FirstWord(t, one) = v
  <2>1. 0 + 1 = 1 /\ 0 + Len(v) + 1 = p + 1 /\ p + 1 <= Len(t)
    BY <1>1, <1>12, <1>13 DEF p
  <2>2. SubSeq(t, 0 + 1, Stop(t, 0 + 1, Space) - 1) = v
    <3>1. \A i \in 1..Len(v) : ~isspace(v[i])
      BY DEF IsWord, IsText
    <3>2. QED
      BY <1>10, <1>15, <2>1, <3>1, WordThere
  <2>3. QED
    BY <1>21, <2>1, <2>2 DEF FirstWord
<1>23. FirstWord(t, two) = w
  <2> DEFINE d == p + 1
  <2>1. d \in Nat /\ d + 1 = b /\ d + Len(w) + 1 = c - 1 /\ c - 1 <= Len(t)
    BY <1>1, <1>12, <1>13 DEF q
  <2>2. SubSeq(t, d + 1, Stop(t, d + 1, Space) - 1) = w
    <3>1. \A i \in 1..Len(w) : ~isspace(w[i])
      BY DEF IsWord, IsText
    <3> HIDE DEF d
    <3>2. Has(t, d, w)
      BY <1>9 DEF d
    <3>3. QED
      BY <1>15, <2>1, <3>1, <3>2, WordThere
  <2> HIDE DEF d
  <2>3. QED
    BY <1>21, <2>1, <2>2 DEF FirstWord
<1>24. ASSUME IsWord(rest) PROVE FirstWord(t, three) = rest
  <2> DEFINE d == p + q + 2
  <2>1. d \in Nat /\ d + 1 = c /\ d + Len(rest) + 1 = n - 1 /\ n - 1 <= Len(t)
    BY <1>1, <1>12, <1>13 DEF r
  <2>2. SubSeq(t, d + 1, Stop(t, d + 1, Space) - 1) = rest
    <3>1. \A i \in 1..Len(rest) : ~isspace(rest[i])
      BY <1>24 DEF IsWord, IsText
    <3> HIDE DEF d
    <3>2. Has(t, d, rest)
      BY <1>7 DEF d
    <3>3. QED
      BY <1>15, <2>1, <3>1, <3>2, WordThere
  <2> HIDE DEF d
  <2>3. QED
    BY <1>21, <2>1, <2>2 DEF FirstWord
<1>25. StripCR(SubSeq(t, c, n - 1)) = rest
  <2> DEFINE d == p + q + 2
  <2>1. d \in Nat /\ d + 1 = c /\ d + Len(rest) = Len(all)
    BY <1>1, <1>6, <1>13 DEF r
  <2> HIDE DEF d
  <2>2. Has(t, d, rest) /\ Has(t, d + Len(rest), EOL) /\ \A i \in 1..Len(rest) : rest[i] # "NL"
    BY <1>6, <1>7, <2>1 DEF d, IsStatus, IsValue, IsText
  <2>3. Stop(t, d + 1, {"NL"}) = d + Len(rest) + 2 /\ LineAt(t, d + 1) = rest
    BY <2>1, <2>2, LineThere
  <2>4. d + Len(rest) + 2 = n
    BY <1>12, <2>1
  <2>5. QED
    BY <2>1, <2>3, <2>4 DEF LineAt
<1>26. LineStarts(t) # {1}
  <2>1. n \in 1..Len(t) /\ n + 1 # 1
    BY <1>12, <1>13
  <2>2. n + 1 \in LineStarts(t)
    BY <1>12, <2>1 DEF LineStarts
  <2>3. QED
    BY <2>1, <2>2
<1>27. QED
  BY <1>12, <1>13, <1>17, <1>21, <1>22, <1>23, <1>24, <1>25, <1>26
     DEF all, one, two, three

-----------------------------------------------------------------------------
(* What has been joined is there, one after the other.                     *)
AllThere(t, base, seqs, parts, n) ==
  \A k \in 1..n : /\ Has(t, base + Len(parts[k - 1]), seqs[k])
                 /\ Len(parts[k]) = Len(parts[k - 1]) + Len(seqs[k])

LEMMA PartsThere ==
  ASSUME NEW t \in Seq(STRING), NEW base \in Nat,
         NEW seqs, NEW n \in Nat, NEW parts, Joined(seqs, n, parts),
         AreTexts(seqs, n), Has(t, base, parts[n])
  PROVE  AllThere(t, base, seqs, parts, n)
<1> DEFINE bad == {d \in 0..n : ~Has(t, base, parts[n - d])}
<1>0. /\ \A k \in 1..n : parts[k] = parts[k - 1] \o seqs[k]
      /\ \A k \in 0..n : parts[k] \in Seq(Chars)
      /\ \A k \in 1..n : seqs[k] \in Seq(Chars)
  BY DEF Joined, AreTexts
<1>1. ASSUME NEW k \in 1..n, Has(t, base, parts[k])
      PROVE  /\ Has(t, base, parts[k - 1])
             /\ Has(t, base + Len(parts[k - 1]), seqs[k])
             /\ Len(parts[k]) = Len(parts[k - 1]) + Len(seqs[k])
  <2> DEFINE v == parts[k - 1]
             w == seqs[k]
  <2>1. v \in Seq(Chars) /\ w \in Seq(Chars) /\ parts[k] = v \o w
    <3>1. k - 1 \in 0..n
      OBVIOUS
    <3>2. QED
      BY <1>0, <3>1
  <2> HIDE DEF v, w
  <2>2. Has(t, base, v \o w)
    BY <1>1, <2>1
  <2>3. Has(t, base, v) /\ Has(t, base + Len(v), w) /\ Len(v \o w) = Len(v) + Len(w)
    BY <2>1, <2>2, HasBoth
  <2>4. QED
    BY <2>1, <2>3 DEF v, w
<1>2. bad \subseteq Nat
  OBVIOUS
<1>3. CASE bad # {}
  <2> DEFINE d == Min(bad)
             k == n - (d - 1)
  <2>1. d \in bad /\ \A x \in bad : d <= x
    <3> HIDE DEF bad
    <3>1. QED
      BY <1>2, <1>3, MinOfNaturals
  <2> HIDE DEF d
  <2>2. d \in 0..n /\ ~Has(t, base, parts[n - d])
    BY <2>1
  <2>3. d # 0
    <3>1. d = 0 => n - d = n
      OBVIOUS
    <3>2. QED
      BY <2>2, <3>1
  <2>4. d - 1 \in 0..n /\ ~(d <= d - 1) /\ k \in 1..n /\ k - 1 = n - d
    BY <2>2, <2>3
  <2>5. d - 1 \notin bad
    BY <2>1, <2>4
  <2>6. Has(t, base, parts[k])
    BY <2>4, <2>5
  <2> HIDE DEF k
  <2>7. Has(t, base, parts[k - 1])
    BY <1>1, <2>4, <2>6
  <2>8. QED
    BY <2>2, <2>4, <2>7
<1>4. CASE bad = {}
  <2>1. ASSUME NEW k \in 1..n PROVE Has(t, base, parts[k])
    <3>1. n - k \in 0..n /\ n - (n - k) = k
      OBVIOUS
    <3>2. n - k \notin bad
      BY <1>4
    <3>3. QED
      BY <3>1, <3>2
  <2>2. QED
    BY <1>1, <2>1 DEF AllThere
<1>5. QED
  BY <1>3, <1>4

(* A line and its end.                                                    *)
LEMMA HasLine ==
  ASSUME NEW t \in Seq(STRING), NEW place \in Nat, NEW line \in Seq(Chars),
         Has(t, place, line \o EOL)
  PROVE  /\ Has(t, place, line) /\ Has(t, place + Len(line), EOL)
         /\ Len(line \o EOL) = Len(line) + 2
<1>1. EOL \in Seq(Chars) /\ Len(EOL) = 2
  BY EOLIs
<1> DEFINE w == EOL
<1> HIDE DEF w
<1>2. w \in Seq(Chars) /\ Has(t, place, line \o w)
  BY <1>1 DEF w
<1>3. /\ Has(t, place, line) /\ Has(t, place + Len(line), w)
      /\ Len(line \o w) = Len(line) + Len(w)
  BY <1>2, HasBoth
<1>4. QED
  BY <1>1, <1>3 DEF w

(* The first k of some headers have been read at a place.                  *)
ReadTo(t, place, names, values, k) ==
  /\ AtLine(t, place)
  /\ \A h \in Before(t, place) : Colon(LineAt(t, h)) # 0
  /\ DOMAIN HeadersAt(t, Before(t, place)) = {Lower(names[i]) : i \in 1..k}
  /\ \A i \in 1..k : HeadersAt(t, Before(t, place))[Lower(names[i])] = values[i]

(* One more printed header is read, at the place behind it.                *)
LEMMA OneMorePrinted ==
  ASSUME NEW t \in Seq(STRING), NEW place \in Nat, NEW names, NEW values, NEW k \in Nat,
         ReadTo(t, place, names, values, k),
         IsName(names[k + 1]), IsValue(values[k + 1]),
         \A i \in 1..k : Lower(names[i]) # Lower(names[k + 1]),
         Has(t, place, PrintedHeader(names[k + 1], values[k + 1]) \o EOL)
  PROVE  ReadTo(t, place + Len(PrintedHeader(names[k + 1], values[k + 1]) \o EOL),
                names, values, k + 1)
<1> DEFINE n    == k + 1
           name == names[n]
           value == values[n]
           line == PrintedHeader(name, value)
           next == place + Len(line \o EOL)
           old  == HeadersAt(t, Before(t, place))
           new  == HeadersAt(t, Before(t, next))
<1>1. /\ line \in Seq(Chars) /\ Colon(line) # 0
      /\ Name(line) = Lower(name) /\ Value(line) = value
      /\ \A i \in 1..Len(line) : line[i] # "NL"
  <2> HIDE DEF name, value
  <2>1. IsName(name) /\ IsValue(value)
    BY DEF name, value
  <2>2. QED
    BY <2>1, HeaderIs
<1> HIDE DEF line
<1>2. /\ Has(t, place, line) /\ Has(t, place + Len(line), EOL)
      /\ Len(line \o EOL) = Len(line) + 2
  <2>1. Has(t, place, line \o EOL)
    BY DEF line
  <2>2. QED
    BY <1>1, <2>1, HasLine
<1>3. /\ Len(line) \in Nat /\ Len(t) \in Nat
      /\ next = place + Len(line) + 2
  BY <1>1, <1>2
<1>4. /\ Stop(t, place + 1, {"NL"}) = next /\ next <= Len(t)
      /\ LineAt(t, place + 1) = line
  BY <1>1, <1>2, <1>3, LineThere
<1> HIDE DEF next
<1>5. /\ next \in Nat /\ AtLine(t, next) /\ AtLine(t, place)
      /\ Before(t, place) \subseteq Nat /\ \A h \in Before(t, place) : h < place + 1
      /\ Before(t, next) = Before(t, place) \cup {place + 1}
  <2>1. AtLine(t, place) /\ place <= Len(t)
    BY <1>3, <1>4 DEF ReadTo
  <2>2. QED
    BY <1>4, <2>1, NextLine
<1>6. ASSUME NEW h \in Before(t, next) PROVE Colon(LineAt(t, h)) # 0
  BY <1>1, <1>4, <1>5 DEF ReadTo
<1>7. new = Put(old, Lower(name), value)
  <2> DEFINE S == Before(t, place)
             i == place + 1
  <2>1. S \subseteq Nat /\ i \in Nat /\ \A h \in S : h < i
    BY <1>5
  <2> HIDE DEF S, i
  <2>2. HeadersAt(t, S \cup {i})
          = Put(HeadersAt(t, S), Name(LineAt(t, i)), Value(LineAt(t, i)))
    BY <2>1, OneMoreHeader
  <2>3. QED
    BY <1>1, <1>4, <1>5, <2>2 DEF S, i
<1>8. /\ DOMAIN old = {Lower(names[i]) : i \in 1..k}
      /\ \A i \in 1..k : old[Lower(names[i])] = values[i]
  BY DEF ReadTo
<1> HIDE DEF old, new
<1>9. new = [x \in DOMAIN old \cup {Lower(name)} |-> IF x = Lower(name) THEN value ELSE old[x]]
  BY <1>7 DEF Put
<1>10. \A i : i \in 1..n <=> i \in 1..k \/ i = n
  OBVIOUS
<1>11. DOMAIN new = {Lower(names[i]) : i \in 1..n}
  <2> HIDE DEF n
  <2>1. DOMAIN new = {Lower(names[i]) : i \in 1..k} \cup {Lower(names[n])}
    BY <1>8, <1>9
  <2>2. QED
    BY <1>10, <2>1
<1>12. ASSUME NEW i \in 1..n PROVE new[Lower(names[i])] = values[i]
  <2> HIDE DEF n
  <2>1. Lower(names[i]) \in DOMAIN old \cup {Lower(name)}
    BY <1>8, <1>10
  <2>2. CASE i = n
    BY <1>9, <2>1, <2>2
  <2>3. CASE i # n
    <3>1. i \in 1..k
      BY <1>10, <2>3
    <3>2. Lower(names[i]) # Lower(name)
      BY <3>1 DEF n
    <3>3. QED
      BY <1>8, <1>9, <2>1, <3>1, <3>2
  <2>4. QED
    BY <2>2, <2>3
<1>13. ReadTo(t, next, names, values, n)
  BY <1>5, <1>6, <1>11, <1>12 DEF ReadTo, new
<1>14. QED
  BY <1>13 DEF next, line

-----------------------------------------------------------------------------
(* The lines of some headers, whose names differ in more than case.        *)
AreListed(names, values, n) ==
  /\ \A i \in 1..n : IsName(names[i]) /\ IsValue(values[i])
  /\ \A i, j \in 1..n : Lower(names[i]) = Lower(names[j]) => i = j

AreLines(seqs, names, values, n) ==
  \A i \in 1..n : seqs[i] = PrintedHeader(names[i], values[i]) \o EOL

(* Each of these lines is made of characters.                              *)
LEMMA LinesAre ==
  ASSUME NEW seqs, NEW names, NEW values, NEW n \in Nat,
         AreListed(names, values, n), AreLines(seqs, names, values, n)
  PROVE  AreTexts(seqs, n)
<1>1. ASSUME NEW i \in 1..n PROVE seqs[i] \in Seq(Chars)
  <2> DEFINE line == PrintedHeader(names[i], values[i])
  <2>1. IsName(names[i]) /\ IsValue(values[i])
    BY DEF AreListed
  <2>2. line \in Seq(Chars)
    BY <2>1, HeaderIs
  <2>3. seqs[i] = line \o EOL
    BY DEF AreLines
  <2> HIDE DEF line
  <2>4. QED
    BY <2>2, <2>3, EOLIs, JoinIs
<1>2. QED
  BY <1>1 DEF AreTexts

(* When all of the lines are there, all of the headers are read.           *)
LEMMA AllPrintedRead ==
  ASSUME NEW t \in Seq(STRING), NEW base \in Nat,
         AtLine(t, base), Before(t, base) = {},
         NEW seqs, NEW names, NEW values, NEW n \in Nat, NEW parts,
         AreListed(names, values, n), AreLines(seqs, names, values, n),
         Joined(seqs, n, parts), Has(t, base, parts[n])
  PROVE  ReadTo(t, base + Len(parts[n]), names, values, n)
<1> DEFINE place(k) == base + Len(parts[k])
           bad == {k \in 0..n : ~ReadTo(t, place(k), names, values, k)}
<1>1. \A k \in 1..n : /\ Has(t, place(k - 1), seqs[k])
                      /\ Len(parts[k]) = Len(parts[k - 1]) + Len(seqs[k])
  <2>1. AreTexts(seqs, n)
    BY LinesAre
  <2>2. QED
    <3>1. AllThere(t, base, seqs, parts, n)
      BY <2>1, PartsThere
    <3>2. QED
      BY <3>1 DEF AllThere
<1>2. \A k \in 0..n : Len(parts[k]) \in Nat
  BY DEF Joined
<1>3. ReadTo(t, place(0), names, values, 0)
  <2>1. parts[0] = <<>> /\ Len(<<>>) = 0
    BY DEF Joined
  <2>2. place(0) = base
    BY <2>1
  <2>3. DOMAIN <<>> = {} /\ 1..0 = {}
    OBVIOUS
  <2> DEFINE no == {}
  <2>4. HeadersAt(t, no) = <<>> /\ Before(t, base) = no
    BY NoHeaders
  <2> HIDE DEF no
  <2>5. DOMAIN HeadersAt(t, Before(t, base)) = {}
    BY <2>3, <2>4
  <2>6. QED
    BY <2>2, <2>3, <2>5 DEF ReadTo
<1>4. bad \subseteq Nat
  OBVIOUS
<1>5. CASE bad # {}
  <2> DEFINE d == Min(bad)
             k == d - 1
  <2>1. d \in bad /\ \A x \in bad : d <= x
    <3> HIDE DEF bad
    <3>1. QED
      BY <1>4, <1>5, MinOfNaturals
  <2> HIDE DEF d
  <2>2. d \in 0..n /\ ~ReadTo(t, place(d), names, values, d)
    BY <2>1
  <2>3. d # 0
    BY <1>3, <2>2
  <2>4. k \in 0..n /\ k \in Nat /\ ~(d <= k) /\ d \in 1..n /\ d = k + 1
    BY <2>2, <2>3
  <2> HIDE DEF k
  <2>5. ReadTo(t, place(k), names, values, k)
    BY <2>1, <2>4
  <2>6. /\ Has(t, place(k), seqs[k + 1]) /\ place(k) \in Nat
        /\ place(k + 1) = place(k) + Len(seqs[k + 1])
    <3> DEFINE l == Len(seqs[d])
               a == Len(parts[k])
               b == Len(parts[d])
    <3>1. d - 1 = k
      BY <2>4
    <3>2. Has(t, place(k), seqs[d]) /\ b = a + l
      BY <1>1, <2>4, <3>1
    <3>3. a \in Nat /\ b \in Nat /\ l \in Nat
      BY <1>2, <2>2, <2>4, LinesAre DEF AreTexts
    <3>4. place(k) = base + a /\ place(d) = base + b
      OBVIOUS
    <3> HIDE DEF l, a, b, place
    <3>5. place(k) \in Nat /\ place(d) = place(k) + l
      BY <3>2, <3>3, <3>4
    <3>6. QED
      BY <2>4, <3>2, <3>5 DEF l
  <2>7. seqs[k + 1] = PrintedHeader(names[k + 1], values[k + 1]) \o EOL
    BY <2>4 DEF AreLines
  <2>8. /\ IsName(names[k + 1]) /\ IsValue(values[k + 1])
        /\ \A i \in 1..k : Lower(names[i]) # Lower(names[k + 1])
    <3>1. k + 1 \in 1..n /\ \A i \in 1..k : i \in 1..n /\ i # k + 1
      BY <2>4
    <3>2. QED
      BY <3>1 DEF AreListed
  <2> DEFINE here == place(k)
             next == place(k + 1)
  <2>9. ReadTo(t, next, names, values, k + 1)
    <3>1. /\ here \in Nat /\ ReadTo(t, here, names, values, k)
          /\ Has(t, here, PrintedHeader(names[k + 1], values[k + 1]) \o EOL)
          /\ next = here + Len(PrintedHeader(names[k + 1], values[k + 1]) \o EOL)
      BY <2>5, <2>6, <2>7
    <3> HIDE DEF here, next
    <3>2. QED
      BY <2>4, <2>8, <3>1, OneMorePrinted
  <2>10. QED
    BY <2>2, <2>4, <2>9
<1>6. CASE bad = {}
  <2>1. n \in 0..n
    OBVIOUS
  <2>2. n \notin bad
    BY <1>6
  <2>3. QED
    BY <2>1, <2>2
<1>7. QED
  BY <1>5, <1>6

(* Behind the headers comes an empty line, and behind that the body.       *)
LEMMA BodyThere ==
  ASSUME NEW t \in Seq(STRING), NEW place \in Nat,
         NEW names, NEW values, NEW n, ReadTo(t, place, names, values, n),
         Has(t, place, EOL), NEW body, IsBody(body),
         Has(t, place + 2, body), Len(t) = place + 2 + Len(body)
  PROVE  HeadersOf(t) = HeadersAt(t, Before(t, place)) /\ BodyOf(t) = body
<1> DEFINE w == <<>>
<1>1. w \in Seq(Chars) /\ Len(w) = 0 /\ \A i \in 1..Len(w) : w[i] # "NL"
  OBVIOUS
<1>2. Len(t) \in Nat /\ Len(body) \in Nat /\ place + 2 <= Len(t)
  BY DEF IsBody, IsText
<1>3. /\ Stop(t, place + 1, {"NL"}) = place + 2 /\ LineAt(t, place + 1) = w
  <2> HIDE DEF w
  <2>1. Has(t, place, w)
    <3>1. place + Len(w) <= Len(t) /\ \A i \in 1..Len(w) : t[place + i] = w[i]
      BY <1>1, <1>2
    <3>2. QED
      BY <1>1, <3>1 DEF Has
  <2>2. place + Len(w) = place /\ Has(t, place + Len(w), EOL)
    BY <1>1
  <2>3. /\ Stop(t, place + 1, {"NL"}) = place + Len(w) + 2
        /\ LineAt(t, place + 1) = w
    BY <1>1, <2>1, <2>2, LineThere
  <2>4. QED
    BY <1>1, <2>3
<1>4. Colon(LineAt(t, place + 1)) = 0
  <2>1. w \in Seq(STRING) /\ \A i \in 1..Len(w) : w[i] # ":"
    OBVIOUS
  <2>2. Colon(w) = 0
    BY <2>1, NoColon
  <2>3. QED
    BY <1>3, <2>2
<1>5. /\ HeaderStarts(t) = Before(t, place)
      /\ BodyOf(t) = IF BlankFrom(t, place + 2) THEN <<>>
                     ELSE SubSeq(t, (place + 2) + 1, Len(t))
  <2>1. /\ AtLine(t, place) /\ place <= Len(t)
        /\ \A h \in Before(t, place) : Colon(LineAt(t, h)) # 0
    BY <1>2 DEF ReadTo
  <2>2. QED
    BY <1>3, <1>4, <2>1, HeadersEnd
<1> DEFINE e == place + 2
<1>6. /\ e \in Nat /\ Len(t) = e + Len(body)
      /\ \A i \in 1..Len(body) : t[e + i] = body[i]
  BY <1>2 DEF Has
<1> HIDE DEF e
<1>7. BodyOf(t) = body
  <2>1. CASE body = <<>>
    <3>1. Len(body) = 0
      BY <2>1
    <3>2. (e + 1)..Len(t) = {}
      BY <1>2, <1>6, <3>1
    <3>3. BlankFrom(t, e)
      BY <3>2 DEF BlankFrom
    <3>4. QED
      BY <1>5, <2>1, <3>3 DEF e
  <2>2. CASE body # <<>>
    <3>1. PICK i \in 1..Len(body) : ~isspace(body[i])
      BY <2>2 DEF IsBody, IsText
    <3>2. e + i \in (e + 1)..Len(t) /\ ~isspace(t[e + i])
      BY <1>2, <1>6, <3>1
    <3>3. ~BlankFrom(t, e)
      BY <3>2 DEF BlankFrom
    <3>4. SubSeq(t, e + 1, Len(t)) = body
      <4>1. Has(t, e, body)
        BY DEF e
      <4>2. SubSeq(t, e + 1, e + Len(body)) = body
        BY <1>6, <4>1, HasSub
      <4>3. QED
        BY <1>6, <4>2
    <3>5. QED
      BY <1>5, <3>3, <3>4 DEF e
  <2>3. QED
    BY <2>1, <2>2
<1>8. QED
  BY <1>5, <1>7 DEF HeadersOf

-----------------------------------------------------------------------------
(* An enumeration leaves nothing out.                                      *)
LEMMA AllListed ==
  ASSUME NEW S, IsFiniteSet(S), NEW names \in Printer!SetToSeqs(S)
  PROVE  /\ Cardinality(S) \in Nat /\ DOMAIN names = 1..Cardinality(S)
         /\ S = {names[i] : i \in 1..Cardinality(S)}
         /\ \A i, j \in 1..Cardinality(S) : names[i] = names[j] => i = j
<1> DEFINE n == Cardinality(S)
           D == 1..n
<1>1. n \in Nat
  BY FS_CardinalityType
<1>2. /\ names \in [D -> S] /\ \A i, j \in D : i # j => names[i] # names[j]
  <2>1. Printer!Cardinality(S) = n
    BY DEF Printer!Cardinality, Cardinality
  <2>2. QED
    BY <2>1 DEF Printer!SetToSeqs
<1>3. IsFiniteSet(D) /\ Cardinality(D) = n
  <2>1. IsFiniteSet(1..n) /\ Cardinality(1..n) = IF 1 > n THEN 0 ELSE n - 1 + 1
    BY <1>1, FS_Interval
  <2>2. QED
    BY <1>1, <2>1
<1> HIDE DEF D
<1>4. names \in Injection(D, S)
  BY <1>2 DEF Injection, IsInjective
<1>5. names \in Surjection(D, S)
  BY <1>3, <1>4, FS_Injection
<1>6. \A x \in S : \E i \in D : names[i] = x
  BY <1>5 DEF Surjection
<1>7. QED
  BY <1>1, <1>2, <1>6 DEF D

-----------------------------------------------------------------------------

(* The lines of some headers, and their names and values in that order.    *)
ArePrinted(headers, lines, names, values, n) ==
  /\ n \in Nat /\ AreListed(names, values, n)
  /\ DOMAIN headers = {names[i] : i \in 1..n}
  /\ \A i \in 1..n : values[i] = headers[names[i]]
  /\ \E seqs, parts : AreLines(seqs, names, values, n) /\ Joined(seqs, n, parts)
                      /\ lines = parts[n]

(* In whatever order to_string finds the headers, it prints such lines.    *)
LEMMA HeaderLinesAre ==
  ASSUME NEW headers, AreHeaders(headers), NEW lines \in Printer!HeaderLines(headers)
  PROVE  /\ lines \in Seq(Chars)
         /\ \E names, values, n : ArePrinted(headers, lines, names, values, n)
<1> DEFINE S == DOMAIN headers
           n == Cardinality(S)
           Line(names, i) == PrintedHeader(names[i], headers[names[i]]) \o EOL
<1>1. PICK names \in Printer!SetToSeqs(S) :
        lines = Printer!FlattenSeq([i \in DOMAIN names |-> Line(names, i)])
  BY DEF Printer!HeaderLines, PrintedHeader, EOL
<1> DEFINE seqs == [i \in 1..n |-> Line(names, i)]
           values == [i \in 1..n |-> headers[names[i]]]
<1>2. /\ n \in Nat /\ DOMAIN names = 1..n /\ S = {names[i] : i \in 1..n}
      /\ \A i, j \in 1..n : names[i] = names[j] => i = j
  <2>1. IsFiniteSet(S)
    BY DEF AreHeaders
  <2> HIDE DEF S
  <2>2. QED
    BY <2>1, AllListed
<1> HIDE DEF S, n, Line
<1>3. lines = Printer!FlattenSeq(seqs)
  BY <1>1, <1>2
<1>4. /\ \A i \in 1..n : IsName(names[i]) /\ IsValue(headers[names[i]])
      /\ \A i, j \in 1..n : Lower(names[i]) = Lower(names[j]) => i = j
  BY <1>2 DEF AreHeaders, S
<1>5. \A i \in 1..n : values[i] = headers[names[i]] /\ seqs[i] = Line(names, i)
  OBVIOUS
<1> HIDE DEF values
<1>6. AreListed(names, values, n)
  BY <1>4, <1>5 DEF AreListed
<1>7. AreLines(seqs, names, values, n)
  BY <1>5 DEF AreLines, Line
<1>8. AreTexts(seqs, n)
  <2> HIDE DEF seqs
  <2>1. QED
    BY <1>2, <1>6, <1>7, LinesAre
<1>9. Len(seqs) = n
  <2>1. seqs \in [1..n -> Seq(Chars)]
    BY <1>8 DEF AreTexts
  <2>2. seqs \in Seq(Seq(Chars)) /\ DOMAIN seqs = 1..n
    BY <1>2, <2>1
  <2> HIDE DEF seqs
  <2>3. QED
    BY <1>2, <2>2
<1> HIDE DEF seqs
<1>10. PICK parts : Joined(seqs, n, parts)
  BY <1>2, <1>8, CanBeJoined
<1>11. lines = parts[n]
  <2>1. CASE n # 0
    BY <1>2, <1>3, <1>9, <1>10, <2>1, FlattenIs
  <2>2. CASE n = 0
    <3>1. lines = seqs
      BY <1>3, <1>9, <2>2 DEF Printer!FlattenSeq
    <3>2. seqs = <<>>
      BY <2>2 DEF seqs
    <3>3. QED
      BY <1>10, <2>2, <3>1, <3>2 DEF Joined
  <2>3. QED
    BY <2>1, <2>2
<1>12. lines \in Seq(Chars)
  <2>1. n \in 0..n
    BY <1>2
  <2>2. QED
    BY <1>10, <1>11, <2>1 DEF Joined
<1>13. ArePrinted(headers, lines, names, values, n)
  BY <1>2, <1>5, <1>6, <1>7, <1>10, <1>11 DEF ArePrinted, S
<1>14. QED
  BY <1>12, <1>13

(* What to_string prints after the first line is read again.               *)
LEMMA PrintedRead ==
  ASSUME NEW t \in Seq(STRING), NEW base \in Nat,
         AtLine(t, base), Before(t, base) = {},
         NEW headers, AreHeaders(headers), NEW lines \in Printer!HeaderLines(headers),
         Has(t, base, lines), Has(t, base + Len(lines), EOL),
         NEW body, IsBody(body), Has(t, base + Len(lines) + 2, body),
         Len(t) = base + Len(lines) + 2 + Len(body)
  PROVE  HeadersOf(t) = LowerNames(headers) /\ BodyOf(t) = body
<1>1. PICK names, values, n : ArePrinted(headers, lines, names, values, n)
  BY HeaderLinesAre
<1>2. PICK seqs, parts : /\ AreLines(seqs, names, values, n) /\ Joined(seqs, n, parts)
                         /\ lines = parts[n]
  BY <1>1 DEF ArePrinted
<1>3. /\ n \in Nat /\ AreListed(names, values, n)
      /\ DOMAIN headers = {names[i] : i \in 1..n}
      /\ \A i \in 1..n : values[i] = headers[names[i]]
  BY <1>1 DEF ArePrinted
<1> DEFINE place == base + Len(lines)
           found == HeadersAt(t, Before(t, place))
           names2 == {Lower(h) : h \in DOMAIN headers}
<1>4. ReadTo(t, place, names, values, n)
  BY <1>2, <1>3, AllPrintedRead
<1>5. Len(lines) \in Nat /\ place \in Nat
  BY HeaderLinesAre
<1> HIDE DEF place, found
<1>6. HeadersOf(t) = found /\ BodyOf(t) = body
  <2>1. Has(t, place, EOL) /\ Has(t, place + 2, body) /\ Len(t) = place + 2 + Len(body)
    BY DEF place
  <2>2. QED
    BY <1>4, <1>5, <2>1, BodyThere DEF found
<1>7. DOMAIN found = names2
  BY <1>3, <1>4 DEF ReadTo, found
<1>8. ASSUME NEW name \in names2
      PROVE  found[name] = headers[CHOOSE h \in DOMAIN headers : Lower(h) = name]
  <2> DEFINE h == CHOOSE h \in DOMAIN headers : Lower(h) = name
  <2>1. h \in DOMAIN headers /\ Lower(h) = name
    OBVIOUS
  <2> HIDE DEF h
  <2>2. PICK i \in 1..n : names[i] = h
    BY <1>3, <2>1
  <2>3. found[Lower(names[i])] = values[i]
    BY <1>4 DEF ReadTo, found
  <2>4. found[name] = headers[h]
    BY <1>3, <2>1, <2>2, <2>3
  <2>5. QED
    BY <2>4 DEF h
<1>9. found = [name \in DOMAIN found |-> found[name]]
  BY DEF found, HeadersAt
<1>10. found = LowerNames(headers)
  BY <1>7, <1>8, <1>9 DEF LowerNames
<1>11. QED
  BY <1>6, <1>10

-----------------------------------------------------------------------------
(* All of a text that was printed.                                         *)
LEMMA TextIs ==
  ASSUME NEW t \in Seq(STRING), NEW first \in Seq(Chars), NEW lines \in Seq(Chars),
         NEW body \in Seq(Chars), t = first \o EOL \o lines \o EOL \o body
  PROVE  LET base == Len(first) + 2
         IN /\ Has(t, 0, first) /\ Has(t, Len(first), EOL)
            /\ Has(t, base, lines) /\ Has(t, base + Len(lines), EOL)
            /\ Has(t, base + Len(lines) + 2, body)
            /\ Len(t) = base + Len(lines) + 2 + Len(body)
<1> DEFINE eol == EOL
<1>1. eol \in Seq(Chars) /\ Len(eol) = 2
  BY EOLIs
<1> HIDE DEF eol
<1> DEFINE a == first \o eol
           b == a \o lines
           c == b \o eol
           f == Len(first)
           l == Len(lines)
<1>2. f \in Nat /\ l \in Nat /\ Len(body) \in Nat /\ Len(t) \in Nat
  OBVIOUS
<1>3. t = c \o body
  BY DEF eol
<1>4. a \in Seq(Chars) /\ Len(a) = f + 2
  <2>1. a \in Seq(Chars) /\ Len(a) = Len(first) + Len(eol)
    BY <1>1, JoinIs
  <2>2. QED
    BY <1>1, <2>1
<1> HIDE DEF a
<1>5. b \in Seq(Chars) /\ Len(b) = f + 2 + l
  <2>1. b \in Seq(Chars) /\ Len(b) = Len(a) + Len(lines)
    BY <1>4, JoinIs
  <2>2. QED
    BY <1>4, <2>1
<1> HIDE DEF b
<1>6. c \in Seq(Chars) /\ Len(c) = f + 2 + l + 2
  <2>1. c \in Seq(Chars) /\ Len(c) = Len(b) + Len(eol)
    BY <1>1, <1>5, JoinIs
  <2>2. QED
    BY <1>1, <1>5, <2>1
<1> HIDE DEF c
<1> DEFINE all == c \o body
<1>7. /\ all \in Seq(Chars) /\ Len(all) = f + 2 + l + 2 + Len(body) /\ t = all
  <2>1. all \in Seq(Chars) /\ Len(all) = Len(c) + Len(body)
    BY <1>3, <1>6, JoinIs
  <2>2. QED
    BY <1>3, <1>6, <2>1
<1>8. Has(t, 0, all)
  <2> HIDE DEF all
  <2>1. 0 + Len(all) <= Len(t) /\ \A i \in 1..Len(all) : t[0 + i] = all[i]
    BY <1>2, <1>7
  <2>2. QED
    BY <1>7, <2>1 DEF Has
<1> HIDE DEF f, l
<1>9. Has(t, 0, c) /\ Has(t, f + 2 + l + 2, body)
  <2>1. Has(t, 0, c) /\ Has(t, 0 + Len(c), body)
    BY <1>6, <1>8, HasBoth
  <2>2. 0 + Len(c) = f + 2 + l + 2
    BY <1>2, <1>6
  <2>3. QED
    BY <2>1, <2>2
<1>10. Has(t, 0, b) /\ Has(t, f + 2 + l, eol)
  <2>1. Has(t, 0, b) /\ Has(t, 0 + Len(b), eol)
    BY <1>1, <1>5, <1>9, HasBoth DEF c
  <2>2. 0 + Len(b) = f + 2 + l
    BY <1>2, <1>5
  <2>3. QED
    BY <2>1, <2>2
<1>11. Has(t, 0, a) /\ Has(t, f + 2, lines)
  <2>1. Has(t, 0, a) /\ Has(t, 0 + Len(a), lines)
    BY <1>4, <1>10, HasBoth DEF b
  <2>2. 0 + Len(a) = f + 2
    BY <1>2, <1>4
  <2>3. QED
    BY <2>1, <2>2
<1>12. Has(t, 0, first) /\ Has(t, f, eol)
  <2>1. Has(t, 0, first) /\ Has(t, 0 + Len(first), eol)
    BY <1>1, <1>11, HasBoth DEF a
  <2>2. 0 + Len(first) = f
    BY <1>2 DEF f
  <2>3. QED
    BY <2>1, <2>2
<1>13. QED
  BY <1>2, <1>7, <1>9, <1>10, <1>11, <1>12 DEF eol, f, l

(* What a printed message is read as.                                      *)
LEMMA PrintedIs ==
  ASSUME NEW t \in Seq(STRING), NEW v, NEW w, NEW rest,
         IsWord(v), IsWord(w), IsStatus(rest),
         NEW headers, AreHeaders(headers), NEW lines \in Printer!HeaderLines(headers),
         NEW body, IsBody(body),
         t = (v \o SPACE \o w \o SPACE \o rest) \o EOL \o lines \o EOL \o body
  PROVE  LET one   == WordStarts(t)
             two   == Later(one)
             three == Later(two)
         IN /\ FirstWord(t, one) = v /\ FirstWord(t, two) = w
            /\ three # {} /\ LineStarts(t) # {1}
            /\ IsWord(rest) => FirstWord(t, three) = rest /\ Later(three) = {}
            /\ StripCR(SubSeq(t, Min(three), Stop(t, 1, {"NL"}) - 1)) = rest
            /\ HeadersOf(t) = LowerNames(headers) /\ BodyOf(t) = body
<1> DEFINE first == v \o SPACE \o w \o SPACE \o rest
           base  == Len(first) + 2
<1>1. first \in Seq(Chars)
  <2>1. v \in Seq(Chars) /\ w \in Seq(Chars) /\ rest \in Seq(Chars)
    BY AlsoChars DEF IsWord, IsStatus, IsValue, IsText
  <2> DEFINE sp == SPACE
  <2>2. sp \in Seq(Chars)
    BY SpaceIs
  <2> HIDE DEF sp
  <2>3. v \o sp \o w \o sp \o rest \in Seq(Chars)
    BY <2>1, <2>2, JoinIs
  <2>4. QED
    BY <2>3 DEF sp
<1>2. lines \in Seq(Chars) /\ body \in Seq(Chars)
  BY HeaderLinesAre, AlsoChars DEF IsBody, IsText
<1> HIDE DEF first
<1>3. /\ Has(t, 0, first) /\ Has(t, Len(first), EOL)
      /\ Has(t, base, lines) /\ Has(t, base + Len(lines), EOL)
      /\ Has(t, base + Len(lines) + 2, body)
      /\ Len(t) = base + Len(lines) + 2 + Len(body)
  <2>1. t = first \o EOL \o lines \o EOL \o body
    BY DEF first
  <2>2. QED
    BY <1>1, <1>2, <2>1, TextIs
<1>4. /\ FirstWord(t, WordStarts(t)) = v /\ FirstWord(t, Later(WordStarts(t))) = w
      /\ Later(Later(WordStarts(t))) # {} /\ LineStarts(t) # {1}
      /\ IsWord(rest) => /\ FirstWord(t, Later(Later(WordStarts(t)))) = rest
                         /\ Later(Later(Later(WordStarts(t)))) = {}
      /\ Stop(t, 1, {"NL"}) = base /\ base \in Nat
      /\ StripCR(SubSeq(t, Min(Later(Later(WordStarts(t)))), base - 1)) = rest
  BY <1>3, FirstLineIs DEF first
<1> HIDE DEF base
<1>5. AtLine(t, base) /\ Before(t, base) = {}
  BY <1>4, FirstHeader
<1>6. HeadersOf(t) = LowerNames(headers) /\ BodyOf(t) = body
  BY <1>3, <1>4, <1>5, PrintedRead
<1>7. QED
  BY <1>4, <1>6

(* A request that was printed is read as it was.                           *)
LEMMA RequestRoundTrip ==
  ASSUME NEW m \in Requests, NEW t \in Seq(STRING), t \in Printer!RequestTexts(m)
  PROVE  RequestMeaning(t) = Lowered(m)
<1>1. /\ m = [method |-> m.method, resource |-> m.resource, version |-> m.version,
              headers |-> m.headers, body |-> m.body]
      /\ m.method \in KnownMethods /\ IsWord(m.method)
      /\ IsWord(m.resource) /\ IsWord(m.version)
      /\ AreHeaders(m.headers) /\ IsBody(m.body)
  BY RequestsAssumption
<1> DEFINE v == m.method
           w == m.resource
           rest == m.version
           headers == m.headers
           body == m.body
<1>2. PICK lines \in Printer!HeaderLines(headers) :
        t = (v \o SPACE \o w \o SPACE \o rest) \o EOL \o lines \o EOL \o body
  BY DEF Printer!RequestTexts, Printer!Printed, SPACE, EOL
<1>3. m = [method |-> v, resource |-> w, version |-> rest, headers |-> headers, body |-> body]
  BY <1>1
<1> HIDE DEF v, w, rest, headers, body
<1>4. /\ IsWord(v) /\ IsWord(w) /\ IsWord(rest) /\ AreHeaders(headers) /\ IsBody(body)
      /\ v \in KnownMethods
  BY <1>1 DEF v, w, rest, headers, body
<1>5. IsStatus(rest)
  <2>1. rest # <<>> /\ Len(rest) \in Nat /\ 1 \in 1..Len(rest)
    BY <1>4 DEF IsWord, IsText
  <2>2. \A c : ~isspace(c) => c # "NL"
    BY DEF isspace, Space
  <2>3. QED
    BY <1>4, <2>1, <2>2 DEF IsWord, IsStatus, IsValue
<1> DEFINE one   == WordStarts(t)
           two   == Later(one)
           three == Later(two)
<1>6. /\ FirstWord(t, one) = v /\ FirstWord(t, two) = w
      /\ three # {} /\ FirstWord(t, three) = rest /\ Later(three) = {}
      /\ HeadersOf(t) = LowerNames(headers) /\ BodyOf(t) = body
  BY <1>2, <1>4, <1>5, PrintedIs
<1>7. RequestMeaning(t)
        = [method |-> v, resource |-> w, version |-> rest,
           headers |-> LowerNames(headers), body |-> body]
  BY <1>4, <1>6 DEF RequestMeaning
<1>8. Lowered(m) = [method |-> v, resource |-> w, version |-> rest,
                    headers |-> LowerNames(headers), body |-> body]
  BY <1>3 DEF Lowered
<1>9. QED
  BY <1>7, <1>8

(* A response that was printed is read as it was.                          *)
LEMMA ResponseRoundTrip ==
  ASSUME NEW m \in Responses, NEW t \in Seq(STRING), t \in Printer!ResponseTexts(m)
  PROVE  ResponseMeaning(t) = Lowered(m)
<1>1. /\ m = [version |-> m.version, code |-> m.code, status |-> m.status,
              headers |-> m.headers, body |-> m.body]
      /\ IsWord(m.version) /\ IsCode(m.code) /\ IsStatus(m.status)
      /\ AreHeaders(m.headers) /\ IsBody(m.body)
  BY ResponsesAssumption
<1> DEFINE v == m.version
           n == m.code
           w == Printer!Numeral(n)
           rest == m.status
           headers == m.headers
           body == m.body
<1>2. PICK lines \in Printer!HeaderLines(headers) :
        t = (v \o SPACE \o w \o SPACE \o rest) \o EOL \o lines \o EOL \o body
  BY DEF Printer!ResponseTexts, Printer!Printed, SPACE, EOL
<1>3. m = [version |-> v, code |-> n, status |-> rest, headers |-> headers, body |-> body]
  BY <1>1
<1>4. /\ IsWord(v) /\ IsWord(w) /\ IsStatus(rest) /\ AreHeaders(headers) /\ IsBody(body)
      /\ n # 0 /\ StartsWithDigit(w) /\ Number(w) = n
  BY <1>1 DEF IsCode
<1> HIDE DEF v, w, n, rest, headers, body
<1> DEFINE one   == WordStarts(t)
           two   == Later(one)
           three == Later(two)
<1>5. /\ FirstWord(t, one) = v /\ FirstWord(t, two) = w
      /\ three # {} /\ LineStarts(t) # {1}
      /\ StripCR(SubSeq(t, Min(three), Stop(t, 1, {"NL"}) - 1)) = rest
      /\ HeadersOf(t) = LowerNames(headers) /\ BodyOf(t) = body
  BY <1>2, <1>4, PrintedIs
<1>6. ResponseMeaning(t)
        = [version |-> v, code |-> n, status |-> rest,
           headers |-> LowerNames(headers), body |-> body]
  BY <1>4, <1>5 DEF ResponseMeaning
<1>7. Lowered(m) = [version |-> v, code |-> n, status |-> rest,
                    headers |-> LowerNames(headers), body |-> body]
  BY <1>3 DEF Lowered
<1>8. QED
  BY <1>6, <1>7

(* HTTPRequest::to_string and HTTPResponse::to_string are undone by        *)
(* parseRequest and parseResponse: any message that can be printed, when   *)
(* all of it has arrived, in whatever pieces, is read as it was, but for   *)
(* the case of its header names.                                           *)
THEOREM PrintedIsRead == Spec => []ReadAsPrinted
<1>1. Good => ReadAsPrinted
  <2> SUFFICES ASSUME Good, call = "done", buffer = text
               PROVE  /\ IsRequest => \A m \in Requests :
                           text \in Printer!RequestTexts(m) => result = Lowered(m)
                      /\ IsResponse => \A m \in Responses :
                           text \in Printer!ResponseTexts(m) => result = Lowered(m)
    BY DEF ReadAsPrinted
  <2>1. result = Meaning(buffer) /\ text \in Seq(STRING)
    <3>1. Fits(buffer) /\ buffer \in Seq(STRING)
      BY BufferFits DEF Good, PosInv, Held
    <3>2. QED
      BY <3>1, AtCall DEF ReadOf
  <2>2. ASSUME IsRequest, NEW m \in Requests, text \in Printer!RequestTexts(m)
        PROVE  result = Lowered(m)
    BY <2>1, <2>2, RequestRoundTrip DEF Meaning
  <2>3. ASSUME IsResponse, NEW m \in Responses, text \in Printer!ResponseTexts(m)
        PROVE  result = Lowered(m)
    <3>1. ~IsRequest
      <4>1. "method" \in DOMAIN NewRequest /\ "method" \notin DOMAIN NewResponse
        BY DEF NewRequest, NewResponse
      <4>2. QED
        BY <2>3, <4>1 DEF IsRequest, IsResponse
    <3>2. QED
      BY <2>1, <2>3, <3>1, ResponseRoundTrip DEF Meaning
  <2>4. QED
    BY <2>2, <2>3
<1>2. QED
  BY <1>1, GoodAlways, PTL
=============================================================================
