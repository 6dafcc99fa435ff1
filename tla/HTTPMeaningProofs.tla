-------------------------- MODULE HTTPMeaningProofs --------------------------
(***************************************************************************)
(* Proofs about HTTPParser, for any texts: however a text is cut into      *)
(* pieces, a parser returns what the text means.                           *)
(***************************************************************************)
EXTENDS HTTPParserProofs

-----------------------------------------------------------------------------
(* The inductive invariant.  It says of every text that the buffer may yet *)
(* become what the parser has found out about it.  A recv only leaves      *)
(* fewer such texts.                                                       *)

(* The words read so far, which are all there are if one was not found.    *)
RequestRead(s) ==
  LET one   == Passed(s, pos)
      two   == Later(one)
      three == Later(two)
  IN /\ call = "method" => pos = 0
     /\ call = "resource" => /\ message.method = FirstWord(s, one)
                             /\ two = {} /\ (one = {} => BlankFrom(s, pos))
     /\ call = "version" => /\ message.method = FirstWord(s, one)
                            /\ message.resource = FirstWord(s, two)
                            /\ three = {} /\ (two = {} => BlankFrom(s, pos))
     /\ call = "rest" => /\ message.method = FirstWord(s, one)
                         /\ message.resource = FirstWord(s, two)
                         /\ message.version = FirstWord(s, three)
                         /\ three # {} /\ Later(three) = {} /\ NoNewLine(s, pos)

ResponseRead(s) ==
  LET one == Passed(s, pos)
      two == Later(one)
  IN /\ call = "version" => pos = 0
     /\ call = "code" => /\ message.version = FirstWord(s, one)
                         /\ two = {} /\ (one = {} => BlankFrom(s, pos))
     /\ call = "status" => /\ message.version = FirstWord(s, one)
                           /\ StartsWithDigit(FirstWord(s, two))
                           /\ message.code = Number(FirstWord(s, two))
                           /\ Later(two) = {}

(* The headers up to here have been read, or all of them.                  *)
HeadersRead(s) ==
  /\ AtLine(s, pos)
  /\ \A h \in Before(s, pos) : Colon(LineAt(s, h)) # 0
  /\ message.headers = HeadersAt(s, Before(s, pos))

AllHeadersRead(s) ==
  /\ message.headers = HeadersOf(s)
  /\ BodyOf(s) = IF BlankFrom(s, pos) THEN <<>> ELSE SubSeq(s, pos + 1, Len(s))

InFirstLine == {"method", "resource", "version", "code", "status", "rest"}
InHeaders   == {"more", "header"}
InBody      == {"body?", "body"}

(* What the message must still become.                                     *)
Whole(s) == [message EXCEPT !.headers = HeadersOf(s), !.body = BodyOf(s)]

ReadOf(s) ==
  /\ call \in InFirstLine => /\ message.headers = <<>>
                             /\ pos = 0 \/ AtWordEnd(s, pos)
                             /\ IsRequest => RequestRead(s)
                             /\ IsResponse => ResponseRead(s)
  /\ call \in InHeaders \cup InBody => Meaning(s) = Whole(s)
  /\ call \in InHeaders => HeadersRead(s)
  /\ call = "header" => pos < Len(s)
  /\ call \in InBody => AllHeadersRead(s)
  /\ call = "body" => ~BlankFrom(s, pos)
  /\ call = "done" => result = Meaning(s)

Filled == /\ message = [field \in DOMAIN message |-> message[field]]
          /\ call # "done" => message.body = <<>>

Ended == /\ pos > Len(buffer) => timed_out
         /\ call = "done" /\ result # None => timed_out

ReadInv == Filled /\ Ended /\ \A s : Fits(s) => ReadOf(s)

(* What has been established when a call is made.                          *)
Good == PosInv /\ Kinds /\ ReadInv

LEMMA Fields ==
  /\ IsRequest <=> DOMAIN message = {"method", "resource", "version", "headers", "body"}
  /\ IsResponse <=> DOMAIN message = {"version", "code", "status", "headers", "body"}
  /\ ~(IsRequest /\ IsResponse)
<1>1. /\ DOMAIN NewRequest = {"method", "resource", "version", "headers", "body"}
      /\ DOMAIN NewResponse = {"version", "code", "status", "headers", "body"}
  BY DEF NewRequest, NewResponse
<1>2. {"method", "resource", "version", "headers", "body"}
        # {"version", "code", "status", "headers", "body"}
  OBVIOUS
<1>3. QED
  BY <1>1, <1>2 DEF IsRequest, IsResponse

(* What is known of a text when the parser takes a step other than recv.   *)
LEMMA AtCall ==
  ASSUME Good, NEW s, Fits(s)
  PROVE  /\ buffer \in Seq(STRING) /\ Len(buffer) \in Nat /\ pos \in Nat
         /\ s \in Seq(STRING) /\ Len(s) \in Nat /\ Len(buffer) <= Len(s)
         /\ call \notin {"more", "body?", "done"} => pos <= Len(buffer)
         /\ pos > Len(buffer) => timed_out
         /\ ReadOf(s)
  BY DEF Good, PosInv, Held, NoOutOfRange, Fits, ReadInv, Ended

(* A text whose first line holds no more words than have been read has     *)
(* too few of them.                                                        *)
LEMMA TooFewWords ==
  ASSUME NEW s, NEW words, WordStarts(s) \subseteq words, Later(Later(words)) = {}
  PROVE  RequestMeaning(s) = None /\ ResponseMeaning(s) = None
<1>1. Later(Later(WordStarts(s))) = {}
  BY LaterGrows
<1>2. QED
  BY <1>1 DEF RequestMeaning, ResponseMeaning

-----------------------------------------------------------------------------
(* Words.                                                                  *)
WordCalls == {"method", "resource", "version", "code"}

LEMMA AtWord ==
  ASSUME Good, NEW s, Fits(s), call \in WordCalls, ~Starved(Reached)
  PROVE  LET e == WordEnd(pos)
         IN /\ ~Starved(e) /\ pos <= Len(buffer)
            /\ e \in Nat /\ e <= Len(buffer) /\ e <= Len(s) /\ AtWordEnd(s, e)
            /\ pos = 0 \/ AtWordEnd(s, pos)
            /\ message.headers = <<>>
            /\ IsRequest => RequestRead(s)
            /\ IsResponse => ResponseRead(s)
            /\ NoWordTo(s, e) \/ \E i \in Nat : WordFrom(s, i, e)
<1>1. /\ buffer \in Seq(STRING) /\ Len(buffer) \in Nat /\ pos \in Nat /\ pos <= Len(buffer)
      /\ Len(s) \in Nat /\ Len(buffer) <= Len(s) /\ ReadOf(s)
  BY AtCall DEF WordCalls
<1>2. ~Starved(WordEnd(pos))
  BY DEF WordCalls, Reached
<1>3. /\ pos = 0 \/ AtWordEnd(s, pos)
      /\ message.headers = <<>>
      /\ IsRequest => RequestRead(s)
      /\ IsResponse => ResponseRead(s)
  BY <1>1 DEF ReadOf, WordCalls, InFirstLine
<1> DEFINE e == WordEnd(pos)
<1>4. /\ e \in Nat /\ pos <= e /\ e <= Len(buffer) /\ AtWordEnd(s, e)
      /\ NoWordTo(s, e) \/ \E i \in Nat : WordFrom(s, i, e)
  BY <1>1, <1>2, <1>3, WordRead
<1> HIDE DEF e
<1>5. e <= Len(s)
  BY <1>1, <1>4
<1>6. QED
  BY <1>1, <1>2, <1>3, <1>4, <1>5 DEF e

(* After a word that is not followed by another call for one, or was not   *)
(* in the first line, the first line has no more than the words before.    *)
LEMMA NoMoreWords ==
  ASSUME Good, NEW s, Fits(s), call \in WordCalls, ~Starved(Reached),
         \/ ~NoNewLine(s, WordEnd(pos))
         \/ nextWord = <<>>
         \/ BlankFrom(s, pos)
  PROVE  WordStarts(s) \subseteq Passed(s, pos)
<1> DEFINE e == WordEnd(pos)
<1>1. /\ pos \in Nat /\ s \in Seq(STRING) /\ Len(s) \in Nat
      /\ e \in Nat /\ e <= Len(s)
      /\ NoWordTo(s, e) \/ \E i \in Nat : WordFrom(s, i, e)
  BY AtWord, AtCall
<1>2. ~NoNewLine(s, e) \/ nextWord = <<>> \/ BlankFrom(s, pos)
  OBVIOUS
<1> HIDE DEF e
<1>3. /\ WordStarts(s) = {i \in Starts(s) : i < Stop(s, 1, {"NL"})}
      /\ Starts(s) \subseteq Nat
      /\ ~NoNewLine(s, e) => Stop(s, 1, {"NL"}) <= e
  BY <1>1, FirstLine
<1>4. ASSUME BlankFrom(s, pos) PROVE WordStarts(s) \subseteq Passed(s, pos)
  BY <1>1, <1>3, <1>4, AllPassed
<1>5. ASSUME NEW i \in Nat, WordFrom(s, i, e), ~NoNewLine(s, e)
      PROVE  WordStarts(s) \subseteq Passed(s, pos)
  <2>1. /\ i \in Starts(s) /\ pos < i /\ i <= e
        /\ Passed(s, e) = Passed(s, pos) \cup {i}
        /\ \A j \in i..e : s[j] # "NL"
    BY <1>5 DEF WordFrom
  <2>2. PICK j \in 1..e : s[j] = "NL"
    BY <1>5 DEF NoNewLine
  <2>3. j \in 1..(i - 1)
    BY <1>1, <2>1, <2>2
  <2>4. ~NoNewLine(s, i - 1) /\ i - 1 \in Nat /\ i - 1 <= Len(s)
    BY <1>1, <2>1, <2>2, <2>3 DEF NoNewLine
  <2>5. Stop(s, 1, {"NL"}) <= i - 1 /\ WordStarts(s) \subseteq Passed(s, i - 1)
    <3> DEFINE k == i - 1
    <3>1. ~NoNewLine(s, k) /\ k \in Nat /\ k <= Len(s)
      BY <2>4
    <3> HIDE DEF k
    <3>2. Stop(s, 1, {"NL"}) <= k /\ Begins(WordStarts(s), Passed(s, k))
      BY <1>1, <3>1, FirstLine
    <3>3. QED
      BY <3>2 DEF k, Begins
  <2>6. \A h \in Passed(s, i - 1) : h \in Passed(s, e) /\ h # i
    BY <1>1, <1>3, <2>1 DEF Passed
  <2>7. QED
    BY <2>1, <2>5, <2>6
<1>6. ASSUME NoWordTo(s, e) PROVE BlankFrom(s, pos)
  BY <1>6 DEF NoWordTo
<1>7. ASSUME NEW i \in Nat, WordFrom(s, i, e)
      PROVE  nextWord # <<>> /\ ~BlankFrom(s, pos)
  <2>1. i \in 1..Len(s) /\ ~isspace(s[i]) /\ pos < i /\ nextWord # <<>>
    BY <1>7 DEF WordFrom, Starts
  <2>2. QED
    BY <1>1, <2>1 DEF BlankFrom
<1>8. QED
  BY <1>1, <1>2, <1>4, <1>5, <1>6, <1>7

LEMMA WordsAre ==
  ASSUME Good, NEW s, Fits(s), call \in WordCalls, ~Starved(Reached)
  PROVE  LET was == Passed(s, pos)
             now == Passed(s, WordEnd(pos))
         IN /\ pos = 0 =>
                 /\ nextWord = FirstWord(s, now)
                 /\ Later(now) = {} /\ (now = {} => BlankFrom(s, WordEnd(pos)))
            /\ Later(was) = {} /\ (was = {} => BlankFrom(s, pos)) =>
                 /\ FirstWord(s, now) = FirstWord(s, was)
                 /\ nextWord = FirstWord(s, Later(now))
                 /\ Later(Later(now)) = {}
                 /\ Later(now) = {} => BlankFrom(s, WordEnd(pos))
            /\ Later(Later(was)) = {} /\ (Later(was) = {} => BlankFrom(s, pos)) =>
                 /\ FirstWord(s, now) = FirstWord(s, was)
                 /\ FirstWord(s, Later(now)) = FirstWord(s, Later(was))
                 /\ nextWord = FirstWord(s, Later(Later(now)))
                 /\ Later(Later(Later(now))) = {}
<1>1. /\ buffer \in Seq(STRING) /\ pos \in Nat /\ pos <= Len(buffer)
      /\ pos = 0 \/ AtWordEnd(s, pos)
      /\ ~Starved(WordEnd(pos))
  BY AtWord, AtCall
<1>2. pos = 0 => Passed(s, pos) = {}
  BY DEF Passed, Starts
<1>3. QED
  BY <1>1, <1>2, WordsKept

LEMMA RequestWords ==
  ASSUME Good, IsRequest, MethodAndResource, NEW s, Fits(s)
  PROVE  ReadOf(s)'
<1> DEFINE e   == WordEnd(pos)
           was == Passed(s, pos)
           now == Passed(s, e)
<1>1. /\ call \in WordCalls /\ ~Starved(Reached)
      /\ pos' = e /\ message'.headers = message.headers /\ IsRequest' /\ ~IsResponse'
      /\ \/ call = "method" /\ call' = "resource" /\ message'.method = nextWord
         \/ /\ call = "resource" /\ call' = "version" /\ message'.resource = nextWord
            /\ message'.method = message.method
  <2>1. DOMAIN message = {"method", "resource", "version", "headers", "body"}
    BY Fields
  <2>2. PICK field \in {"method", "resource"} :
          /\ call = field /\ ~Starved(Reached)
          /\ message' = [message EXCEPT ![field] = nextWord]
          /\ pos' = e
          /\ call' = IF field = "method" THEN "resource" ELSE "version"
    BY DEF MethodAndResource, Word, Returns
  <2>3. DOMAIN message' = DOMAIN message
    BY <2>2
  <2>4. IsRequest' /\ ~IsResponse'
    BY <2>1, <2>3, Fields DEF IsRequest, IsResponse, NewRequest, NewResponse
  <2>5. QED
    BY <2>1, <2>2, <2>4 DEF WordCalls
<1>2. /\ AtWordEnd(s, e) /\ message.headers = <<>> /\ RequestRead(s)
  BY <1>1, AtWord
<1>3. /\ pos = 0 =>
           /\ nextWord = FirstWord(s, now)
           /\ Later(now) = {} /\ (now = {} => BlankFrom(s, e))
      /\ Later(was) = {} /\ (was = {} => BlankFrom(s, pos)) =>
           /\ FirstWord(s, now) = FirstWord(s, was)
           /\ nextWord = FirstWord(s, Later(now))
           /\ Later(Later(now)) = {} /\ (Later(now) = {} => BlankFrom(s, e))
  BY <1>1, WordsAre
<1> HIDE DEF e
<1>4. RequestRead(s)'
  <2>1. CASE call = "method"
    <3>1. pos = 0
      BY <1>2, <2>1 DEF RequestRead
    <3>2. QED
      BY <1>1, <1>3, <2>1, <3>1 DEF RequestRead
  <2>2. CASE call = "resource"
    <3>1. Later(was) = {} /\ (was = {} => BlankFrom(s, pos)) /\ message.method = FirstWord(s, was)
      BY <1>2, <2>2 DEF RequestRead
    <3>2. QED
      BY <1>1, <1>3, <2>2, <3>1 DEF RequestRead
  <2>3. QED
    BY <1>1, <2>1, <2>2
<1>5. QED
  BY <1>1, <1>2, <1>4 DEF ReadOf, InFirstLine, InHeaders, InBody

LEMMA RequestVersion ==
  ASSUME Good, IsRequest, Version, NEW s, Fits(s)
  PROVE  ReadOf(s)'
<1> DEFINE e   == WordEnd(pos)
           was == Passed(s, pos)
           now == Passed(s, e)
           bad == \/ \E i \in 1..e : buffer[i] = "NL"
                  \/ message.resource = <<>> \/ nextWord = <<>>
<1>1. /\ call = "version" /\ call \in WordCalls /\ ~Starved(Reached)
      /\ pos' = e /\ message' = [message EXCEPT !.version = nextWord]
      /\ bad => call' = "done" /\ result' = None
      /\ ~bad => call' = "rest"
  BY DEF Version, Returns, Return, WordCalls
<1>2. /\ IsRequest' /\ ~IsResponse' /\ message'.headers = message.headers
      /\ message'.method = message.method /\ message'.resource = message.resource
      /\ message'.version = nextWord
  <2>1. DOMAIN message = {"method", "resource", "version", "headers", "body"}
    BY Fields
  <2>2. DOMAIN message' = DOMAIN message
    BY <1>1
  <2>3. IsRequest' /\ ~IsResponse'
    BY <2>1, <2>2, Fields DEF IsRequest, IsResponse, NewRequest, NewResponse
  <2>4. QED
    BY <1>1, <2>1, <2>3
<1>3. /\ AtWordEnd(s, e) /\ message.headers = <<>> /\ RequestRead(s)
      /\ e \in Nat /\ e <= Len(buffer)
      /\ NoWordTo(s, e) \/ \E i \in Nat : WordFrom(s, i, e)
  BY <1>1, AtWord
<1>4. /\ message.method = FirstWord(s, was) /\ message.resource = FirstWord(s, Later(was))
      /\ Later(Later(was)) = {} /\ (Later(was) = {} => BlankFrom(s, pos))
  BY <1>1, <1>3 DEF RequestRead
<1>5. /\ FirstWord(s, now) = FirstWord(s, was)
      /\ FirstWord(s, Later(now)) = FirstWord(s, Later(was))
      /\ nextWord = FirstWord(s, Later(Later(now)))
      /\ Later(Later(Later(now))) = {}
  BY <1>1, <1>4, WordsAre
<1>6. (\E i \in 1..e : buffer[i] = "NL") <=> ~NoNewLine(s, e)
  <2>1. \A i \in 1..e : i \in 1..Len(buffer) /\ s[i] = buffer[i]
    BY <1>3, AtCall DEF Fits
  <2>2. QED
    BY <2>1 DEF NoNewLine
<1>7. message.resource = <<>> => BlankFrom(s, pos)
  <2>1. Later(was) \subseteq Starts(s) /\ s \in Seq(STRING)
    BY AtCall DEF Later, Passed
  <2>2. Later(was) # {} => message.resource # <<>>
    BY <1>4, <2>1, WordsNotEmpty
  <2>3. QED
    BY <1>4, <2>2
<1>8. ASSUME bad PROVE ReadOf(s)'
  <2>1. ~NoNewLine(s, e) \/ nextWord = <<>> \/ BlankFrom(s, pos)
    BY <1>6, <1>7, <1>8
  <2>2. WordStarts(s) \subseteq was
    BY <1>1, <2>1, NoMoreWords
  <2>3. RequestMeaning(s) = None
    BY <1>4, <2>2, TooFewWords
  <2> HIDE DEF bad, e
  <2>4. result' = Meaning(s)'
    BY <1>1, <1>2, <1>8, <2>3 DEF Meaning
  <2>5. QED
    BY <1>1, <1>8, <2>4 DEF ReadOf, InFirstLine, InHeaders, InBody
<1>9. ASSUME ~bad PROVE ReadOf(s)'
  <2>1. NoNewLine(s, e) /\ nextWord # <<>>
    BY <1>6, <1>9
  <2>2. Later(Later(now)) # {}
    BY <1>5, <2>1 DEF FirstWord
  <2> HIDE DEF bad, e
  <2>3. RequestRead(s)'
    BY <1>1, <1>2, <1>4, <1>5, <1>9, <2>1, <2>2 DEF RequestRead
  <2>4. QED
    BY <1>1, <1>2, <1>3, <1>9, <2>3 DEF ReadOf, InFirstLine, InHeaders, InBody
<1>10. QED
  BY <1>8, <1>9

(* Behind the first line, no header has been read.                         *)
LEMMA NoHeaderRead ==
  ASSUME NEW s \in Seq(STRING), pos' = Stop(s, 1, {"NL"}), message'.headers = <<>>
  PROVE  HeadersRead(s)'
<1>1. AtLine(s, pos') /\ Before(s, pos') = {}
  BY FirstHeader
<1>2. message'.headers = HeadersAt(s, Before(s, pos'))
  BY <1>1, NoHeaders
<1>3. QED
  BY <1>1, <1>2 DEF HeadersRead

(* What the message must still become, field by field.                     *)
LEMMA WholeIs ==
  ASSUME NEW s
  PROVE  Whole(s) = [field \in DOMAIN message |->
                       IF field = "body" THEN BodyOf(s)
                       ELSE IF field = "headers" THEN HeadersOf(s) ELSE message[field]]
<1> DEFINE headers == HeadersOf(s)
           body    == BodyOf(s)
<1> HIDE DEF headers, body
<1>1. [message EXCEPT !.headers = headers, !.body = body]
        = [field \in DOMAIN message |->
             IF field = "body" THEN body
             ELSE IF field = "headers" THEN headers ELSE message[field]]
  BY Zenon
<1>2. QED
  BY <1>1, Zenon DEF Whole, headers, body

LEMMA RequestRest ==
  ASSUME Good, IsRequest, RestOfLine, NEW s, Fits(s)
  PROVE  ReadOf(s)'
<1> DEFINE was == Passed(s, pos)
           bad == \/ \E i \in DOMAIN nextLine : ~isspace(nextLine[i])
                  \/ message.method \notin KnownMethods
<1>1. /\ call = "rest" /\ ~Starved(LineEnd(pos))
      /\ pos' = LineEnd(pos) + 1 /\ message' = message
      /\ bad => call' = "done" /\ result' = None
      /\ ~bad => call' = "more"
  BY DEF RestOfLine, Returns, Return, Reached
<1>2. IsRequest' /\ ~IsResponse'
  BY <1>1, Fields DEF IsRequest, IsResponse
<1>3. /\ buffer \in Seq(STRING) /\ Len(buffer) \in Nat /\ pos \in Nat
      /\ s \in Seq(STRING) /\ Len(s) \in Nat /\ Len(buffer) <= Len(s)
      /\ pos <= Len(buffer) /\ ReadOf(s)
  BY <1>1, AtCall
<1>4. /\ pos = 0 \/ AtWordEnd(s, pos)
      /\ message.headers = <<>> /\ RequestRead(s)
  BY <1>1, <1>3 DEF ReadOf, InFirstLine
<1>5. /\ message.method = FirstWord(s, was)
      /\ message.resource = FirstWord(s, Later(was))
      /\ message.version = FirstWord(s, Later(Later(was)))
      /\ Later(Later(was)) # {} /\ Later(Later(Later(was))) = {} /\ NoNewLine(s, pos)
  BY <1>1, <1>4 DEF RequestRead
<1>6. AtWordEnd(s, pos)
  <2>1. pos # 0
    <3>1. was # {}
      BY <1>5 DEF Later
    <3>2. QED
      BY <3>1 DEF Passed, Starts
  <2>2. QED
    BY <1>4, <2>1
<1>7. /\ LineEnd(pos) \in Nat /\ LineEnd(pos) <= Len(buffer)
      /\ Stop(s, pos + 1, {"NL"}) = LineEnd(pos) + 1
  BY <1>1, <1>3, LineIs
<1>8. nextLine = StripCR(SubSeq(s, pos + 1, Stop(s, pos + 1, {"NL"}) - 1))
  <2>1. Between(pos, LineEnd(pos)) = SubSeq(s, pos + 1, LineEnd(pos))
    BY <1>3, <1>7, BetweenIs
  <2>2. Stop(s, pos + 1, {"NL"}) - 1 = LineEnd(pos)
    BY <1>7
  <2>3. QED
    BY <2>1, <2>2 DEF nextLine
<1>9. /\ (\A i \in DOMAIN nextLine : isspace(nextLine[i])) => WordStarts(s) = was
      /\ (\E i \in DOMAIN nextLine : ~isspace(nextLine[i]))
            => \E j \in WordStarts(s) : j > pos
  BY <1>3, <1>5, <1>6, <1>8, RestOfFirstLine
<1>10. pos' = Stop(s, 1, {"NL"})
  BY <1>1, <1>3, <1>5, <1>7, EndOfFirstLine
<1>11. ASSUME bad PROVE RequestMeaning(s) = None
  <2>1. CASE \E i \in DOMAIN nextLine : ~isspace(nextLine[i])
    <3> DEFINE line == WordStarts(s)
    <3>1. PICK j \in line : j > pos
      BY <1>9, <2>1
    <3>2. was \subseteq line /\ line \subseteq Nat
      BY <1>3, <1>5, FirstLine DEF Begins
    <3>3. PICK x : x \in Later(Later(was))
      BY <1>5
    <3>4. x \in was /\ x < j
      BY <1>3, <3>1, <3>2, <3>3 DEF Later, Passed
    <3> HIDE DEF line
    <3>5. /\ Later(was) \subseteq Later(line)
          /\ Later(Later(was)) \subseteq Later(Later(line))
      BY <3>2, LaterGrows
    <3>6. x \in line /\ x \in Later(line) /\ x \in Later(Later(line))
      BY <3>2, <3>3, <3>4, <3>5 DEF Later
    <3>7. j \in Later(line)
      BY <3>1, <3>4, <3>6 DEF Later
    <3>8. j \in Later(Later(line))
      BY <3>4, <3>6, <3>7 DEF Later
    <3>9. j \in Later(Later(Later(line)))
      BY <3>4, <3>6, <3>8 DEF Later
    <3>10. QED
      BY <3>9 DEF RequestMeaning, line
  <2>2. CASE ~\E i \in DOMAIN nextLine : ~isspace(nextLine[i])
    <3>1. message.method \notin KnownMethods /\ WordStarts(s) = was
      BY <1>9, <1>11, <2>2
    <3>2. QED
      BY <1>5, <3>1 DEF RequestMeaning
  <2>3. QED
    BY <2>1, <2>2
<1>12. ASSUME bad PROVE ReadOf(s)'
  <2>1. RequestMeaning(s) = None
    BY <1>11, <1>12
  <2> HIDE DEF bad
  <2>2. result' = Meaning(s)'
    BY <1>1, <1>2, <1>12, <2>1 DEF Meaning
  <2>3. QED
    BY <1>1, <1>12, <2>2 DEF ReadOf, InFirstLine, InHeaders, InBody
<1>13. ASSUME ~bad PROVE ReadOf(s)'
  <2>1. WordStarts(s) = was /\ message.method \in KnownMethods
    BY <1>9, <1>13
  <2>2. RequestMeaning(s)
          = [method |-> message.method, resource |-> message.resource,
             version |-> message.version,
             headers |-> HeadersOf(s), body |-> BodyOf(s)]
    BY <1>5, <2>1 DEF RequestMeaning
  <2>3. /\ message = [field \in DOMAIN message |-> message[field]]
        /\ DOMAIN message = {"method", "resource", "version", "headers", "body"}
    BY Fields DEF Good, ReadInv, Filled
  <2>4. Whole(s) = RequestMeaning(s)
    <3> DEFINE headers == HeadersOf(s)
               body    == BodyOf(s)
    <3>1. RequestMeaning(s) = [method |-> message.method, resource |-> message.resource,
                               version |-> message.version,
                               headers |-> headers, body |-> body]
      BY <2>2
    <3>2. Whole(s) = [field \in {"method", "resource", "version", "headers", "body"} |->
                        IF field = "body" THEN body
                        ELSE IF field = "headers" THEN headers ELSE message[field]]
      BY <2>3, WholeIs
    <3> HIDE DEF headers, body
    <3>3. QED
      BY <3>1, <3>2
  <2>5. Meaning(s)' = Whole(s)'
    BY <1>1, <1>2, <2>4 DEF Meaning, Whole
  <2>6. HeadersRead(s)'
    BY <1>1, <1>3, <1>4, <1>10, NoHeaderRead
  <2> HIDE DEF bad
  <2>7. QED
    BY <1>1, <1>13, <2>5, <2>6 DEF ReadOf, InFirstLine, InHeaders, InBody
<1>14. QED
  BY <1>12, <1>13

-----------------------------------------------------------------------------
(* The first line of a response.                                           *)
LEMMA ResponseVersion ==
  ASSUME Good, IsResponse, Word("version", "code"), NEW s, Fits(s)
  PROVE  ReadOf(s)'
<1> DEFINE e   == WordEnd(pos)
           now == Passed(s, e)
<1>1. /\ call = "version" /\ call \in WordCalls /\ ~Starved(Reached)
      /\ pos' = e /\ call' = "code"
      /\ message' = [message EXCEPT !.version = nextWord]
  BY DEF Word, Returns, WordCalls
<1>2. /\ IsResponse' /\ ~IsRequest' /\ message'.headers = message.headers
      /\ message'.version = nextWord
  <2>1. DOMAIN message = {"version", "code", "status", "headers", "body"}
    BY Fields
  <2>2. DOMAIN message' = DOMAIN message
    BY <1>1
  <2>3. IsResponse' /\ ~IsRequest'
    BY <2>1, <2>2, Fields DEF IsRequest, IsResponse, NewRequest, NewResponse
  <2>4. QED
    BY <1>1, <2>1, <2>3
<1>3. AtWordEnd(s, e) /\ message.headers = <<>> /\ ResponseRead(s)
  BY <1>1, AtWord
<1>4. pos = 0
  BY <1>1, <1>3 DEF ResponseRead
<1>5. nextWord = FirstWord(s, now) /\ Later(now) = {} /\ (now = {} => BlankFrom(s, e))
  BY <1>1, <1>4, WordsAre
<1> HIDE DEF e
<1>6. ResponseRead(s)'
  BY <1>1, <1>2, <1>5 DEF ResponseRead
<1>7. QED
  BY <1>1, <1>2, <1>3, <1>6 DEF ReadOf, InFirstLine, InHeaders, InBody

LEMMA ResponseCode ==
  ASSUME Good, IsResponse, Code, NEW s, Fits(s)
  PROVE  ReadOf(s)'
<1> DEFINE e   == WordEnd(pos)
           was == Passed(s, pos)
           now == Passed(s, e)
<1>1. /\ call = "code" /\ call \in WordCalls /\ ~Starved(Reached)
      /\ pos' = e
      /\ StartsWithDigit(nextWord) => /\ call' = "status"
                                      /\ message' = [message EXCEPT !.code = Number(nextWord)]
      /\ ~StartsWithDigit(nextWord) => call' = "done" /\ result' = None /\ message' = message
  BY DEF Code, Returns, Return, WordCalls
<1>2. /\ IsResponse' /\ ~IsRequest' /\ message'.headers = message.headers
      /\ message'.version = message.version
      /\ StartsWithDigit(nextWord) => message'.code = Number(nextWord)
  <2>1. DOMAIN message = {"version", "code", "status", "headers", "body"}
    BY Fields
  <2>2. DOMAIN message' = DOMAIN message
    BY <1>1
  <2>3. IsResponse' /\ ~IsRequest'
    BY <2>1, <2>2, Fields DEF IsRequest, IsResponse, NewRequest, NewResponse
  <2>4. QED
    BY <1>1, <2>1, <2>3
<1>3. /\ AtWordEnd(s, e) /\ message.headers = <<>> /\ ResponseRead(s)
      /\ e \in Nat /\ e <= Len(s) /\ s \in Seq(STRING)
  BY <1>1, AtWord, AtCall
<1>4. /\ message.version = FirstWord(s, was)
      /\ Later(was) = {} /\ (was = {} => BlankFrom(s, pos))
  BY <1>1, <1>3 DEF ResponseRead
<1>5. /\ FirstWord(s, now) = FirstWord(s, was)
      /\ nextWord = FirstWord(s, Later(now))
      /\ Later(Later(now)) = {} /\ (Later(now) = {} => BlankFrom(s, e))
  BY <1>1, <1>4, WordsAre
<1>6. ASSUME StartsWithDigit(nextWord) PROVE ReadOf(s)'
  <2> HIDE DEF e
  <2>1. ResponseRead(s)'
    BY <1>1, <1>2, <1>4, <1>5, <1>6 DEF ResponseRead
  <2>2. QED
    BY <1>1, <1>2, <1>3, <1>6, <2>1 DEF ReadOf, InFirstLine, InHeaders, InBody
<1>7. ASSUME ~StartsWithDigit(nextWord) PROVE ReadOf(s)'
  <2> DEFINE line == WordStarts(s)
  <2>1. /\ line \subseteq Starts(s) /\ Starts(s) \subseteq Nat
        /\ Begins(line, Starts(s)) /\ Begins(now, Starts(s))
    BY <1>3, FirstLine
  <2>2. ASSUME Later(Later(line)) # {} PROVE ~StartsWithDigit(FirstWord(s, Later(line)))
    <3>1. Later(line) # {} /\ Later(line) \subseteq Later(Starts(s))
      BY <2>1, <2>2 DEF Later
    <3>2. Later(now) # {}
      <4>1. BlankFrom(s, e) => now = Starts(s)
        BY <1>3, AllPassed
      <4>2. QED
        BY <1>5, <3>1, <4>1
    <3>3. FirstWord(s, Later(line)) = FirstWord(s, Later(now))
      BY <2>1, <3>1, <3>2, SecondWord
    <3>4. QED
      BY <1>5, <1>7, <3>3
  <2>3. ResponseMeaning(s) = None
    BY <2>2 DEF ResponseMeaning
  <2> HIDE DEF e
  <2>4. result' = Meaning(s)'
    BY <1>1, <1>2, <1>7, <2>3 DEF Meaning
  <2>5. QED
    BY <1>1, <1>7, <2>4 DEF ReadOf, InFirstLine, InHeaders, InBody
<1>8. QED
  BY <1>6, <1>7

LEMMA ResponseStatus ==
  ASSUME Good, IsResponse, Status, NEW s, Fits(s)
  PROVE  ReadOf(s)'
<1> DEFINE q    == SkipSpace(pos)
           e    == LineEnd(q)
           was  == Passed(s, pos)
           line == WordStarts(s)
           good == /\ NewLines # {} /\ Min(NewLines) = e
                   /\ message.version # <<>> /\ message.code # 0 /\ nextText # <<>>
<1>1. /\ call = "status" /\ ~Starved(e) /\ pos' = e + 1
      /\ message' = [message EXCEPT !.status = nextText]
  BY DEF Status, Returns, Reached
<1>2. /\ buffer \in Seq(STRING) /\ Len(buffer) \in Nat /\ pos \in Nat
      /\ s \in Seq(STRING) /\ Len(s) \in Nat /\ Len(buffer) <= Len(s)
      /\ pos <= Len(buffer) /\ ReadOf(s)
  BY <1>1, AtCall
<1>3. /\ q \in Nat /\ pos <= q /\ q <= Len(buffer)
      /\ q < Len(buffer) => q < Len(s) /\ ~isspace(s[q + 1])
      /\ \A j \in (pos + 1)..q : j <= Len(s) => isspace(s[j])
  BY <1>2, SkipIs
<1>4. /\ e \in Nat /\ q <= e /\ e <= Len(buffer) /\ e <= Len(s)
      /\ e < Len(s) => e \in NewLines /\ s[e + 1] = "NL"
      /\ e = Len(buffer) => timed_out /\ s = buffer
      /\ \A j \in (q + 1)..e : s[j] # "NL"
      /\ Stop(s, q + 1, {"NL"}) = e + 1
  <2> HIDE DEF q
  <2>1. ~Starved(LineEnd(q))
    BY <1>1
  <2>2. QED
    BY <1>2, <1>3, <2>1, LineIs
<1>5. nextText = StripCR(SubSeq(s, q + 1, e))
  <2> HIDE DEF q, e
  <2>1. Between(q, e) = SubSeq(s, q + 1, e)
    BY <1>2, <1>3, <1>4, BetweenIs
  <2>2. QED
    BY <2>1 DEF nextText, q, e
<1>6. /\ good => call' = "more"
      /\ ~good => call' = "done" /\ result' = None
  <2>1. pos' - 1 = e
    BY <1>1, <1>4
  <2>2. FirstLineEndsAt(pos') <=> NewLines # {} /\ Min(NewLines) = e
    BY <2>1 DEF FirstLineEndsAt
  <2> HIDE DEF q, e
  <2>3. QED
    BY <2>2, Zenon DEF Status, Return
<1>7. /\ IsResponse' /\ ~IsRequest' /\ DOMAIN message' = DOMAIN message
      /\ message'.headers = message.headers
      /\ message'.version = message.version /\ message'.code = message.code
      /\ message'.status = nextText
  <2>1. DOMAIN message = {"version", "code", "status", "headers", "body"}
    BY Fields
  <2>2. DOMAIN message' = DOMAIN message
    BY <1>1
  <2>3. IsResponse' /\ ~IsRequest'
    BY <2>1, <2>2, Fields DEF IsRequest, IsResponse, NewRequest, NewResponse
  <2>4. QED
    BY <1>1, <2>1, <2>2, <2>3
<1>8. /\ pos = 0 \/ AtWordEnd(s, pos)
      /\ message.headers = <<>> /\ ResponseRead(s)
  BY <1>1, <1>2 DEF ReadOf, InFirstLine
<1>9. /\ message.version = FirstWord(s, was)
      /\ StartsWithDigit(FirstWord(s, Later(was)))
      /\ message.code = Number(FirstWord(s, Later(was)))
      /\ Later(Later(was)) = {}
  BY <1>1, <1>8 DEF ResponseRead
<1>10. was # {} /\ Later(was) # {}
  <2>1. ~StartsWithDigit(<<>>)
    BY DEF StartsWithDigit
  <2>2. Later(was) # {}
    BY <1>9, <2>1 DEF FirstWord
  <2>3. QED
    BY <2>2 DEF Later
<1>11. /\ line \subseteq Starts(s) /\ Starts(s) \subseteq Nat /\ was \subseteq Starts(s)
       /\ Begins(line, Starts(s)) /\ Begins(was, Starts(s))
  <2>1. pos <= Len(s)
    BY <1>2
  <2>2. QED
    BY <1>2, <2>1, FirstLine
<1>12. NewLines \subseteq Nat /\ \A j \in NewLines : j < Len(buffer) /\ s[j + 1] = "NL"
  <2>1. ASSUME NEW j \in NewLines PROVE j \in Nat /\ j < Len(buffer) /\ s[j + 1] = "NL"
    <3>1. j \in 0..(Len(buffer) - 1) /\ buffer[j + 1] = "NL"
      BY DEF NewLines, Places
    <3>2. j + 1 \in 1..Len(buffer)
      BY <1>2, <3>1
    <3>3. QED
      BY <1>2, <3>1, <3>2 DEF Fits
  <2>2. QED
    BY <2>1
<1> HIDE DEF q, e

(* If the first line does not end here, it did so before.                  *)
<1>13. ASSUME ~(NewLines # {} /\ Min(NewLines) = e)
       PROVE  LineStarts(s) = {1} \/ Later(Later(line)) = {}
  <2>1. CASE NewLines = {}
    <3>1. s = buffer /\ e = Len(s)
      BY <1>2, <1>4, <2>1
    <3>2. \A i \in 1..Len(s) : s[i] # "NL"
      <4>1. ASSUME NEW i \in 1..Len(s), s[i] = "NL" PROVE FALSE
        <5>1. i - 1 \in 0..(Len(buffer) - 1) /\ (i - 1) + 1 = i
          BY <3>1
        <5>2. i - 1 \in NewLines
          BY <3>1, <4>1, <5>1 DEF NewLines, Places
        <5>3. QED
          BY <2>1, <5>2
      <4>2. QED
        BY <4>1
    <3>3. LineStarts(s) = {1}
      BY <3>2 DEF LineStarts
    <3>4. QED
      BY <3>3
  <2>2. CASE NewLines # {}
    <3> DEFINE m == Min(NewLines)
    <3>1. m \in NewLines /\ \A j \in NewLines : m <= j
      BY <1>12, <2>2, MinOfNaturals
    <3>2. m # e
      BY <1>13, <2>2
    <3> HIDE DEF m
    <3>3. m \in Nat /\ m < Len(buffer) /\ s[m + 1] = "NL"
      BY <1>12, <3>1
    <3>4. m < e
      <4>1. CASE e < Len(s)
        <5>1. m <= e
          BY <1>4, <3>1, <4>1
        <5>2. QED
          BY <1>4, <3>2, <3>3, <5>1
      <4>2. CASE ~(e < Len(s))
        BY <1>2, <1>4, <3>3, <4>2
      <4>3. QED
        BY <4>1, <4>2
    <3>5. m + 1 \in 1..q
      <4>1. ~(m + 1 \in (q + 1)..e)
        BY <1>4, <3>3
      <4>2. QED
        BY <1>3, <1>4, <3>3, <3>4, <4>1
    <3>6. ~NoNewLine(s, q) /\ q <= Len(s)
      BY <1>2, <1>3, <3>3, <3>5 DEF NoNewLine
    <3>7. line \subseteq Passed(s, q)
      BY <1>2, <1>3, <3>6, FirstLine DEF Begins
    <3>8. ASSUME NEW i \in Starts(s), i <= q PROVE i <= pos
      <4>1. i \in 1..Len(s) /\ ~isspace(s[i])
        BY DEF Starts
      <4>2. ~(i \in (pos + 1)..q)
        BY <1>3, <4>1
      <4>3. QED
        BY <1>2, <1>3, <3>8, <4>1, <4>2
    <3>9. line \subseteq was
      BY <3>7, <3>8 DEF Passed
    <3>10. Later(Later(line)) \subseteq Later(Later(was))
      BY <3>9, LaterGrows
    <3>11. QED
      BY <1>9, <3>10
  <2>3. QED
    BY <2>1, <2>2

(* If it does, the status is there.                                        *)
<1>14. ASSUME NewLines # {}, Min(NewLines) = e
       PROVE  /\ q < e /\ nextText # <<>> /\ e + 1 = Stop(s, 1, {"NL"})
              /\ q + 1 \in Starts(s) /\ Passed(s, q + 1) = was \cup {q + 1}
              /\ LineStarts(s) # {1}
  <2>1. e \in NewLines /\ \A j \in NewLines : e <= j
    BY <1>12, <1>14, MinOfNaturals
  <2>2. e < Len(buffer) /\ s[e + 1] = "NL"
    BY <1>12, <2>1
  <2>3. q < Len(buffer) /\ ~isspace(s[q + 1])
    BY <1>2, <1>3, <1>4, <2>2
  <2>4. q # e
    BY <2>2, <2>3 DEF isspace, Space
  <2>5. q < e
    BY <1>3, <1>4, <2>4
  <2>6. nextText # <<>>
    <3> DEFINE part == SubSeq(s, q + 1, e)
    <3>1. part \in Seq(STRING) /\ Len(part) = e - q /\ part[1] = s[q + 1]
      BY <1>2, <1>3, <1>4, <2>5
    <3>2. nextText = StripCR(part)
      BY <1>5
    <3> HIDE DEF part
    <3>3. /\ StripCR(part) \in Seq(STRING)
          /\ \A i \in (Len(StripCR(part)) + 1)..Len(part) : part[i] = "CR"
      BY <3>1, StripIs
    <3>4. SUFFICES ASSUME nextText = <<>> PROVE FALSE
      OBVIOUS
    <3>5. Len(StripCR(part)) = 0
      BY <3>2, <3>4
    <3>6. 1 \in (Len(StripCR(part)) + 1)..Len(part)
      BY <1>3, <1>4, <2>5, <3>1, <3>5
    <3>7. QED
      BY <2>3, <3>1, <3>3, <3>6 DEF isspace, Space
  <2>7. NoNewLine(s, e)
    <3>1. ASSUME NEW i \in 1..e, s[i] = "NL" PROVE FALSE
      <4>1. i - 1 \in 0..(Len(buffer) - 1) /\ (i - 1) + 1 = i /\ i \in 1..Len(buffer)
        BY <1>2, <1>4
      <4>2. i - 1 \in NewLines
        BY <3>1, <4>1 DEF NewLines, Places, Fits
      <4>3. e <= i - 1
        BY <2>1, <4>2
      <4>4. QED
        BY <1>4, <4>3
    <3>2. QED
      BY <3>1 DEF NoNewLine
  <2>8. e + 1 = Stop(s, 1, {"NL"})
    <3>1. NoNewLine(s, q) /\ q <= Len(s)
      BY <1>3, <1>4, <2>5, <2>7 DEF NoNewLine
    <3>2. QED
      BY <1>2, <1>3, <1>4, <3>1, EndOfFirstLine
  <2>9. /\ q + 1 \in Starts(s) /\ \A i \in Starts(s) : i <= q => i <= pos
    <3>1. q < Len(s) /\ \A j \in (pos + 1)..q : isspace(s[j])
      BY <1>2, <1>3, <2>3
    <3>2. QED
      BY <1>2, <1>3, <1>8, <2>3, <3>1, NewStart
  <2>10. Passed(s, q + 1) = was \cup {q + 1}
    <3>1. \A i \in Starts(s) : i <= q + 1 <=> i <= pos \/ i = q + 1
      <4>1. \A i \in Starts(s) : i \in Nat
        BY <1>11
      <4>2. QED
        BY <1>2, <1>3, <2>9, <4>1
    <3>2. QED
      BY <2>9, <3>1 DEF Passed
  <2>11. LineStarts(s) # {1}
    <3>1. e + 1 \in {i \in 1..Len(s) : s[i] = "NL"} /\ (e + 1) + 1 # 1
      BY <1>2, <1>4, <2>2
    <3>2. (e + 1) + 1 \in LineStarts(s)
      BY <3>1 DEF LineStarts
    <3>3. QED
      BY <3>1, <3>2
  <2>12. QED
    BY <2>5, <2>6, <2>8, <2>9, <2>10, <2>11
<1>15. FirstWord(s, Later(line)) = FirstWord(s, Later(was)) \/ Later(line) = {}
  BY <1>10, <1>11, SecondWord
<1>16. ASSUME ~good PROVE ReadOf(s)'
  <2>1. ResponseMeaning(s) = None
    <3>1. CASE ~(NewLines # {} /\ Min(NewLines) = e)
      BY <1>13, <3>1 DEF ResponseMeaning
    <3>2. CASE NewLines # {} /\ Min(NewLines) = e
      <4>1. message.version # <<>>
        BY <1>2, <1>9, <1>10, <1>11, WordsNotEmpty
      <4>2. message.code = 0
        BY <1>14, <1>16, <3>2, <4>1
      <4>3. Later(Later(line)) = {} \/ Number(FirstWord(s, Later(line))) = 0
        <5>1. Later({}) = {}
          BY DEF Later
        <5>2. QED
          BY <1>9, <1>15, <4>2, <5>1
      <4>4. QED
        BY <4>3 DEF ResponseMeaning
    <3>3. QED
      BY <3>1, <3>2
  <2> HIDE DEF good
  <2>2. result' = Meaning(s)'
    BY <1>6, <1>7, <1>16, <2>1 DEF Meaning
  <2>3. QED
    BY <1>6, <1>16, <2>2 DEF ReadOf, InFirstLine, InHeaders, InBody
<1>17. ASSUME good PROVE ReadOf(s)'
  <2>1. /\ q < e /\ e + 1 = Stop(s, 1, {"NL"})
        /\ q + 1 \in Starts(s) /\ Passed(s, q + 1) = was \cup {q + 1}
        /\ LineStarts(s) # {1}
    BY <1>14, <1>17
  <2> DEFINE here == Passed(s, q + 1)
  <2>2. Begins(here, line) /\ line \subseteq Nat
    <3> DEFINE k == q + 1
    <3>1. k \in Nat /\ k <= e /\ k <= Len(s)
      BY <1>3, <1>4, <2>1
    <3> HIDE DEF k
    <3>2. /\ ~NoNewLine(s, k) => Stop(s, 1, {"NL"}) <= k
          /\ NoNewLine(s, k) => Begins(Passed(s, k), line)
          /\ line \subseteq Nat
      BY <1>2, <3>1, FirstLine
    <3>3. NoNewLine(s, k)
      BY <1>4, <2>1, <3>1, <3>2
    <3>4. QED
      BY <3>2, <3>3 DEF k
  <2>3. was \subseteq Nat /\ \A y \in was : y < q + 1
    BY <1>2, <1>3, <1>11 DEF Passed
  <2>4. /\ Later(here) = Later(was) \cup {q + 1}
        /\ FirstWord(s, here) = FirstWord(s, was)
        /\ Later(was) \subseteq Nat /\ \A y \in Later(was) : y < q + 1
    <3> DEFINE k == q + 1
    <3>1. k \in Nat /\ \A y \in was : y < k
      BY <1>3, <2>3
    <3>2. here = was \cup {k}
      BY <2>1
    <3> HIDE DEF k, here
    <3>3. /\ Later(was \cup {k}) = Later(was) \cup {k}
          /\ FirstWord(s, was \cup {k}) = FirstWord(s, was)
          /\ Later(was) \subseteq Nat /\ \A y \in Later(was) : y < k
      BY <1>10, <2>3, <3>1, OneMoreWord
    <3>4. QED
      BY <3>2, <3>3 DEF k
  <2>5. Later(Later(here)) = {q + 1} /\ FirstWord(s, Later(here)) = FirstWord(s, Later(was))
    <3>1. /\ Later(Later(was) \cup {q + 1}) = Later(Later(was)) \cup {q + 1}
          /\ FirstWord(s, Later(was) \cup {q + 1}) = FirstWord(s, Later(was))
      <4> DEFINE k == q + 1
      <4>1. k \in Nat /\ \A y \in Later(was) : y < k
        BY <1>3, <2>4
      <4> HIDE DEF k
      <4>2. /\ Later(Later(was) \cup {k}) = Later(Later(was)) \cup {k}
            /\ FirstWord(s, Later(was) \cup {k}) = FirstWord(s, Later(was))
        BY <1>10, <2>4, <4>1, OneMoreWord
      <4>3. QED
        BY <4>2 DEF k
    <3>2. QED
      BY <1>9, <2>4, <3>1
  <2>6. /\ Begins(Later(here), Later(line)) /\ Later(line) \subseteq Nat
        /\ Begins(Later(Later(here)), Later(Later(line))) /\ Later(Later(line)) \subseteq Nat
    BY <2>2, BeginsSame
  <2>7. /\ FirstWord(s, line) = message.version
        /\ FirstWord(s, Later(line)) = FirstWord(s, Later(was))
    <3>1. here # {} /\ Later(here) # {}
      BY <2>1, <2>4
    <3>2. QED
      BY <1>9, <2>2, <2>4, <2>5, <2>6, <3>1, SameWord
  <2>8. Later(Later(line)) # {} /\ Min(Later(Later(line))) = q + 1
    <3>1. Min(Later(Later(here))) = Min(Later(Later(line)))
      BY <2>5, <2>6, BeginsSame
    <3>2. Min({q + 1}) = q + 1
      BY <1>3, MinIs
    <3>3. QED
      BY <2>5, <2>6, <3>1, <3>2 DEF Begins
  <2>9. StripCR(SubSeq(s, q + 1, Stop(s, 1, {"NL"}) - 1)) = nextText
    <3>1. Stop(s, 1, {"NL"}) - 1 = e
      BY <1>4, <2>1
    <3>2. QED
      BY <1>5, <3>1
  <2> HIDE DEF here, line
  <2> DEFINE headers == HeadersOf(s)
             body    == BodyOf(s)
  <2>10. ResponseMeaning(s)
           = [version |-> message.version, code |-> message.code,
              status |-> nextText, headers |-> headers, body |-> body]
    BY <1>9, <1>17, <2>1, <2>7, <2>8, <2>9 DEF ResponseMeaning, line
  <2> HIDE DEF headers, body
  <2>11. Whole(s)' = [version |-> message.version, code |-> message.code,
                      status |-> nextText, headers |-> headers, body |-> body]
    <3>1. DOMAIN message = {"version", "code", "status", "headers", "body"}
      BY <1>7, Fields DEF IsResponse, NewResponse
    <3>2. Whole(s)' = [field \in DOMAIN message' |->
                         IF field = "body" THEN body
                         ELSE IF field = "headers" THEN headers ELSE message'[field]]
      BY Zenon DEF Whole, headers, body
    <3>3. QED
      BY <1>7, <3>1, <3>2
  <2>12. Meaning(s)' = Whole(s)'
    BY <1>7, <2>10, <2>11 DEF Meaning
  <2>13. HeadersRead(s)'
    BY <1>1, <1>2, <1>7, <1>8, <2>1, NoHeaderRead
  <2> HIDE DEF good
  <2>14. QED
    BY <1>6, <1>7, <1>17, <2>12, <2>13 DEF ReadOf, InFirstLine, InHeaders, InBody
<1>18. QED
  BY <1>16, <1>17

-----------------------------------------------------------------------------
(* The headers and the body.                                               *)

(* A step that neither ends the parsing nor changes the message's kind.    *)
LEMMA SameKind ==
  ASSUME DOMAIN message' = DOMAIN message, NEW s
  PROVE  Meaning(s)' = Meaning(s)
BY DEF Meaning, IsRequest, IsResponse

LEMMA AskedForMore ==
  ASSUME Good, More, NEW s, Fits(s)
  PROVE  ReadOf(s)'
<1> DEFINE q == SkipSpace(pos)
<1>1. /\ call = "more" /\ ~Starved(q) /\ pos' = pos /\ message' = message
      /\ hasNext => call' = "header"
      /\ ~hasNext => call' = "body?"
  BY DEF More, Returns, Reached
<1>2. /\ buffer \in Seq(STRING) /\ Len(buffer) \in Nat /\ pos \in Nat
      /\ s \in Seq(STRING) /\ Len(s) \in Nat /\ Len(buffer) <= Len(s)
      /\ pos > Len(buffer) => timed_out
      /\ ReadOf(s)
  BY AtCall
<1>3. Meaning(s) = Whole(s) /\ HeadersRead(s)
  BY <1>1, <1>2 DEF ReadOf, InHeaders
<1>4. Meaning(s)' = Whole(s)'
  BY <1>1, <1>3, SameKind DEF Whole
<1>5. /\ q \in Nat /\ pos <= q
      /\ \A j \in (pos + 1)..q : j <= Len(s) => isspace(s[j])
      /\ q >= Len(buffer) => s = buffer
  BY <1>1, <1>2, SkipIs
<1>6. hasNext <=> q < Len(buffer)
  BY DEF hasNext
<1> HIDE DEF q
<1>7. CASE hasNext
  <2>1. pos < Len(s)
    BY <1>2, <1>5, <1>6, <1>7
  <2>2. HeadersRead(s)'
    BY <1>1, <1>3 DEF HeadersRead
  <2>3. QED
    BY <1>1, <1>4, <1>7, <2>1, <2>2 DEF ReadOf, InFirstLine, InHeaders, InBody
<1>8. CASE ~hasNext
  <2>1. BlankFrom(s, pos)
    <3>1. \A j \in (pos + 1)..Len(s) : j \in (pos + 1)..q /\ j <= Len(s)
      BY <1>2, <1>5, <1>6, <1>8
    <3>2. QED
      BY <1>5, <3>1 DEF BlankFrom
  <2>2. HeaderStarts(s) = Before(s, pos) /\ BodyOf(s) = <<>>
    BY <1>2, <1>3, <2>1, OnlyBlank DEF HeadersRead
  <2>3. AllHeadersRead(s)'
    BY <1>1, <1>3, <2>1, <2>2 DEF HeadersRead, AllHeadersRead, HeadersOf
  <2>4. QED
    BY <1>1, <1>4, <1>8, <2>3 DEF ReadOf, InFirstLine, InHeaders, InBody
<1>9. QED
  BY <1>7, <1>8

LEMMA HeaderLine ==
  ASSUME Good, Header, NEW s, Fits(s)
  PROVE  ReadOf(s)'
<1> DEFINE e == LineEnd(pos)
<1>1. /\ call = "header" /\ ~Starved(e) /\ pos' = e + 1
      /\ Colon(nextLine) = 0 => call' = "body?" /\ message' = message
      /\ Colon(nextLine) # 0 =>
           /\ call' = "more"
           /\ message' = [message EXCEPT
                !.headers = Put(message.headers, Name(nextLine), Value(nextLine))]
  BY DEF Header, Returns, Reached
<1>2. /\ buffer \in Seq(STRING) /\ Len(buffer) \in Nat /\ pos \in Nat
      /\ s \in Seq(STRING) /\ Len(s) \in Nat /\ Len(buffer) <= Len(s)
      /\ pos <= Len(buffer) /\ ReadOf(s)
  BY <1>1, AtCall
<1>3. Meaning(s) = Whole(s) /\ HeadersRead(s) /\ pos < Len(s)
  BY <1>1, <1>2 DEF ReadOf, InHeaders
<1>4. /\ e \in Nat /\ e <= Len(buffer)
      /\ Stop(s, pos + 1, {"NL"}) = e + 1
  BY <1>1, <1>2, LineIs
<1>5. nextLine = LineAt(s, pos + 1)
  <2>1. Between(pos, e) = SubSeq(s, pos + 1, e)
    BY <1>2, <1>4, BetweenIs
  <2>2. Stop(s, pos + 1, {"NL"}) - 1 = e
    BY <1>4
  <2>3. QED
    BY <2>1, <2>2 DEF nextLine, LineAt
<1>6. /\ AtLine(s, pos) /\ pos <= Len(s)
      /\ \A h \in Before(s, pos) : Colon(LineAt(s, h)) # 0
      /\ message.headers = HeadersAt(s, Before(s, pos))
  BY <1>2, <1>3 DEF HeadersRead
<1>7. DOMAIN message' = DOMAIN message
  BY <1>1
<1>8. CASE Colon(nextLine) = 0
  <2>1. /\ HeaderStarts(s) = Before(s, pos)
        /\ BodyOf(s) = IF BlankFrom(s, e + 1) THEN <<>> ELSE SubSeq(s, (e + 1) + 1, Len(s))
    BY <1>2, <1>4, <1>5, <1>6, <1>8, HeadersEnd
  <2> HIDE DEF e
  <2>2. AllHeadersRead(s)'
    BY <1>1, <1>6, <1>8, <2>1 DEF AllHeadersRead, HeadersOf
  <2>3. Meaning(s)' = Whole(s)'
    BY <1>1, <1>3, <1>7, <1>8, SameKind DEF Whole
  <2>4. QED
    BY <1>1, <1>8, <2>2, <2>3 DEF ReadOf, InFirstLine, InHeaders, InBody
<1>9. CASE Colon(nextLine) # 0
  <2>1. /\ AtLine(s, e + 1)
        /\ Before(s, pos) \subseteq Nat /\ \A h \in Before(s, pos) : h < pos + 1
        /\ Before(s, e + 1) = Before(s, pos) \cup {pos + 1}
    BY <1>2, <1>4, <1>6, NextLine
  <2> HIDE DEF e
  <2>2. HeadersAt(s, Before(s, e + 1))
          = Put(message.headers, Name(nextLine), Value(nextLine))
    <3> DEFINE k == pos + 1
    <3>1. k \in Nat /\ Before(s, pos) \subseteq Nat /\ \A h \in Before(s, pos) : h < k
      BY <1>2, <2>1
    <3> HIDE DEF k
    <3>2. HeadersAt(s, Before(s, pos) \cup {k})
            = Put(HeadersAt(s, Before(s, pos)), Name(LineAt(s, k)), Value(LineAt(s, k)))
      BY <3>1, OneMoreHeader
    <3>3. QED
      BY <1>5, <1>6, <2>1, <3>2 DEF k
  <2>3. "headers" \in DOMAIN message
    BY Fields DEF Good, Kinds
  <2>4. HeadersRead(s)'
    <3>1. message'.headers = HeadersAt(s, Before(s, e + 1))
      BY <1>1, <1>9, <2>2, <2>3
    <3>2. \A h \in Before(s, e + 1) : Colon(LineAt(s, h)) # 0
      BY <1>5, <1>6, <1>9, <2>1
    <3>3. QED
      BY <1>1, <2>1, <3>1, <3>2 DEF HeadersRead
  <2>5. Whole(s)' = Whole(s)
    <3> DEFINE headers == HeadersOf(s)
               body    == BodyOf(s)
               put     == Put(message.headers, Name(nextLine), Value(nextLine))
    <3>1. Whole(s)' = [field \in DOMAIN message' |->
                         IF field = "body" THEN body
                         ELSE IF field = "headers" THEN headers ELSE message'[field]]
      BY Zenon DEF Whole, headers, body
    <3>2. Whole(s) = [field \in DOMAIN message |->
                        IF field = "body" THEN body
                        ELSE IF field = "headers" THEN headers ELSE message[field]]
      BY WholeIs
    <3>3. message' = [message EXCEPT !.headers = put]
      BY <1>1, <1>9
    <3> HIDE DEF headers, body, put
    <3>4. QED
      BY <1>7, <3>1, <3>2, <3>3
  <2>6. Meaning(s)' = Whole(s)'
    BY <1>3, <1>7, <2>5, SameKind
  <2>7. QED
    BY <1>1, <1>9, <2>4, <2>6 DEF ReadOf, InFirstLine, InHeaders, InBody
<1>10. QED
  BY <1>8, <1>9

LEMMA AskedForBody ==
  ASSUME Good, HasBody, NEW s, Fits(s)
  PROVE  ReadOf(s)'
<1> DEFINE q == SkipSpace(pos)
<1>1. /\ call = "body?" /\ ~Starved(q) /\ pos' = pos /\ message' = message
      /\ hasNext => call' = "body"
      /\ ~hasNext => call' = "done" /\ result' = message
  BY DEF HasBody, Returns, Return, Reached
<1>2. /\ buffer \in Seq(STRING) /\ Len(buffer) \in Nat /\ pos \in Nat
      /\ s \in Seq(STRING) /\ Len(s) \in Nat /\ Len(buffer) <= Len(s)
      /\ pos > Len(buffer) => timed_out
      /\ ReadOf(s)
  BY AtCall
<1>3. Meaning(s) = Whole(s) /\ AllHeadersRead(s)
  BY <1>1, <1>2 DEF ReadOf, InBody
<1>4. Meaning(s)' = Meaning(s) /\ Whole(s)' = Whole(s) /\ AllHeadersRead(s)'
  BY <1>1, <1>3, SameKind DEF Whole, AllHeadersRead
<1>5. /\ q \in Nat /\ pos <= q
      /\ q < Len(buffer) => q < Len(s) /\ ~isspace(s[q + 1])
      /\ \A j \in (pos + 1)..q : j <= Len(s) => isspace(s[j])
      /\ q >= Len(buffer) => s = buffer
  BY <1>1, <1>2, SkipIs
<1>6. hasNext <=> q < Len(buffer)
  BY DEF hasNext
<1> HIDE DEF q
<1>7. CASE hasNext
  <2>1. q + 1 \in (pos + 1)..Len(s) /\ ~isspace(s[q + 1])
    BY <1>2, <1>5, <1>6, <1>7
  <2>2. ~BlankFrom(s, pos)
    BY <2>1 DEF BlankFrom
  <2>3. QED
    BY <1>1, <1>3, <1>4, <1>7, <2>2 DEF ReadOf, InFirstLine, InHeaders, InBody
<1>8. CASE ~hasNext
  <2>1. BlankFrom(s, pos)
    <3>1. \A j \in (pos + 1)..Len(s) : j \in (pos + 1)..q /\ j <= Len(s)
      BY <1>2, <1>5, <1>6, <1>8
    <3>2. QED
      BY <1>5, <3>1 DEF BlankFrom
  <2>2. message.body = BodyOf(s) /\ message.headers = HeadersOf(s)
    BY <1>1, <1>3, <2>1 DEF AllHeadersRead, Good, ReadInv, Filled
  <2>3. Whole(s) = message
    <3>1. message = [field \in DOMAIN message |-> message[field]]
      BY DEF Good, ReadInv, Filled
    <3> DEFINE headers == HeadersOf(s)
               body    == BodyOf(s)
    <3>2. Whole(s) = [field \in DOMAIN message |->
                        IF field = "body" THEN body
                        ELSE IF field = "headers" THEN headers ELSE message[field]]
      BY WholeIs
    <3>3. message.body = body /\ message.headers = headers
      BY <2>2
    <3> HIDE DEF headers, body
    <3>4. QED
      BY <3>1, <3>2, <3>3
  <2>4. QED
    BY <1>1, <1>3, <1>4, <1>8, <2>3 DEF ReadOf, InFirstLine, InHeaders, InBody
<1>9. QED
  BY <1>7, <1>8

LEMMA BodyRead ==
  ASSUME Good, Body, NEW s, Fits(s)
  PROVE  ReadOf(s)'
<1>1. /\ call = "body" /\ ~Starved(Len(buffer)) /\ pos' = Len(buffer)
      /\ message' = [message EXCEPT !.body = remaining]
      /\ call' = "done" /\ result' = message'
  BY DEF Body, Returns, Return, Reached
<1>2. /\ buffer \in Seq(STRING) /\ Len(buffer) \in Nat /\ pos \in Nat
      /\ s \in Seq(STRING) /\ ReadOf(s)
  BY AtCall
<1>3. s = buffer
  BY <1>1, <1>2 DEF Starved, Fits
<1>4. Meaning(s) = Whole(s) /\ AllHeadersRead(s) /\ ~BlankFrom(s, pos)
  BY <1>1, <1>2 DEF ReadOf, InBody
<1>5. remaining = SubSeq(s, pos + 1, Len(s))
  BY <1>3 DEF remaining, Between
<1>6. BodyOf(s) = remaining /\ message.headers = HeadersOf(s)
  BY <1>4, <1>5 DEF AllHeadersRead
<1>7. Whole(s) = message'
  <2>1. message = [field \in DOMAIN message |-> message[field]]
    BY DEF Good, ReadInv, Filled
  <2> DEFINE headers == HeadersOf(s)
             body    == BodyOf(s)
  <2>2. Whole(s) = [field \in DOMAIN message |->
                      IF field = "body" THEN body
                      ELSE IF field = "headers" THEN headers ELSE message[field]]
    BY WholeIs
  <2>3. message.headers = headers /\ message' = [message EXCEPT !.body = body]
    BY <1>1, <1>6
  <2> HIDE DEF headers, body
  <2>4. QED
    BY <2>1, <2>2, <2>3
<1>8. DOMAIN message' = DOMAIN message
  BY <1>1
<1>9. Meaning(s)' = message'
  BY <1>4, <1>7, <1>8, SameKind
<1>10. QED
  BY <1>1, <1>9 DEF ReadOf, InFirstLine, InHeaders, InBody

-----------------------------------------------------------------------------
(* A recv leaves fewer texts that the buffer may become.                   *)
LEMMA FewerFit ==
  ASSUME Good, Recv, NEW s, Fits(s)'
  PROVE  Fits(s) /\ UNCHANGED <<pos, call, message, result>>
<1>1. /\ ~timed_out /\ UNCHANGED <<pos, call, message, result>>
  BY DEF Recv, Starved, RecvData, RecvNothing, Received
<1>2. Held /\ Held' /\ Len(buffer') >= Len(buffer)
  BY RecvGrows DEF Good, PosInv
<1>3. UNCHANGED text
  BY DEF Recv, RecvData, RecvNothing, Received
<1>4. Fits(s)
  <2>1. /\ s \in Seq(STRING) /\ Len(buffer') <= Len(s)
        /\ \A i \in 1..Len(buffer') : s[i] = buffer'[i]
    BY DEF Fits
  <2>2. /\ Len(buffer) \in Nat /\ Len(buffer') \in Nat /\ Len(s) \in Nat
        /\ \A i \in 1..Len(buffer) : buffer[i] = text[i]
        /\ \A i \in 1..Len(buffer') : buffer'[i] = text[i]
    BY <1>2, <1>3, <2>1 DEF Held
  <2>3. ASSUME NEW i \in 1..Len(buffer) PROVE s[i] = buffer[i]
    <3>1. i \in 1..Len(buffer')
      BY <1>2, <2>2
    <3>2. QED
      BY <2>1, <2>2, <3>1
  <2>4. Len(buffer) <= Len(s)
    BY <1>2, <2>1, <2>2
  <2>5. QED
    BY <1>1, <2>1, <2>3, <2>4 DEF Fits
<1>5. QED
  BY <1>1, <1>4

LEMMA BufferFits == buffer \in Seq(STRING) => Fits(buffer)
BY DEF Fits

(* Only the end of what the peer sends lets a position get past the end of *)
(* the buffer, or a message be accepted.                                   *)
LEMMA EndedKept ==
  ASSUME Good, [Next]_vars
  PROVE  Ended'
<1>1. /\ buffer \in Seq(STRING) /\ Len(buffer) \in Nat /\ pos \in Nat
      /\ call \notin {"more", "body?", "done"} => pos <= Len(buffer)
      /\ pos > Len(buffer) => timed_out
      /\ Fits(buffer) /\ Ended
  BY BufferFits, AtCall DEF Good, PosInv, Held, ReadInv
<1>2. ASSUME UNCHANGED <<buffer, timed_out>>, pos' <= Len(buffer) \/ timed_out,
             call' = "done" => result' = None \/ timed_out, pos' \in Nat
      PROVE  Ended'
  BY <1>1, <1>2 DEF Ended
<1>3. pos <= Len(buffer) => WordEnd(pos) \in Nat /\ WordEnd(pos) <= Len(buffer)
  BY <1>1, CallRanges
<1>4. ASSUME NEW i \in Nat, i <= Len(buffer), ~Starved(LineEnd(i))
      PROVE  LineEnd(i) + 1 \in Nat /\ (LineEnd(i) + 1 <= Len(buffer) \/ timed_out)
  <2>1. LineEnd(i) \in Nat /\ LineEnd(i) <= Len(buffer)
    BY <1>1, <1>4, CallRanges
  <2>2. LineEnd(i) = Len(buffer) => timed_out
    BY <1>4 DEF Starved
  <2>3. QED
    BY <1>1, <2>1, <2>2
<1> USE DEF Returns, Return, Reached
<1>5. CASE Recv
  <2>1. Held' /\ Len(buffer') >= Len(buffer) /\ UNCHANGED <<pos, call>> /\ call # "done"
    BY <1>5, RecvGrows DEF Good, PosInv, Recv
  <2>2. pos <= Len(buffer)
    BY <1>1, <1>5 DEF Recv, Starved
  <2>3. Len(buffer') \in Nat
    BY <2>1 DEF Held
  <2>4. QED
    BY <1>1, <2>1, <2>2, <2>3 DEF Ended
<1>6. ASSUME NEW field \in {"method", "resource", "version"},
             NEW next \in {"resource", "version", "code"}, Word(field, next)
      PROVE  Ended'
  BY <1>1, <1>2, <1>3, <1>6 DEF Word
<1>7. CASE Version
  BY <1>1, <1>2, <1>3, <1>7 DEF Version
<1>8. CASE RestOfLine
  <2>1. call = "rest" /\ ~Starved(LineEnd(pos))
    BY <1>8 DEF RestOfLine
  <2>2. LineEnd(pos) + 1 \in Nat /\ (LineEnd(pos) + 1 <= Len(buffer) \/ timed_out)
    BY <1>1, <1>4, <2>1
  <2>3. QED
    BY <1>2, <1>8, <2>2 DEF RestOfLine
<1>9. CASE Code
  BY <1>1, <1>2, <1>3, <1>9 DEF Code
<1>10. CASE Status
  <2> DEFINE q == SkipSpace(pos)
  <2>1. call = "status" /\ ~Starved(LineEnd(q))
    BY <1>10 DEF Status
  <2>2. q \in Nat /\ q <= Len(buffer)
    BY <1>1, <2>1, CallRanges
  <2>3. LineEnd(q) + 1 \in Nat /\ (LineEnd(q) + 1 <= Len(buffer) \/ timed_out)
    BY <1>4, <2>1, <2>2
  <2>4. /\ UNCHANGED <<buffer, timed_out>> /\ pos' = LineEnd(q) + 1
        /\ call' = "done" => result' = None
    BY <1>10 DEF Status
  <2> HIDE DEF q
  <2>5. QED
    BY <1>2, <2>3, <2>4
<1>11. CASE More
  BY <1>1, <1>2, <1>11 DEF More
<1>12. CASE Header
  <2>1. call = "header" /\ ~Starved(LineEnd(pos))
    BY <1>12 DEF Header
  <2>2. LineEnd(pos) + 1 \in Nat /\ (LineEnd(pos) + 1 <= Len(buffer) \/ timed_out)
    BY <1>1, <1>4, <2>1
  <2>3. QED
    BY <1>2, <1>12, <2>2 DEF Header
<1>13. CASE HasBody
  <2>1. call = "body?" /\ ~Starved(SkipSpace(pos))
    BY <1>13 DEF HasBody
  <2>2. ~hasNext => timed_out
    <3>1. SkipSpace(pos) \in Nat
      BY <1>1, CallRanges
    <3>2. SkipSpace(pos) >= Len(buffer) => timed_out
      BY <1>1, <2>1, SkipIs
    <3>3. QED
      BY <1>1, <3>1, <3>2 DEF hasNext
  <2>3. QED
    BY <1>1, <1>2, <1>13, <2>2 DEF HasBody
<1>14. CASE Body
  <2>1. timed_out
    BY <1>14 DEF Body, Starved
  <2>2. QED
    BY <1>1, <1>2, <1>14, <2>1 DEF Body
<1>15. CASE UNCHANGED vars
  BY <1>1, <1>15 DEF vars, stream, Ended
<1>16. QED
  BY <1>5, <1>6, <1>7, <1>8, <1>9, <1>10, <1>11, <1>12, <1>13, <1>14, <1>15
     DEF Next, parseRequest, parseResponse, MethodAndResource, HeadersAndBody

LEMMA FilledKept ==
  ASSUME Good, [Next]_vars
  PROVE  Filled'
<1>1. /\ message = [field \in DOMAIN message |-> message[field]]
      /\ call # "done" => message.body = <<>>
      /\ "body" \in DOMAIN message
  BY Fields DEF Good, ReadInv, Filled, Kinds
<1>2. ASSUME NEW field, NEW value, message' = [message EXCEPT ![field] = value],
             (field # "body" /\ call # "done") \/ call' = "done"
      PROVE  Filled'
  <2>1. message' = [f \in DOMAIN message |-> IF f = field THEN value ELSE message[f]]
    BY <1>1, <1>2
  <2>2. message' = [f \in DOMAIN message' |-> message'[f]]
    BY <2>1
  <2>3. call' # "done" => message'.body = <<>>
    BY <1>1, <1>2, <2>1
  <2>4. QED
    BY <2>2, <2>3 DEF Filled
<1>3. ASSUME message' = message, call # "done" \/ call' = "done" PROVE Filled'
  BY <1>1, <1>3 DEF Filled
<1> USE DEF Returns, Return
<1>4. CASE Recv
  BY <1>3, <1>4 DEF Recv
<1>5. ASSUME NEW field \in {"method", "resource", "version"}, NEW next, Word(field, next)
      PROVE  Filled'
  BY <1>2, <1>5 DEF Word
<1>6. CASE Version
  BY <1>2, <1>6 DEF Version
<1>7. CASE RestOfLine
  BY <1>3, <1>7 DEF RestOfLine
<1>8. CASE Code
  <2>1. call = "code"
    BY <1>8 DEF Code
  <2>2. CASE StartsWithDigit(nextWord)
    BY <1>2, <1>8, <2>1, <2>2 DEF Code
  <2>3. CASE ~StartsWithDigit(nextWord)
    BY <1>3, <1>8, <2>1, <2>3 DEF Code
  <2>4. QED
    BY <2>2, <2>3
<1>9. CASE Status
  BY <1>2, <1>9 DEF Status
<1>10. CASE More \/ HasBody
  BY <1>3, <1>10 DEF More, HasBody
<1>11. CASE Header
  <2>1. call = "header"
    BY <1>11 DEF Header
  <2>2. CASE Colon(nextLine) = 0
    BY <1>3, <1>11, <2>1, <2>2 DEF Header
  <2>3. CASE Colon(nextLine) # 0
    BY <1>2, <1>11, <2>1, <2>3 DEF Header
  <2>4. QED
    BY <2>2, <2>3
<1>12. CASE Body
  BY <1>2, <1>12 DEF Body
<1>13. CASE UNCHANGED vars
  BY <1>3, <1>13 DEF vars
<1>14. QED
  BY <1>4, <1>5, <1>6, <1>7, <1>8, <1>9, <1>10, <1>11, <1>12, <1>13
     DEF Next, parseRequest, parseResponse, MethodAndResource, HeadersAndBody

LEMMA ReadAtFirst == Init => ReadInv
<1> SUFFICES ASSUME Init PROVE ReadInv
  OBVIOUS
<1>1. /\ buffer = <<>> /\ pos = 0 /\ ~timed_out
      /\ \/ call = "method" /\ message = NewRequest
         \/ call = "version" /\ message = NewResponse
  BY DEF Init, StreamInit, RequestInit, ResponseInit
<1>2. /\ message.headers = <<>> /\ message.body = <<>>
      /\ message = [field \in DOMAIN message |-> message[field]]
      /\ call = "version" => IsResponse
      /\ call = "method" => IsRequest
  BY <1>1 DEF NewRequest, NewResponse, IsRequest, IsResponse
<1>3. Filled /\ Ended
  BY <1>1, <1>2 DEF Filled, Ended
<1>4. ASSUME NEW s PROVE ReadOf(s)
  <2>1. IsRequest => RequestRead(s)
    BY <1>1, <1>2, Fields DEF RequestRead
  <2>2. IsResponse => ResponseRead(s)
    BY <1>1, <1>2, Fields DEF ResponseRead
  <2>3. QED
    BY <1>1, <1>2, <2>1, <2>2 DEF ReadOf, InFirstLine, InHeaders, InBody
<1>5. QED
  BY <1>3, <1>4 DEF ReadInv

LEMMA ReadKept ==
  ASSUME Good, [Next]_vars
  PROVE  ReadInv'
<1>1. Filled' /\ Ended'
  BY FilledKept, EndedKept
<1>2. ASSUME NEW s, Fits(s)' PROVE ReadOf(s)'
  <2>1. CASE Recv
    <3>1. Fits(s) /\ UNCHANGED <<pos, call, message, result>>
      BY <1>2, <2>1, FewerFit
    <3>2. ReadOf(s)
      BY <3>1, AtCall
    <3>3. QED
      BY <3>1, <3>2 DEF ReadOf, RequestRead, ResponseRead, HeadersRead, AllHeadersRead,
                        Whole, Meaning, IsRequest, IsResponse
  <2>2. CASE UNCHANGED vars
    <3>1. UNCHANGED <<buffer, timed_out, pos, call, message, result>>
      BY <2>2 DEF vars, stream
    <3>2. Fits(s)
      BY <1>2, <3>1 DEF Fits
    <3>3. ReadOf(s)
      BY <3>2, AtCall
    <3>4. QED
      BY <3>1, <3>3 DEF ReadOf, RequestRead, ResponseRead, HeadersRead, AllHeadersRead,
                        Whole, Meaning, IsRequest, IsResponse
  <2>3. ASSUME parseRequest \/ parseResponse PROVE ReadOf(s)'
    <3>1. UNCHANGED <<buffer, timed_out>>
      BY <2>3 DEF parseRequest, parseResponse, MethodAndResource, HeadersAndBody, Word,
                  Version, RestOfLine, Code, Status, More, Header, HasBody, Body, Returns
    <3>2. Fits(s)
      BY <1>2, <3>1 DEF Fits
    <3>3. CASE HeadersAndBody
      BY <3>2, <3>3, AskedForMore, HeaderLine, AskedForBody, BodyRead DEF HeadersAndBody
    <3>4. CASE IsRequest /\ (MethodAndResource \/ Version \/ RestOfLine)
      BY <3>2, <3>4, RequestWords, RequestVersion, RequestRest
    <3>5. CASE IsResponse /\ (Word("version", "code") \/ Code \/ Status)
      BY <3>2, <3>5, ResponseVersion, ResponseCode, ResponseStatus
    <3>6. QED
      BY <2>3, <3>3, <3>4, <3>5 DEF parseRequest, parseResponse
  <2>4. QED
    BY <2>1, <2>2, <2>3 DEF Next
<1>3. QED
  BY <1>1, <1>2 DEF ReadInv

LEMMA GoodAlways == Spec => []Good
<1>1. Init => ReadInv
  BY ReadAtFirst
<1>2. PosInv /\ Kinds /\ ReadInv /\ [Next]_vars => ReadInv'
  BY ReadKept DEF Good
<1>3. PosInv /\ Kinds /\ ReadInv => Good
  BY DEF Good
<1>4. QED
  BY <1>1, <1>2, <1>3, PosKept, KindsKept, PTL DEF Spec

(* However the text was cut into pieces, the parser returns what the part  *)
(* of it that was received means as a whole, whatever the text is: a word  *)
(* or a line that a recv cut in two is read as if it had come in one.      *)
THEOREM TextsReadWhole == Spec => []PiecesDoNotMatter
<1>1. Good => PiecesDoNotMatter
  <2> SUFFICES ASSUME Good, call = "done" PROVE result = Meaning(buffer)
    BY DEF PiecesDoNotMatter
  <2>1. Fits(buffer)
    BY BufferFits DEF Good, PosInv, Held
  <2>2. QED
    BY <2>1, AtCall DEF ReadOf
<1>2. QED
  BY <1>1, GoodAlways, PTL

(* What the peer sends fits its own beginning.                             *)
LEMMA TextFits == Good /\ ~timed_out => Fits(text)
BY DEF Good, PosInv, Held, Fits

(* A message given up before the end of what the peer sends is one that    *)
(* the rest of it could not have mended, and a message is accepted only at *)
(* the end.                                                                *)
THEOREM RejectionIsFinal == Spec => []RejectedForGood
<1>1. Good => RejectedForGood
  <2> SUFFICES ASSUME Good, call = "done", ~timed_out
               PROVE  Meaning(text) = None /\ result = None
    BY DEF RejectedForGood
  <2>1. result = Meaning(text)
    BY TextFits, AtCall DEF ReadOf
  <2>2. result = None
    BY DEF Good, ReadInv, Ended
  <2>3. QED
    BY <2>1, <2>2
<1>2. QED
  BY <1>1, GoodAlways, PTL

-----------------------------------------------------------------------------
(* A request as HTTPWorker sees it.                                        *)
Class(version, resource, method, json, length, body) ==
  [version |-> version, resource |-> resource, method |-> method,
   json |-> json, length |-> length, body |-> body]

LEMMA ClassIs ==
  ASSUME NEW v, NEW r, NEW m, NEW j, NEW l, NEW b, NEW w, w = Class(v, r, m, j, l, b)
  PROVE  /\ w = [field \in DOMAIN w |-> w[field]]
         /\ DOMAIN w = {"version", "resource", "method", "json", "length", "body"}
         /\ w.version = v /\ w.resource = r /\ w.method = m
         /\ w.json = j /\ w.length = l /\ w.body = b
BY DEF Class

(* Some of its fields replaced.                                            *)
WithBody(w, l2, b2) ==
  [w EXCEPT !.length = l2, !.body = b2]
WithHeaders(w, j2, l2, b2) ==
  [w EXCEPT !.json = j2, !.length = l2, !.body = b2]
WithLine(w, v2, j2, l2, b2) ==
  [w EXCEPT !.version = v2, !.json = j2, !.length = l2, !.body = b2]

LEMMA BodyReplaced ==
  ASSUME NEW v, NEW r, NEW m, NEW j, NEW l, NEW b,
         NEW l2, NEW b2
  PROVE  WithBody(Class(v, r, m, j, l, b), l2, b2)
           = Class(v, r, m, j, l2, b2)
<1> DEFINE w == Class(v, r, m, j, l, b)
<1>0. w = Class(v, r, m, j, l, b)
  OBVIOUS
<1> HIDE DEF w
<1> DEFINE with(f) == IF f = "body" THEN b2 ELSE IF f = "length" THEN l2 ELSE w[f]
<1>1. [w EXCEPT !.length = l2, !.body = b2] = [f \in DOMAIN w |-> with(f)]
  BY Zenon
<1>2. [f \in DOMAIN w |-> with(f)] = Class(v, r, m, j, l2, b2)
  BY <1>0, ClassIs DEF Class
<1> HIDE DEF with
<1>3. QED
  BY <1>1, <1>2 DEF w, WithBody

LEMMA HeadersReplaced ==
  ASSUME NEW v, NEW r, NEW m, NEW j, NEW l, NEW b,
         NEW j2, NEW l2, NEW b2
  PROVE  WithHeaders(Class(v, r, m, j, l, b), j2, l2, b2)
           = Class(v, r, m, j2, l2, b2)
<1> DEFINE w == Class(v, r, m, j, l, b)
<1>0. w = Class(v, r, m, j, l, b)
  OBVIOUS
<1> HIDE DEF w
<1> DEFINE with(f) == IF f = "body" THEN b2 ELSE IF f = "length" THEN l2 ELSE 
                      IF f = "json" THEN j2 ELSE w[f]
<1>1. [w EXCEPT !.json = j2, !.length = l2, !.body = b2] = [f \in DOMAIN w |-> with(f)]
  BY Zenon
<1>2. [f \in DOMAIN w |-> with(f)] = Class(v, r, m, j2, l2, b2)
  BY <1>0, ClassIs DEF Class
<1> HIDE DEF with
<1>3. QED
  BY <1>1, <1>2 DEF w, WithHeaders

LEMMA LineReplaced ==
  ASSUME NEW v, NEW r, NEW m, NEW j, NEW l, NEW b,
         NEW v2, NEW j2, NEW l2, NEW b2
  PROVE  WithLine(Class(v, r, m, j, l, b), v2, j2, l2, b2)
           = Class(v2, r, m, j2, l2, b2)
<1> DEFINE w == Class(v, r, m, j, l, b)
<1>0. w = Class(v, r, m, j, l, b)
  OBVIOUS
<1> HIDE DEF w
<1> DEFINE with(f) == IF f = "body" THEN b2 ELSE IF f = "length" THEN l2 ELSE 
                      IF f = "json" THEN j2 ELSE IF f = "version" THEN v2 ELSE w[f]
<1>1. [w EXCEPT !.version = v2, !.json = j2, !.length = l2, !.body = b2] = [f \in DOMAIN w |-> with(f)]
  BY Zenon
<1>2. [f \in DOMAIN w |-> with(f)] = Class(v2, r, m, j2, l2, b2)
  BY <1>0, ClassIs DEF Class
<1> HIDE DEF with
<1>3. QED
  BY <1>1, <1>2 DEF w, WithLine

LEMMA CutsAre ==
  ASSUME NEW v, NEW r, NEW m, NEW j, NEW l, NEW b
  PROVE  LET whole == Class(v, r, m, j, l, b)
         IN /\ \A v2 \in (IF v = "1.1" THEN {"none", "other"} ELSE Checks!Versions) :
                 Class(v2, r, m, FALSE, "missing", "empty") \in Checks!CutLine(whole)
            /\ \A j2 \in BOOLEAN, l2 \in Checks!Lengths :
                 Class(v, r, m, j2, l2, "empty") \in Checks!CutHeaders(whole)
            /\ \A l2 \in Checks!CutLengths(whole), b2 \in Checks!CutBodies(whole) :
                 Class(v, r, m, j, l2, b2) \in Checks!CutBody(whole)
<1> DEFINE whole == Class(v, r, m, j, l, b)
<1>0. whole = Class(v, r, m, j, l, b)
  OBVIOUS
<1>1. ASSUME NEW v2 \in (IF v = "1.1" THEN {"none", "other"} ELSE Checks!Versions)
      PROVE  Class(v2, r, m, FALSE, "missing", "empty") \in Checks!CutLine(whole)
  <2>1. Class(v2, r, m, FALSE, "missing", "empty")
          = [whole EXCEPT !.version = v2, !.json = FALSE, !.length = "missing", !.body = "empty"]
    <3> HIDE DEF whole
    <3> DEFINE no == FALSE
    <3> HIDE DEF no
    <3>0. WithLine(whole, v2, no, "missing", "empty") = Class(v2, r, m, no, "missing", "empty")
      BY <1>0, LineReplaced
    <3>1. WithLine(whole, v2, FALSE, "missing", "empty")
            = Class(v2, r, m, FALSE, "missing", "empty")
      BY <3>0 DEF no
    <3>2. QED
      BY <3>1 DEF WithLine
  <2> HIDE DEF whole
  <2>2. v2 \in IF whole.version = "1.1" THEN {"none", "other"} ELSE Checks!Versions
    BY DEF whole, Class
  <2>3. QED
    BY <2>1, <2>2 DEF Checks!CutLine
<1>2. ASSUME NEW j2 \in BOOLEAN, NEW l2 \in Checks!Lengths
      PROVE  Class(v, r, m, j2, l2, "empty") \in Checks!CutHeaders(whole)
  <2> HIDE DEF whole
  <2> DEFINE cut == <<j2, l2>>
  <2>4. cut[1] = j2 /\ cut[2] = l2
    OBVIOUS
  <2> HIDE DEF cut
  <2>1. Class(v, r, m, j2, l2, "empty")
          = [whole EXCEPT !.json = cut[1], !.length = cut[2], !.body = "empty"]
    <3>1. WithHeaders(whole, cut[1], cut[2], "empty") = Class(v, r, m, cut[1], cut[2], "empty")
      BY <1>0, HeadersReplaced
    <3>2. QED
      BY <2>4, <3>1 DEF WithHeaders
  <2>2. cut \in BOOLEAN \X Checks!Lengths
    BY DEF cut
  <2>3. QED
    BY <2>1, <2>2 DEF Checks!CutHeaders
<1>3. ASSUME NEW l2 \in Checks!CutLengths(whole), NEW b2 \in Checks!CutBodies(whole)
      PROVE  Class(v, r, m, j, l2, b2) \in Checks!CutBody(whole)
  <2> HIDE DEF whole
  <2> DEFINE cut == <<l2, b2>>
  <2>4. cut[1] = l2 /\ cut[2] = b2
    OBVIOUS
  <2> HIDE DEF cut
  <2>1. Class(v, r, m, j, l2, b2) = [whole EXCEPT !.length = cut[1], !.body = cut[2]]
    <3>1. WithBody(whole, cut[1], cut[2]) = Class(v, r, m, j, cut[1], cut[2])
      BY <1>0, BodyReplaced
    <3>2. QED
      BY <2>4, <3>1 DEF WithBody
  <2>2. cut \in Checks!CutLengths(whole) \X Checks!CutBodies(whole)
    BY DEF cut
  <2>3. QED
    BY <2>1, <2>2 DEF Checks!CutBody
<1>4. QED
  BY <1>1, <1>2, <1>3

(* What HTTPWorker sees is what was parsed, and words of the whole text.   *)
ResourceSeen(s) ==
  IF FirstWord(s, Later(WordStarts(s))) = <<"R">> THEN "ReportSearchResults" ELSE "unknown"
MethodSeen(s)   == IF FirstWord(s, WordStarts(s)) = <<"P">> THEN "POST" ELSE "GET"
VersionSeen(m)  == IF m.version = <<"V", "1">> THEN "1.1" ELSE "other"
JsonSeen(m)     == <<"t">> \in DOMAIN m.headers /\ m.headers[<<"t">>] = <<"J">>

LEMMA SeenIs ==
  ASSUME NEW m, NEW s
  PROVE  /\ m = None => Seen(m, s) = Class("none", ResourceSeen(s), MethodSeen(s),
                                           FALSE, "missing", "empty")
         /\ m # None => Seen(m, s) = Class(VersionSeen(m), ResourceSeen(s), MethodSeen(s),
                                           JsonSeen(m), LengthClass(m.headers, m.body),
                                           BodyClass(m.body))
<1>1. CASE m = None
  BY <1>1 DEF Seen, Class, ResourceSeen, MethodSeen
<1>2. CASE m # None
  <2> DEFINE r == ResourceSeen(s)
             w == MethodSeen(s)
             v == VersionSeen(m)
             j == JsonSeen(m)
             l == LengthClass(m.headers, m.body)
             b == BodyClass(m.body)
  <2>1. Seen(m, s) = [Class("none", r, w, FALSE, "missing", "empty")
                        EXCEPT !.version = v, !.json = j, !.length = l, !.body = b]
    BY <1>2 DEF Seen, Class, ResourceSeen, MethodSeen, VersionSeen, JsonSeen
  <2> HIDE DEF r, w, v, j, l, b
  <2>2. [Class("none", r, w, FALSE, "missing", "empty")
           EXCEPT !.version = v, !.json = j, !.length = l, !.body = b]
          = Class(v, r, w, j, l, b)
    <3> DEFINE class == Class("none", r, w, FALSE, "missing", "empty")
    <3>1. class = Class("none", r, w, FALSE, "missing", "empty")
      OBVIOUS
    <3> HIDE DEF class
    <3> DEFINE no == FALSE
    <3> HIDE DEF no
    <3>0. WithLine(Class("none", r, w, no, "missing", "empty"), v, j, l, b)
            = Class(v, r, w, j, l, b)
      BY LineReplaced
    <3>2. WithLine(class, v, j, l, b) = Class(v, r, w, j, l, b)
      BY <3>0 DEF no, class
    <3>3. QED
      BY <3>2 DEF WithLine, class
  <2>3. QED
    BY <1>2, <2>1, <2>2 DEF r, w, v, j, l, b
<1>3. QED
  BY <1>1, <1>2

-----------------------------------------------------------------------------
(* A first line that is accepted, and what is made of such a text.         *)
Third(s)    == Later(Later(WordStarts(s)))
WellFormed(s) ==
  Third(s) # {} /\ Later(Third(s)) = {} /\ FirstWord(s, WordStarts(s)) \in KnownMethods

LEMMA MeaningIs ==
  ASSUME NEW s
  PROVE  /\ ~WellFormed(s) => RequestMeaning(s) = None
         /\ WellFormed(s) => /\ RequestMeaning(s) # None
                             /\ RequestMeaning(s).version = FirstWord(s, Third(s))
                             /\ RequestMeaning(s).headers = HeadersOf(s)
                             /\ RequestMeaning(s).body = BodyOf(s)
<1>1. ~WellFormed(s) => RequestMeaning(s) = None
  BY DEF RequestMeaning, WellFormed, Third
<1>2. ASSUME WellFormed(s)
      PROVE  RequestMeaning(s) =
               [method   |-> FirstWord(s, WordStarts(s)),
                resource |-> FirstWord(s, Later(WordStarts(s))),
                version  |-> FirstWord(s, Third(s)),
                headers  |-> HeadersOf(s), body |-> BodyOf(s)]
  BY <1>2 DEF RequestMeaning, WellFormed, Third
<1>3. ASSUME WellFormed(s) PROVE "headers" \in DOMAIN RequestMeaning(s)
  BY <1>2, <1>3
<1>4. QED
  BY <1>1, <1>2, <1>3, NoneAssumption

(* What HTTPWorker sees of a header or of a body is one of its classes.    *)
LEMMA Classes ==
  ASSUME NEW headers, NEW body
  PROVE  /\ LengthClass(headers, body) \in Checks!Lengths
         /\ body = <<>> => BodyClass(body) = "empty"
         /\ body # <<>> => BodyClass(body) \in {"click", "text"}
         /\ LengthClass(<<>>, body) = "missing"
<1>1. DOMAIN <<>> = {}
  OBVIOUS
<1>2. LengthClass(<<>>, body) = "missing"
  BY <1>1 DEF LengthClass
<1>3. QED
  BY <1>2 DEF LengthClass, BodyClass, Checks!Lengths

(* A shorter body cannot have the length that the whole one had.           *)
LEMMA LengthsCut ==
  ASSUME NEW headers, NEW body, NEW less, Len(body) # Len(less), NEW w,
         w.length = LengthClass(headers, body)
  PROVE  LengthClass(headers, less) \in Checks!CutLengths(w)
<1>1. CASE <<"l">> \notin DOMAIN headers
  BY <1>1 DEF LengthClass, Checks!CutLengths
<1>2. CASE <<"l">> \in DOMAIN headers /\ Number(headers[<<"l">>]) = 0
  BY <1>2 DEF LengthClass, Checks!CutLengths
<1>3. CASE <<"l">> \in DOMAIN headers /\ Number(headers[<<"l">>]) # 0
  BY <1>3 DEF LengthClass, Checks!CutLengths
<1>4. QED
  BY <1>1, <1>2, <1>3

(* A request whose end was not received is seen as a truncation.           *)
LEMMA CutIsTruncated ==
  ASSUME NEW s, NEW t, Cut(s, t), s # t
  PROVE  Seen(RequestMeaning(s), t) \in Checks!Truncations(Seen(RequestMeaning(t), t))
<1> DEFINE p == RequestMeaning(s)
           w == RequestMeaning(t)
           r == ResourceSeen(t)
           m == MethodSeen(t)
           whole == Seen(w, t)
           seen  == Seen(p, t)
           v == IF w = None THEN "none" ELSE VersionSeen(w)
           j == IF w = None THEN FALSE ELSE JsonSeen(w)
           l == IF w = None THEN "missing" ELSE LengthClass(w.headers, w.body)
           b == IF w = None THEN "empty" ELSE BodyClass(w.body)
           no == FALSE
<1>1. /\ s \in Seq(STRING) /\ t \in Seq(STRING)
      /\ Len(s) \in Nat /\ Len(t) \in Nat /\ Len(s) < Len(t)
  <2>1. /\ s \in Seq(STRING) /\ t \in Seq(STRING) /\ Len(s) \in Nat /\ Len(t) \in Nat
        /\ Len(s) <= Len(t) /\ \A k \in 1..Len(s) : s[k] = t[k]
    BY DEF Cut
  <2>2. Len(s) # Len(t)
    BY <2>1
  <2>3. QED
    BY <2>1, <2>2
<1>2. whole = Class(v, r, m, j, l, b)
  <2> HIDE DEF w, r, m
  <2>1. CASE w = None
    BY <2>1, SeenIs DEF r, m
  <2>2. CASE w # None
    BY <2>2, SeenIs DEF r, m
  <2>3. QED
    BY <2>1, <2>2
<1>3. /\ p = None => seen = Class("none", r, m, no, "missing", "empty")
      /\ p # None => seen = Class(VersionSeen(p), r, m, JsonSeen(p),
                                  LengthClass(p.headers, p.body), BodyClass(p.body))
  BY SeenIs
<1>4. /\ v \in {"none", "1.1", "other"} /\ j \in BOOLEAN
      /\ w # None => v = VersionSeen(w) /\ j = JsonSeen(w)
                     /\ l = LengthClass(w.headers, w.body) /\ b = BodyClass(w.body)
      /\ w = None => v = "none"
  BY DEF VersionSeen, JsonSeen
<1>5. /\ p # None => WellFormed(s) /\ p.version = FirstWord(s, Third(s))
                     /\ p.headers = HeadersOf(s) /\ p.body = BodyOf(s)
      /\ WellFormed(t) => w # None /\ w.version = FirstWord(t, Third(t))
                          /\ w.headers = HeadersOf(t) /\ w.body = BodyOf(t)
  BY MeaningIs
<1>6. VersionSeen(p) \in {"1.1", "other"} /\ JsonSeen(p) \in BOOLEAN /\ no \in BOOLEAN
  BY DEF VersionSeen, JsonSeen
<1> HIDE DEF p, w, r, m, v, j, l, b, no, seen, whole
<1>7. /\ \A v2 \in (IF v = "1.1" THEN {"none", "other"} ELSE Checks!Versions) :
           Class(v2, r, m, no, "missing", "empty") \in Checks!Truncations(whole)
      /\ \A j2 \in BOOLEAN, l2 \in Checks!Lengths :
           Class(v, r, m, j2, l2, "empty") \in Checks!Truncations(whole)
      /\ \A l2 \in Checks!CutLengths(whole), b2 \in Checks!CutBodies(whole) :
           Class(v, r, m, j, l2, b2) \in Checks!Truncations(whole)
  BY <1>2, CutsAre DEF Checks!Truncations, no
<1>8. ASSUME NEW v2 \in {"none", "1.1", "other"}, v2 # v \/ v2 = "none"
      PROVE  Class(v2, r, m, no, "missing", "empty") \in Checks!Truncations(whole)
  BY <1>4, <1>7, <1>8 DEF Checks!Versions
<1>9. ASSUME p = None
      PROVE  seen \in Checks!Truncations(whole)
  BY <1>3, <1>8, <1>9
<1>10. ASSUME p # None /\ ~(Stop(s, 1, {"NL"}) <= Len(s))
       PROVE  seen \in Checks!Truncations(whole)
  <2>1. p.headers = <<>> /\ p.body = <<>>
    BY <1>1, <1>5, <1>10, OneLine
  <2>2. /\ LengthClass(p.headers, p.body) = "missing" /\ BodyClass(p.body) = "empty"
        /\ JsonSeen(p) = no
    <3>1. DOMAIN p.headers = {}
      BY <2>1
    <3>2. QED
      BY <2>1, <3>1, Classes DEF JsonSeen, no
  <2>3. seen = Class(VersionSeen(p), r, m, no, "missing", "empty")
    BY <1>3, <1>10, <2>2
  <2>4. CASE VersionSeen(p) = v
    <3>1. "missing" \in Checks!Lengths
      BY DEF Checks!Lengths
    <3>2. QED
      BY <1>6, <1>7, <2>3, <2>4, <3>1
  <2>5. CASE VersionSeen(p) # v
    BY <1>6, <1>8, <2>3, <2>5
  <2>6. QED
    BY <2>4, <2>5
<1>11. ASSUME p # None /\ Stop(s, 1, {"NL"}) <= Len(s)
       PROVE  seen \in Checks!Truncations(whole)
  <2>1. /\ WordStarts(s) = WordStarts(t)
        /\ \A P : P \subseteq WordStarts(s) => FirstWord(s, P) = FirstWord(t, P)
    BY <1>11, SameLine
  <2>2. Third(s) = Third(t) /\ Third(s) \subseteq WordStarts(s)
    BY <2>1 DEF Third, Later
  <2>3. /\ FirstWord(s, WordStarts(s)) = FirstWord(t, WordStarts(t))
        /\ FirstWord(s, Third(s)) = FirstWord(t, Third(t))
    BY <2>1, <2>2
  <2>4. WellFormed(t)
    BY <1>5, <1>11, <2>2, <2>3 DEF WellFormed
  <2>5. VersionSeen(p) = v
    BY <1>4, <1>5, <1>11, <2>3, <2>4 DEF VersionSeen
  <2>6. CASE p.body = <<>>
    <3>1. BodyClass(p.body) = "empty" /\ LengthClass(p.headers, p.body) \in Checks!Lengths
      BY <2>6, Classes
    <3>2. QED
      BY <1>3, <1>6, <1>7, <1>11, <2>5, <3>1
  <2>7. CASE p.body # <<>>
    <3>1. /\ w.headers = p.headers /\ w.body # <<>> /\ Len(p.body) \in Nat
          /\ Len(w.body) = Len(p.body) + (Len(t) - Len(s))
      BY <1>5, <1>11, <2>4, <2>7, SameHeaders
    <3>2. Len(w.body) # Len(p.body)
      BY <1>1, <3>1
    <3>3. JsonSeen(p) = j
      BY <1>4, <1>5, <2>4, <3>1 DEF JsonSeen
    <3>4. whole.length = LengthClass(w.headers, w.body) /\ whole.body = BodyClass(w.body)
      BY <1>2, <1>4, <1>5, <2>4, ClassIs
    <3>5. LengthClass(p.headers, p.body) \in Checks!CutLengths(whole)
      BY <3>1, <3>2, <3>4, LengthsCut
    <3>6. BodyClass(p.body) \in Checks!CutBodies(whole)
      <4>1. BodyClass(p.body) \in {"click", "text"} /\ whole.body \in {"click", "text"}
        BY <2>7, <3>1, <3>4, Classes
      <4>2. QED
        BY <4>1 DEF Checks!CutBodies
    <3>7. QED
      BY <1>3, <1>7, <1>11, <2>5, <3>3, <3>5, <3>6
  <2>8. QED
    BY <2>6, <2>7
<1>12. seen \in Checks!Truncations(whole)
  BY <1>9, <1>10, <1>11
<1>13. QED
  BY <1>12 DEF seen, whole, p, w

(* HTTPWorker::run sees the request the peer set out to send, or one of    *)
(* the truncations of it that HTTPServer's worker chooses from, whatever   *)
(* the peer sends and however the network cuts it.                         *)
THEOREM OnlyTruncationsAreSeen == Spec => []SeenOrTruncated
<1>1. Good => SeenOrTruncated
  <2> SUFFICES ASSUME Good, call = "done", IsRequest
               PROVE  \/ Seen(result, text) = Seen(Meaning(text), text)
                      \/ Seen(result, text) \in Checks!Truncations(Seen(Meaning(text), text))
    BY DEF SeenOrTruncated
  <2>1. result = Meaning(buffer)
    <3>1. Fits(buffer)
      BY BufferFits DEF Good, PosInv, Held
    <3>2. QED
      BY <3>1, AtCall DEF ReadOf
  <2>2. Meaning(buffer) = RequestMeaning(buffer) /\ Meaning(text) = RequestMeaning(text)
    BY DEF Meaning
  <2>3. CASE buffer = text
    BY <2>1, <2>3
  <2>4. CASE buffer # text
    <3>1. Cut(buffer, text)
      BY DEF Good, PosInv, Held, Cut
    <3>2. QED
      BY <2>1, <2>2, <2>4, <3>1, CutIsTruncated
  <2>5. QED
    BY <2>3, <2>4
<1>2. QED
  BY <1>1, GoodAlways, PTL
=============================================================================
