---------------------------- MODULE MessageParser ----------------------------
(***************************************************************************)
(* What parseRequest and parseResponse (HTTPServer.cpp) have in common:    *)
(* a message is put together from calls on a SocketStream whose peer sends *)
(* a text in pieces, pauses and disappears.  One action for each call,     *)
(* with what the parser does with its result.                              *)
(***************************************************************************)
EXTENDS SocketStream

CONSTANT None         (* std::nullopt                                        *)

ASSUME NoneAssumption == "headers" \notin DOMAIN None   (* it is no message *)

VARIABLES call,      (* the call on the stream that is under way            *)
          message,   (* the request or response being put together          *)
          result     (* what the parser returned, once call is "done"       *)

vars == <<stream, call, message, result>>

(* How far into the buffer the call gets before it returns.                *)
Reached == CASE call \in {"rest", "header"} -> LineEnd(pos)
             [] call = "status" -> LineEnd(SkipSpace(pos))
             [] call \in {"more", "body?"} -> SkipSpace(pos)
             [] call = "body" -> Len(buffer)
             [] OTHER -> WordEnd(pos)

Recv == /\ call # "done" /\ Starved(Reached)
        /\ RecvData \/ RecvNothing
        /\ UNCHANGED <<call, message, result>>

Returns(c) == call = c /\ ~Starved(Reached) /\ UNCHANGED <<text, buffer, timed_out>>

Return(value) == call' = "done" /\ result' = value

(* A word that is the field of that name, and the call that follows.       *)
Word(field, next) == /\ Returns(field)
                     /\ message' = [message EXCEPT ![field] = nextWord]
                     /\ pos' = WordEnd(pos) /\ call' = next
                     /\ UNCHANGED result

-----------------------------------------------------------------------------
(* The headers and the body.                                               *)

(* Mutant: headers are read without asking hasNext.                        *)
MoreUnasked == Returns("more") /\ call' = "header" /\ UNCHANGED <<pos, message, result>>

(* hasNext: a header line, or else perhaps the body.                       *)
More == /\ Returns("more")
        /\ call' = IF hasNext THEN "header" ELSE "body?"
        /\ UNCHANGED <<pos, message, result>>

(* A header: its name in lower case, its value without leading space.      *)
tolower(c) == CASE c = "L" -> "l" [] c = "T" -> "t" [] OTHER -> c

Colon(line) == SelectInSeq(line, LAMBDA c : c = ":")

Name(line)  == [i \in 1..(Colon(line) - 1) |-> tolower(line[i])]
Value(line) ==
  LET start == SelectInSubSeq(line, Colon(line) + 1, Len(line),
                              LAMBDA c : ~isspace(c))
  IN IF start = 0 THEN <<>> ELSE SubSeq(line, start, Len(line))

(* headers[name] = value, in place of an earlier value of that name.       *)
Put(headers, name, value) ==
  [n \in DOMAIN headers \cup {name} |-> IF n = name THEN value ELSE headers[n]]

(* The first line without a colon, empty or not, ends the headers.         *)
Header ==
  /\ Returns("header")
  /\ pos' = LineEnd(pos) + 1
  /\ IF Colon(nextLine) = 0
       THEN call' = "body?" /\ UNCHANGED message
       ELSE /\ call' = "more"
            /\ message' = [message EXCEPT
                 !.headers = Put(@, Name(nextLine), Value(nextLine))]
  /\ UNCHANGED result

HasBody == /\ Returns("body?")
           /\ IF hasNext THEN call' = "body" /\ UNCHANGED result
                         ELSE Return(message)
           /\ UNCHANGED <<pos, message>>

Body == /\ Returns("body")
        /\ message' = [message EXCEPT !.body = remaining]
        /\ pos' = Len(buffer)
        /\ Return(message')

HeadersAndBody == More \/ Header \/ HasBody \/ Body

-----------------------------------------------------------------------------
(* What a text is, all of it at hand: the lines and words at the positions *)
(* where they start, counted from 1.                                       *)

(* Where, from i on, one of some characters is, or the text has ended.     *)
Stop(s, i, chars) == Min({j \in i..Len(s) : s[j] \in chars} \cup {Len(s) + 1})

LineStarts(s) == {1} \cup {j + 1 : j \in {i \in 1..Len(s) : s[i] = "NL"}}
LineAt(s, i)  == StripCR(SubSeq(s, i, Stop(s, i, {"NL"}) - 1))

(* The words of the first line.                                            *)
WordStarts(s) ==
  {i \in 1..(Stop(s, 1, {"NL"}) - 1) :
     ~isspace(s[i]) /\ (i = 1 \/ isspace(s[i - 1]))}

FirstWord(s, starts) ==
  IF starts = {} THEN <<>>
  ELSE SubSeq(s, Min(starts), Stop(s, Min(starts), Space) - 1)

Later(starts) == {i \in starts : \E j \in starts : j < i}

(* After the first line, the lines up to one without a colon are headers;  *)
(* the last of a name counts.  What comes after that line, if it is not    *)
(* blank, is the body.                                                     *)
HeaderStarts(s) ==
  {i \in LineStarts(s) \ {1} :
     \A h \in LineStarts(s) \ {1} : h <= i => Colon(LineAt(s, h)) # 0}

HeadersAt(s, starts) ==
  [name \in {Name(LineAt(s, i)) : i \in starts} |->
     Value(LineAt(s, Max({i \in starts : Name(LineAt(s, i)) = name})))]

HeadersOf(s) == HeadersAt(s, HeaderStarts(s))

BodyOf(s) ==
  LET others == LineStarts(s) \ ({1} \cup HeaderStarts(s))
      rest   == IF others = {} THEN <<>>
                ELSE SubSeq(s, Stop(s, Min(others), {"NL"}) + 1, Len(s))
  IN IF \A i \in DOMAIN rest : isspace(rest[i]) THEN <<>> ELSE rest

(* stoul: the digits the value begins with.                                *)
Digits == [c \in {ToString(d) : d \in 0..9} |-> CHOOSE d \in 0..9 : ToString(d) = c]

Number(value) ==
  LET stop == SelectInSeq(value, LAMBDA c : c \notin DOMAIN Digits)
  IN FoldLeft(LAMBDA n, c : 10 * n + Digits[c], 0,
              IF stop = 0 THEN value ELSE SubSeq(value, 1, stop - 1))
=============================================================================
