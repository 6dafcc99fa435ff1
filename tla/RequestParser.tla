---------------------------- MODULE RequestParser ----------------------------
(***************************************************************************)
(* HTTPWorker::parseRequest (HTTPServer.cpp), and what HTTPWorker::run     *)
(* sees of its result.                                                     *)
(***************************************************************************)
EXTENDS MessageParser

KnownMethods == {<<"G">>, <<"P">>}      (* stringToMethod knows the word    *)

NewRequest == [method |-> <<>>, resource |-> <<>>, version |-> <<>>,
               headers |-> <<>>, body |-> <<>>]

RequestInit == call = "method" /\ message = NewRequest

IsRequest == DOMAIN message = DOMAIN NewRequest

(* method = stringToMethod(nextWord()), resource = nextWord(), and then    *)
(* version = nextWord(): the first line must have held all three.          *)
MethodAndResource == Word("method", "resource") \/ Word("resource", "version")

Version ==
  /\ Returns("version")
  /\ message' = [message EXCEPT !.version = nextWord]
  /\ pos' = WordEnd(pos)
  /\ IF \/ \E i \in 1..WordEnd(pos) : buffer[i] = "NL"
        \/ message.resource = <<>> \/ nextWord = <<>>
       THEN Return(None)
       ELSE call' = "rest" /\ UNCHANGED result

(* Mutants: the rest of the line is not looked at; it must be empty.       *)
AnyRest == /\ Returns("rest")
           /\ pos' = LineEnd(pos) + 1 /\ call' = "more"
           /\ UNCHANGED <<message, result>>

NoRest == /\ Returns("rest")
          /\ pos' = LineEnd(pos) + 1
          /\ IF nextLine = <<>> THEN call' = "more" /\ UNCHANGED result
                                ELSE Return(None)
          /\ UNCHANGED message

(* Nothing else may be in that line, and the method must be known.         *)
RestOfLine ==
  /\ Returns("rest")
  /\ pos' = LineEnd(pos) + 1
  /\ IF (\E i \in DOMAIN nextLine : ~isspace(nextLine[i]))
          \/ message.method \notin KnownMethods
       THEN Return(None)
       ELSE call' = "more" /\ UNCHANGED result
  /\ UNCHANGED message

parseRequest ==
  IsRequest /\ (MethodAndResource \/ Version \/ RestOfLine \/ HeadersAndBody)

-----------------------------------------------------------------------------
(* The first line is a known method, a resource and a version.             *)
RequestMeaning(s) ==
  LET one   == WordStarts(s)
      two   == Later(one)
      three == Later(two)
  IN IF three = {} \/ Later(three) # {} \/ FirstWord(s, one) \notin KnownMethods
       THEN None
     ELSE [method   |-> FirstWord(s, one),
           resource |-> FirstWord(s, two),
           version  |-> FirstWord(s, three),
           headers  |-> HeadersOf(s), body |-> BodyOf(s)]

(* What HTTPWorker tells apart in it: ReportSearchResults is "R", POST "P",*)
(* HTTP/1.1 "V1", Content-Type "t" with application/json "J",              *)
(* Content-Length "l", a report body "K".                                  *)
Checks == INSTANCE HTTPWorker

LengthClass(headers, body) ==
  IF <<"l">> \notin DOMAIN headers THEN "missing"
  ELSE IF Number(headers[<<"l">>]) = 0 THEN "invalid"
  ELSE IF Number(headers[<<"l">>]) = Len(body) THEN "right" ELSE "wrong"

BodyClass(body) ==
  IF body = <<>> THEN "empty"
  ELSE IF SelectSeq(body, LAMBDA c : ~isspace(c)) = <<"K">> THEN "click"
  ELSE "text"

Seen(parsed, s) ==
  LET one   == WordStarts(s)
      class == [version  |-> "none",
                resource |-> IF FirstWord(s, Later(one)) = <<"R">>
                               THEN "ReportSearchResults" ELSE "unknown",
                method   |-> IF FirstWord(s, one) = <<"P">> THEN "POST" ELSE "GET",
                json     |-> FALSE, length |-> "missing", body |-> "empty"]
  IN IF parsed = None THEN class
     ELSE [class EXCEPT
             !.version = IF parsed.version = <<"V", "1">> THEN "1.1" ELSE "other",
             !.json    = <<"t">> \in DOMAIN parsed.headers
                           /\ parsed.headers[<<"t">>] = <<"J">>,
             !.length  = LengthClass(parsed.headers, parsed.body),
             !.body    = BodyClass(parsed.body)]
=============================================================================
