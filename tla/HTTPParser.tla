----------------------------- MODULE HTTPParser -----------------------------
(***************************************************************************)
(* The two parsers of HTTPWorker (HTTPServer.cpp), each reading whatever   *)
(* its peer may send, and what they promise: a text means the same however *)
(* it is cut, and a message printed by to_string is read as it was.        *)
(***************************************************************************)
EXTENDS RequestParser, ResponseParser

CONSTANTS Requests, Responses     (* messages that a peer of the program    *)
                                  (* prints with to_string                  *)

Printer == INSTANCE HTTPMessage

(* What a text can carry: words end at white space, the rest of a line and *)
(* a header's value at the end of the line, a name at the colon; leading   *)
(* space is lost, and so is a body of nothing but white space.             *)
IsText(w)   == w \in Seq(STRING)
IsWord(w)   == IsText(w) /\ w # <<>> /\ \A i \in 1..Len(w) : ~isspace(w[i])
IsValue(w)  == /\ IsText(w) /\ \A i \in 1..Len(w) : w[i] # "NL"
               /\ w # <<>> => ~isspace(w[1])
IsStatus(w) == IsValue(w) /\ w # <<>>
IsName(w)   == IsText(w) /\ \A i \in 1..Len(w) : w[i] \notin {":", "NL"}
IsBody(w)   == /\ IsText(w)
               /\ w # <<>> => \E i \in 1..Len(w) : ~isspace(w[i])

(* No two names differ in nothing but case.                                *)
Lower(name) == [i \in 1..Len(name) |-> tolower(name[i])]

AreHeaders(headers) ==
  /\ IsFiniteSet(DOMAIN headers)
  /\ \A h \in DOMAIN headers : IsName(h) /\ IsValue(headers[h])
  /\ \A g, h \in DOMAIN headers : Lower(g) = Lower(h) => g = h

ASSUME RequestsAssumption ==
  \A m \in Requests :
    /\ m = [method |-> m.method, resource |-> m.resource, version |-> m.version,
            headers |-> m.headers, body |-> m.body]
    /\ m.method \in KnownMethods /\ IsWord(m.method)
    /\ IsWord(m.resource) /\ IsWord(m.version)
    /\ AreHeaders(m.headers) /\ IsBody(m.body)

(* stoul reads the number that to_string printed.                          *)
IsCode(n) ==
  LET word == Printer!Numeral(n)
  IN n # 0 /\ IsWord(word) /\ StartsWithDigit(word) /\ Number(word) = n

ASSUME ResponsesAssumption ==
  \A m \in Responses :
    /\ m = [version |-> m.version, code |-> m.code, status |-> m.status,
            headers |-> m.headers, body |-> m.body]
    /\ IsWord(m.version) /\ IsCode(m.code) /\ IsStatus(m.status)
    /\ AreHeaders(m.headers) /\ IsBody(m.body)

Init == StreamInit /\ result = None /\ (RequestInit \/ ResponseInit)

Next == Recv \/ parseRequest \/ parseResponse

Spec == Init /\ [][Next]_vars

(* The thread runs on when it can.  Nothing is assumed of the peer: it may *)
(* stop anywhere in its text, and no pause has to come.                    *)
FairSpec == Spec /\ WF_vars(parseRequest \/ parseResponse)

-----------------------------------------------------------------------------
Calls == {"method", "resource", "version", "code", "status", "rest", "more",
          "header", "body?", "body", "done"}

(* The fields have their types, and the buffer holds what has been sent.   *)
TypeOK ==
  /\ call \in Calls /\ timed_out \in BOOLEAN
  /\ IsPrefix(buffer, text)
  /\ pos \in 0..(Len(buffer) + 1)
  /\ IsRequest \/ IsResponse

(* A call that takes a substring starts it inside the buffer, or           *)
(* std::string::substr throws and nothing catches it: nextLine may leave   *)
(* m_pos one past the end (TCPSocket.cpp:348), and only hasNext keeps a    *)
(* later call from it.                                                     *)
NoOutOfRange == call \notin {"more", "body?", "done"} => pos <= Len(buffer)

(* What a text means to the parser that reads it.                          *)
Meaning(s) == IF IsRequest THEN RequestMeaning(s) ELSE ResponseMeaning(s)

(* However the text was cut into pieces, the parser returns what the part  *)
(* of it that was received means as a whole.                               *)
PiecesDoNotMatter == call = "done" => result = Meaning(buffer)

(* A message given up before the end of what the peer sends is one that    *)
(* the rest of it could not have mended.                                   *)
RejectedForGood ==
  call = "done" /\ ~timed_out => Meaning(text) = None /\ result = None

(* HTTPWorker::run sees the request the peer set out to send, or one of    *)
(* the truncations of it that HTTPServer's worker chooses from.            *)
SeenOrTruncated ==
  call = "done" /\ IsRequest =>
    LET whole == Seen(Meaning(text), text)
        seen  == Seen(result, text)
    IN seen = whole \/ seen \in Checks!Truncations(whole)

(* A message that was printed by to_string and has arrived is read as it   *)
(* was, but for the case of its header names.                              *)
LowerNames(headers) ==
  [name \in {Lower(h) : h \in DOMAIN headers} |->
     headers[CHOOSE h \in DOMAIN headers : Lower(h) = name]]

Lowered(m) == [m EXCEPT !.headers = LowerNames(@)]

ReadAsPrinted ==
  call = "done" /\ buffer = text =>
    /\ IsRequest => \A m \in Requests :
         text \in Printer!RequestTexts(m) => result = Lowered(m)
    /\ IsResponse => \A m \in Responses :
         text \in Printer!ResponseTexts(m) => result = Lowered(m)

(* Once one recv has yielded nothing - the peer made a pause of 10 ms,     *)
(* closed or reset the connection, or a signal came - the parser returns,  *)
(* whatever call it was in, with no recv after that one (m_timed_out,      *)
(* TCPSocket.cpp:363-371).  While each recv yields something it is         *)
(* promised nothing: the timeout is for one recv, and a peer may go on     *)
(* with a text for ever.                                                   *)
ParseReturns == timed_out ~> call = "done"
=============================================================================
