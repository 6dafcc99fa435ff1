--------------------------- MODULE ResponseParser ---------------------------
(***************************************************************************)
(* HTTPWorker::parseResponse (HTTPServer.cpp), by which the tests read the *)
(* server's replies.                                                       *)
(***************************************************************************)
EXTENDS MessageParser

NewResponse == [version |-> <<>>, code |-> 0, status |-> <<>>,
                headers |-> <<>>, body |-> <<>>]

ResponseInit == call = "version" /\ message = NewResponse

IsResponse == DOMAIN message = DOMAIN NewResponse

(* code = stoul(nextWord()), which throws if there is no number.           *)
StartsWithDigit(word) == word # <<>> /\ word[1] \in DOMAIN Digits

Code == /\ Returns("code")
        /\ pos' = WordEnd(pos)
        /\ IF StartsWithDigit(nextWord)
             THEN /\ message' = [message EXCEPT !.code = Number(nextWord)]
                  /\ call' = "status" /\ UNCHANGED result
             ELSE Return(None) /\ UNCHANGED message

(* nextLine(true): white space before the line, newlines too, is skipped.  *)
nextText == StripCR(Between(SkipSpace(pos), LineEnd(SkipSpace(pos))))

(* Where nextLine leaves m_pos, the first newline must be the last         *)
(* character passed: then this was the first line, and there was an end of *)
(* it.                                                                     *)
FirstLineEndsAt(place) == NewLines # {} /\ Min(NewLines) = place - 1

(* Mutant: a line that the text breaks off in is taken for the whole.      *)
StatusUnended ==
  /\ Returns("status")
  /\ pos' = LineEnd(SkipSpace(pos)) + 1
  /\ message' = [message EXCEPT !.status = nextText]
  /\ IF message.version # <<>> /\ message.code # 0 /\ nextText # <<>>
       THEN call' = "more" /\ UNCHANGED result
       ELSE Return(None)

Status ==
  /\ Returns("status")
  /\ pos' = LineEnd(SkipSpace(pos)) + 1
  /\ message' = [message EXCEPT !.status = nextText]
  /\ IF /\ FirstLineEndsAt(pos')
        /\ message.version # <<>> /\ message.code # 0 /\ nextText # <<>>
       THEN call' = "more" /\ UNCHANGED result
       ELSE Return(None)

parseResponse ==
  IsResponse /\ (Word("version", "code") \/ Code \/ Status \/ HeadersAndBody)

-----------------------------------------------------------------------------
(* The first line, which must have an end, is a version, a code and the    *)
(* status, which may be several words.                                     *)
ResponseMeaning(s) ==
  LET one   == WordStarts(s)
      two   == Later(one)
      three == Later(two)
      code  == FirstWord(s, two)
  IN IF \/ LineStarts(s) = {1} \/ three = {}
        \/ ~StartsWithDigit(code) \/ Number(code) = 0
       THEN None
     ELSE [version |-> FirstWord(s, one),
           code    |-> Number(code),
           status  |-> StripCR(SubSeq(s, Min(three), Stop(s, 1, {"NL"}) - 1)),
           headers |-> HeadersOf(s), body |-> BodyOf(s)]
=============================================================================
