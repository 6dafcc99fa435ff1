----------------------------- MODULE HTTPWorker -----------------------------
(***************************************************************************)
(* What HTTPWorker::run decides about one request (HTTPServer.cpp,         *)
(* HTTPServer.h): the checks it makes, the handler it dispatches to and    *)
(* the reply that handler sends.  A request is what parseRequest returns,  *)
(* abstracted to what those decisions tell apart:                          *)
(*   version   "1.1", "other", or "none" when parseRequest gives up on the *)
(*             first line and returns std::nullopt                         *)
(*   resource  the API function that is named                              *)
(*   method    "POST", or one of the other known methods ("GET")           *)
(*   json      whether Content-Type is exactly application/json            *)
(*   length    Content-Length: missing, not a number, the length of the    *)
(*             body, or another number                                     *)
(*   body      empty, "text" (not a report), "click" (a report whose       *)
(*             clicked link is not the empty string) or "blank" (a report  *)
(*             whose clicked link is the empty string)                     *)
(* This module has no state.                                               *)
(***************************************************************************)
EXTENDS Naturals

Resources == {"GetAutofill", "GetQueryID", "ReportSearchResults",
              "SubmitFeedback", "GetQueryData", "ReportMetrics", "unknown"}
Methods   == {"POST", "GET"}
Versions  == {"1.1", "other", "none"}
Lengths   == {"missing", "invalid", "right", "wrong"}
Bodies    == {"empty", "text", "click", "blank"}
Statuses  == {200, 400, 404, 405, 411, 505}

RequestType == [version: Versions, resource: Resources, method: Methods,
                json: BOOLEAN, length: Lengths, body: Bodies]

-----------------------------------------------------------------------------
(* v0reportSearchResults up to its reply: only POST, only JSON, and the    *)
(* body must hold the clicked index and the link it names.                 *)
ReportStatus(r) ==
  IF r.method # "POST" THEN 405
  ELSE IF ~r.json \/ r.body \notin {"click", "blank"} THEN 400
  ELSE 200

(* handlerMapper and the handlers: every API function but                  *)
(* ReportSearchResults answers 200 whatever it is sent, and any other      *)
(* resource is answered by notFound.                                       *)
HandlerStatus(r) ==
  CASE r.resource = "ReportSearchResults" -> ReportStatus(r)
    [] r.resource = "unknown" -> 404
    [] OTHER -> 200

(* Mutants: the length of the body is not checked; a click is forwarded    *)
(* whatever its report was answered.                                       *)
DispatchedUnchecked(r) == r.version = "1.1"
ForwardsRefused(r) ==
  DispatchedUnchecked(r) /\ r.resource = "ReportSearchResults"

(* The checks HTTPWorker::run makes before the dispatch.  Content-Length   *)
(* is only looked at when some body was read.                              *)
Dispatched(r) ==
  /\ r.version = "1.1"
  /\ r.body = "empty" \/ r.length = "right"

RejectStatus(r) ==
  CASE r.version = "none"  -> 400
    [] r.version = "other" -> 505
    [] OTHER -> IF r.length = "missing" THEN 411 ELSE 400

Status(r) == IF Dispatched(r) THEN HandlerStatus(r) ELSE RejectStatus(r)

(* Which requests evaluate ID++, and which go on to forward a click.       *)
TakesID(r)  == Dispatched(r) /\ r.resource = "GetQueryID"
Forwards(r) == /\ Dispatched(r)
               /\ r.resource = "ReportSearchResults"
               /\ ReportStatus(r) = 200
               /\ r.body = "click"

-----------------------------------------------------------------------------
(* What parseRequest makes of a request whose last bytes it did not get: a *)
(* recv timed out (10 ms), failed, or was interrupted by a signal.         *)
(*   - cut in the first line: no version, or a shorter one; of a first     *)
(*     line that was not well formed, what is left may be                  *)
(*   - cut after it: headers may be missing or shorter, the body is lost   *)
(*     or is blank, which counts as none                                   *)
(*   - cut in the body: a shorter body, which is a report only if what it  *)
(*     lost is white space after one, or text that made it none            *)
CutLine(r) ==
  {[r EXCEPT !.version = v, !.json = FALSE, !.length = "missing",
             !.body = "empty"] :
     v \in IF r.version = "1.1" THEN {"none", "other"} ELSE Versions}

CutHeaders(r) ==
  {[r EXCEPT !.json = cut[1], !.length = cut[2], !.body = "empty"] :
     cut \in BOOLEAN \X Lengths}

CutLengths(r) == CASE r.length = "right" -> {"wrong"}
                   [] r.length = "wrong" -> {"wrong", "right"}
                   [] OTHER -> {r.length}

CutBodies(r) == CASE r.body = "empty" -> {}
                  [] r.body = "text"  -> {"text", "click", "blank"}
                  [] OTHER -> {"text", r.body}

CutBody(r) ==
  {[r EXCEPT !.length = cut[1], !.body = cut[2]] :
     cut \in CutLengths(r) \X CutBodies(r)}

Truncations(r) == CutLine(r) \cup CutHeaders(r) \cup CutBody(r)
=============================================================================
