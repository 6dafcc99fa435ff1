------------------------------ MODULE Evaltool ------------------------------
(***************************************************************************)
(* The requests that evaltool (evaltool.py) makes of the server, in the    *)
(* terms of HTTPWorker.  The requests library adds Content-Type when it is *)
(* given a JSON body, and Content-Length whenever a body may be there.     *)
(* This module has no state.                                               *)
(***************************************************************************)
EXTENDS HTTPWorker

Gets  == {"GetAutofill", "GetQueryID", "GetQueryData"}

(* The body is the JSON argument of the command; "null" sends none.        *)
make_request(verb, path, content) ==
  [version |-> "1.1", resource |-> path, method |-> verb,
   json    |-> content # "empty",
   length  |-> IF verb = "GET" THEN "missing" ELSE "right",
   body    |-> content]

(* command_handler.  ReportMetrics goes to SubmitFeedback.                 *)
Sends(command, content) ==
  IF command \in Gets THEN make_request("GET", command, "empty")
  ELSE make_request("POST",
                    IF command = "ReportMetrics" THEN "SubmitFeedback" ELSE command,
                    content)
=============================================================================
