---------------------------- MODULE MCHTTPServer ----------------------------
(* Small instances of HTTPServer for TLC.                                  *)
EXTENDS HTTPServer, Evaltool, TLC

CONSTANTS c1, c2, c3

(* A client that is evaltool, ...                                          *)
GetID   == Sends("GetQueryID", "empty")
Click   == Sends("ReportSearchResults", "click")
Text    == Sends("ReportSearchResults", "text")

(* ... and others, that announce a wrong length or break the first line.   *)
Longer  == [Text EXCEPT !.length = "wrong"]
Garbled == [GetID EXCEPT !.version = "none"]

MCIds     == {GetID}
MCCalls   == {GetID, Click}
MCAll     == {GetID, Click, Text, Longer, Garbled}

Symmetry == Permutations(Conns)
=============================================================================
