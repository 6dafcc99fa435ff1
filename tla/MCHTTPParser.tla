---------------------------- MODULE MCHTTPParser ----------------------------
(* Small instances of HTTPParser for TLC.                                  *)
EXTENDS HTTPParser

Upto(n, chars) == UNION {[1..k -> chars] : k \in 0..n}

(* First lines, good and bad, with all the short texts that may follow.    *)
FirstLine == <<"P", "SP", "R", "SP", "V", "1">>

MCHeads ==
  {FirstLine \o s : s \in Upto(5, {"SP", "NL", ":", "L"})}
    \cup Upto(4, {"P", "SP", "NL"})

(* Reports: both headers, in either order, with LF or CRLF, with lengths   *)
(* and bodies that fit and that do not.                                    *)
MCReports ==
  {FirstLine \o eol \o first \o eol \o second \o eol \o eol \o body :
     eol    \in {<<"NL">>, <<"CR", "NL">>},
     first  \in {<<"T", ":", "SP", "J">>, <<"T", ":", "J", "J">>, <<"T">>},
     second \in {<<"L", ":", n>> : n \in {"1", "2", "3", "J"}}
                  \cup {<<"L", ":", "1", "2">>},
     body   \in {<<>>, <<"K">>, <<"K", "SP">>, <<"SP", "K">>, <<"K", "x">>,
                 <<"x", "NL", "K">>}}
  \cup {FirstLine \o tail : tail \in
          {<<"SP", "x", "NL", "T", ":", "J", "NL", "NL", "K">>,
           <<"1", "NL", "T", ":", "J", "NL", "NL", "K">>}}

(* Status lines, good and bad, and what may follow.                        *)
MCStatusLines ==
  {<<"V", "SP", "2">> \o s : s \in Upto(4, {"SP", "CR", "NL", "O"})}
    \cup {<<"V", "SP">> \o s : s \in Upto(4, {"SP", "NL", "1", "O"})}

(* What the two sides print: with and without a body, of which one is more *)
(* than a line, and with a status of two words.                            *)
Bodies == {<<"K">>, <<"x", "NL", ":">>}

MCRequests ==
  {Printer!BareRequest(<<"G">>, <<"R">>)}
    \cup {Printer!Request(<<"P">>, <<"R">>, body) : body \in Bodies}

MCResponses ==
  {Printer!BareResponse(200, <<"O">>)}
    \cup {Printer!Response(400, <<"B", "SP", "R">>, body) : body \in Bodies}

MCTexts == MCHeads \cup MCReports \cup MCStatusLines
             \cup UNION {Printer!RequestTexts(m) : m \in MCRequests}
             \cup UNION {Printer!ResponseTexts(m) : m \in MCResponses}

(* std::nullopt is the one value without fields.                           *)
MCNone == <<>>
=============================================================================
