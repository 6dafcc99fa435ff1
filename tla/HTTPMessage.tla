---------------------------- MODULE HTTPMessage ----------------------------
(***************************************************************************)
(* The constructors of HTTPRequest and HTTPResponse and the text that      *)
(* to_string makes of them (HTTPServer.cpp).  A message is a record with   *)
(* the fields of the class; words and bodies are sequences of characters,  *)
(* as in SocketStream.                                                     *)
(***************************************************************************)
EXTENDS Naturals, SequencesExt

HTTP11 == <<"V", "1">>
EOL    == <<"CR", "NL">>

(* The decimal digits of a number.                                         *)
Width(n)   == CHOOSE w \in 1..20 : n < 10 ^ w /\ (w = 1 \/ n >= 10 ^ (w - 1))
Numeral(n) == [i \in 1..Width(n) |-> ToString((n \div 10 ^ (Width(n) - i)) % 10)]

(* Content-Type and Content-Length, of a body in JSON.                     *)
JSONHeaders(body) == <<"T">> :> <<"J">> @@ <<"L">> :> Numeral(Len(body))

BareRequest(method, resource) ==
  [method |-> method, resource |-> resource, version |-> HTTP11,
   headers |-> <<>>, body |-> <<>>]

Request(method, resource, body) ==
  [BareRequest(method, resource) EXCEPT !.headers = JSONHeaders(body), !.body = body]

BareResponse(code, status) ==
  [version |-> HTTP11, code |-> code, status |-> status,
   headers |-> <<>>, body |-> <<>>]

Response(code, status, body) ==
  [BareResponse(code, status) EXCEPT !.headers = JSONHeaders(body), !.body = body]

(* The lines of the headers, in any order: they are in an unordered_map.   *)
HeaderLines(headers) ==
  {FlattenSeq([i \in DOMAIN names |-> names[i] \o <<":", "SP">> \o headers[names[i]] \o EOL]) :
     names \in SetToSeqs(DOMAIN headers)}

(* Mutant: the line that ends the headers is forgotten.                    *)
PrintedUnended(first, m) == {first \o EOL \o lines \o m.body : lines \in HeaderLines(m.headers)}

Printed(first, m) ==
  {first \o EOL \o lines \o EOL \o m.body : lines \in HeaderLines(m.headers)}

RequestTexts(m) ==
  Printed(m.method \o <<"SP">> \o m.resource \o <<"SP">> \o m.version, m)

ResponseTexts(m) ==
  Printed(m.version \o <<"SP">> \o Numeral(m.code) \o <<"SP">> \o m.status, m)
=============================================================================
