--------------------------- MODULE MCRequestInput ---------------------------
(* The requests that the instances of RequestInput send. *)
EXTENDS RequestInput

Request(method, path, params, protocol, headers, chunks, ending) ==
  [method |-> method, path |-> path, params |-> params, protocol |-> protocol,
   headers |-> headers, chunks |-> chunks, ending |-> ending]

x == <<"x">>
Header(key, sep, value) == [key |-> key, sep |-> sep, value |-> value]

\* The end of the body as Response::complete writes it, with a trailer, and as
\* the protocol has it.
OwnEnd  == CRLF \o CRLF
Trailer == x \o CRLF \o CRLF
Plain   == CRLF

\* Request lines with and without parameters and protocol.
Lines ==
  {Request(m, p, q, v, <<Header(x, <<":", "SP">>, x)>>, <<x>>, OwnEnd) :
     m \in {x, x \o x}, p \in {<<>>, x, <<":", "x">>},
     q \in {NoText, <<>>, x, <<"?", "x">>}, v \in {<<>>, x, <<"x", "SP", "x">>}}
  \cup {Request(x, p, NoText, NoText, <<Header(x, <<":", "SP">>, x)>>, <<x>>, OwnEnd) :
          p \in {<<>>, x}}

\* Headers: no colon, blanks only, colons and blanks in the value, folded.
HeaderSet ==
  {Header(x \o x, <<>>, <<>>)}
  \cup {Header(x, s, v) : s \in {<<":">>, <<":", "SP">>},
          v \in {<<>>, x, <<":", "x">>, <<"x", "SP">>,
                 <<"x", "CR", "LF", "SP", "x">>}}

HeaderRequests ==
  {Request(x, x, NoText, x, hs, <<>>, OwnEnd) :
     hs \in {<<>>} \cup {<<a>> : a \in HeaderSet}
              \cup {<<a, b>> : a, b \in HeaderSet}}

\* Bodies whose data looks like the framing.
Chunk == {x, x \o x, <<"CR", "LF">>, <<"1", "CR", "LF">>, <<"LF", "CR">>}
Bodies ==
  {Request(x, x, NoText, x, <<>>, cs, e) :
     cs \in {<<>>} \cup {<<a>> : a \in Chunk} \cup {<<a, b>> : a, b \in Chunk},
     e \in {OwnEnd, Trailer}}

\* A line without a method.
BadLines == {Request(<<"x", "LF">>, x, NoText, x, <<>>, <<>>, OwnEnd)}

AllRequests == Lines \cup HeaderRequests \cup Bodies \cup BadLines
PlainEnds   == {Request(x, x, NoText, x, <<>>, cs, Plain) :
                  cs \in {<<>>} \cup {<<a>> : a \in Chunk}}
=============================================================================
