------------------------------- MODULE MCHttpParser -------------------------------
(***********************************************************************************)
(* Instances of HttpParser: numbers of two digits, eight lengths, and the responses *)
(* that take the parser through each of its states.                                *)
(***********************************************************************************)
EXTENDS HttpMessage

MCDigits == [d \in {"0", "1"} |-> IF d = "0" THEN 0 ELSE 1]

H1 == <<"HTTP/", "1.1", " ">>
H0 == <<"HTTP/", "1.0", " ">>
NL == <<CR, LF>>
A  == <<"a", ":", "v">> \o NL          \* a header that means nothing to the parser
AH == <<"a">> :> <<"v">>
Length(digits) == <<"con", "tent-length", ":", " ">> \o digits \o NL
LH(digits)     == <<"con", "tent-length">> :> digits
Connection(v)  == <<"con", "nection", ":">> \o v \o NL
CH(v)          == <<"con", "nection">> :> v

Reply(status, wire, headers, body, ends) ==
    [wire |-> wire, status |-> status, headers |-> headers, body |-> body, ends |-> ends]

\* A body by Content-Length, which a read may cut.
Plain == Reply("200",
    H1 \o <<"200", " ", "ok">> \o NL \o Length(<<"1", "0">>) \o NL \o <<"x", CR>>,
    LH(<<"1", "0">>), <<"x", CR>>, "keep")
\* A length of 0, no status text, lines that end in LF.
Empty == Reply("404",
    H1 \o <<"404", LF, "con", "tent-length", ":", "0", LF, LF>>,
    LH(<<"0">>), <<>>, "keep")
\* A chunk with an extension, the last chunk, and a trailer.
Chunked == Reply("200",
    H1 \o <<"200">> \o NL \o <<"transfer-", "encoding", ":", " ", "chun", "ked">> \o NL \o NL
       \o <<"1", "0", ";", "e">> \o NL \o <<"x", LF>> \o NL
       \o <<"0">> \o NL \o A \o NL,
    (<<"transfer-", "encoding">> :> <<"chun", "ked">>) @@ AH, <<"x", LF>>, "keep")
\* No body by its status; an empty value.
NoContent == Reply("204",
    H1 \o <<"204">> \o NL \o <<"a", ":">> \o NL \o NL,
    <<"a">> :> <<>>, <<>>, "keep")
\* The second of a list of options counts, in a value that goes on in a second line.
Closing == Reply("200",
    H1 \o <<"200">> \o NL \o <<"con", "nection", ":", "b", ",">> \o NL
       \o <<" ", "clo", "se", ",", "b">> \o NL \o Length(<<"1">>) \o NL \o <<"x">>,
    CH(<<"b", ",", " ", "clo", "se", ",", "b">>) @@ LH(<<"1">>), <<"x">>, "close")
\* HTTP/1.0 closes, unless it says otherwise.
Old == Reply("200",
    H0 \o <<"200">> \o NL \o Length(<<"1">>) \o NL \o <<"x">>,
    LH(<<"1">>), <<"x">>, "close")
OldKept == Reply("200",
    H0 \o <<"200">> \o NL \o Connection(<<"keep-", "alive">>) \o Length(<<"0">>) \o NL,
    CH(<<"keep-", "alive">>) @@ LH(<<"0">>), <<>>, "keep")
\* A body until the end of the stream; names that only begin like those the parser knows.
UntilEof == Reply("200",
    H1 \o <<"200">> \o NL \o <<"con", "a", ":", "v">> \o NL \o NL \o <<"x", "y">>,
    <<"con", "a">> :> <<"v">>, <<"x", "y">>, "eof")
\* A switch of protocols.
Switching == Reply("101",
    H1 \o <<"101">> \o NL \o Connection(<<"up", "grade">>)
       \o <<"up", "grade", ":", "v">> \o NL \o NL,
    CH(<<"up", "grade">>) @@ (<<"up", "grade">> :> <<"v">>), <<>>, "keep")

MCReplies ==
    {Plain, Empty, Chunked, NoContent, Closing, Old, OldKept, UntilEof, Switching}
MCTorn   == {Chunked}
MCSpoilt == {<<>>, <<"junk">>}

FewReplies == {Plain, NoContent}
FewTorn    == {Plain}
FewSpoilt  == {<<>>}

\* A byte no message begins with, lengths that are none, lengths that do not fit.
BadLength(digits) == H1 \o <<"200">> \o NL \o Length(digits) \o NL \o <<"x">>
BadChunk(digits)  ==
    H1 \o <<"200">> \o NL \o <<"transfer-", "encoding", ":", "chun", "ked">> \o NL \o NL
       \o digits \o NL \o <<"x">>
MCGarbage == {<<"junk">>, BadLength(<<"1", "1", "1">>), BadChunk(<<"1", "1", "1">>),
              BadLength(<<"junk">>), BadLength(<<"1", " ", "junk">>)}
===================================================================================
