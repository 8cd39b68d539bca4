----------------------------- MODULE MCRequestHead -----------------------------
EXTENDS RequestHead

\* From nothing, and from heads that are about to go on with headers.
Beginnings == [
    request |-> {
        <<"SP">>, <<"CR">>, <<"LF">>, <<"TOK">>,
        <<"TOK", "SP", "TOK", "SP">>,
        <<"CR", "LF", "SP", "SP", "VER">>,
        <<"LF", "CL", "COLON", "SP", "SP", "VER", "LF">>,
        <<"TOK", "SP", "TOK", "SP", "VER", "CR", "LF">>,
        <<"TOK", "SP", "TOK", "SP", "VER", "LF", "CL", "COLON", "NUM">>,
        <<"TOK", "SP", "TOK", "SP", "VER", "LF", "CL", "COLON", "NUM", "LF", "CL", "COLON">>,
        <<"TOK", "SP", "TOK", "SP", "VER", "LF", "CL", "COLON", "NUM", "CR", "LF", "CL", "COLON", "SP", "NUM">>},
    response |-> {
        <<"VER">>,
        <<"VER", "SP", "NUM">>,
        <<"VER", "SP", "NUM", "SP", "TOK">>,
        <<"VER", "SP", "NUM", "SP", "LF", "TOK", "COLON">>},
    headers |-> {
        <<"TOK", "COLON">>,
        <<"TOK", "COLON", "TOK", "CR", "LF">>}]

\* A block of headers without headers, such as the trailer most bodies have.
EmptyBlock == [request |-> {}, response |-> {}, headers |-> {<<"CR">>}]
=============================================================================
