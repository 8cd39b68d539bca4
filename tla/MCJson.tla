--------------------------------- MODULE MCJson ---------------------------------
EXTENDS JsonReader, JsonWriter

NonEmpty(S) == UNION {[1 .. n -> S] : n \in 1 .. 2}

Numbers == {0, 7, 10, 99}

Maps(S) == UNION {[keys -> S] : keys \in {K \in SUBSET {0, 7, 10} : Cardinality(K) \in 1 .. 2}}

\* Bare words and others: characters that end a word, begin another kind of token or an
\* escape, and that do neither.
Characters == {"x", "b", "1", "-", "/", "QUOTE", "BSL", ",", "]", "SP", "NL"}

Strings(max) == UNION {[1 .. n -> Characters] : n \in 0 .. max}

\* Values of each type that can be written.
Values(type) ==
    CASE type = <<"seq", "uint">> -> NonEmpty(Numbers)
      [] type = <<"seq", "string">> -> [1 .. 1 -> Strings(3)] \cup NonEmpty(Strings(1))
      [] type = <<"map", "uint">> -> Maps({0, 7, 10})
      [] type = <<"map", "string">> -> Maps({<<"x">>, <<"x", ",">>, <<>>})
      [] type = <<"seq", "seq", "uint">> -> NonEmpty(NonEmpty({0, 10}))
      [] type = <<"map", "map", "uint">> -> Maps(Maps({7}))
      [] type = <<"seq", "map", "uint">> -> NonEmpty(Maps({7}))

Types == {
    <<"seq", "uint">>, <<"seq", "string">>, <<"map", "uint">>, <<"map", "string">>,
    <<"seq", "seq", "uint">>, <<"map", "map", "uint">>, <<"seq", "map", "uint">>}

\* What may stand between the tokens.  A line feed behind a bare word is an error of the
\* reader.
Gaps(type) ==
    IF Last(type) = "string" THEN {<<>>, <<"SP", "/", "/", "x", "]", "NL">>}
    ELSE {<<>>, <<"SP">>, <<"NL">>, <<"SP", "/", "/", "x", "]", "NL">>}

Documents == UNION {
    {[op |-> op, type |-> type, written |-> v, text |-> TextOf(type, v, gap)] :
        op \in {"read", "skip"}, v \in Values(type), gap \in Gaps(type)} : type \in Types}

Begins(op, type, beginnings, alphabet) ==
    {[op |-> op, type |-> type, begin |-> b, alphabet |-> alphabet] : b \in beginnings}

\* Texts, good or bad, that may begin like a value of their type.
Stubs ==
    UNION {Begins("read", type, {<<>>, <<"[">>}, {"[", "]", ",", "1", "x", "QUOTE", "SP"}) :
            type \in {<<"seq", "uint">>, <<"seq", "string">>, <<"seq", "seq", "uint">>}}
    \cup UNION {Begins("read", type, {<<"{", "x">>, <<"{", "1">>},
                       {"}", ":", ",", "1", "x", "NL", "QUOTE"}) :
                   type \in {<<"map", "uint">>, <<"dict", "uint">>}}
    \cup Begins("read", <<"map", "seq", "uint">>, {<<"{">>, <<"{", "1", ":">>},
                {"}", "[", "]", ":", ",", "1"})
    \cup Begins("read", <<"seq", "uint">>, {<<>>, <<"[">>, <<"[", "1">>},
                {"]", ",", "1", "-", ".", "/", "*", "NL"})
    \cup Begins("read", <<"seq", "string">>,
                {<<"[", "QUOTE", "BSL">>, <<"[", "QUOTE", "BSL", "u", "1", "1", "1">>, <<"[", "BSL">>},
                {"]", "1", "f", "u", "QUOTE", "BSL"})
    \cup Begins("skip", <<"seq", "uint">>, {<<>>}, {"[", "]", "{", "}", ",", ":", "1"})
=============================================================================
