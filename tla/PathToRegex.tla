------------------------------- MODULE PathToRegex -------------------------------
(***************************************************************************)
(* path2regex::path_to_regex (path_to_regex.cpp), which the constructor of  *)
(* every route calls: parse() cuts the template into tokens, one match of   *)
(* PATH_REGEXP after the other; tokens_to_keys() keeps the keys;            *)
(* tokens_to_regex() translates token by token.  The options are the        *)
(* defaults, the only ones used: not strict, not sensitive, to the end.     *)
(* The regex is a sequence of elements: single characters, the capturing    *)
(* groups made for keys, and the optional slash at the end.                 *)
(***************************************************************************)
EXTENDS RouteTemplate

CONSTANT Templates   \* the templates given to on_get, on_post, ...

ASSUME TemplatesAssumption == \A t \in Templates : WellCut(t)

VARIABLES
    template,   \* the parameter str of parse()
    index,      \* parse(): how many pieces are behind the last match
    path,       \* parse(): the text since the last key
    key,        \* parse(): the number of the next key without a name
    tokens,     \* the result of parse()
    keys,       \* the result of tokens_to_keys()
    translated, \* tokens_to_regex(): how many tokens the loop has translated
    route,      \* tokens_to_regex(): the regex so far
    pc          \* the function that runs, or "done"

vars == <<template, index, path, key, tokens, keys, translated, route, pc>>

Init ==
    /\ template \in Templates
    /\ index = 0
    /\ path = <<>>
    /\ key = 0
    /\ tokens = <<>>
    /\ keys = <<>>
    /\ translated = 0
    /\ route = <<>>
    /\ pc = "parse"

-----------------------------------------------------------------------------
(* parse() *)

\* The matches of PATH_REGEXP still ahead, by the piece they end with.
Ahead == {j \in index + 1 .. Len(template) : template[j].kind # "plain"}

Match == CHOOSE j \in Ahead : \A k \in Ahead : j <= k

\* A match with a key begins with the separator right before it, if there is one.
Prefix == IF Match - 1 > index /\ IsSeparator(template[Match - 1])
             THEN <<template[Match - 1].char>> ELSE <<>>

\* The plain characters after the last match, up to the piece `last'.
Skipped(last) == [k \in 1 .. last - index |-> template[index + k].char]

StringToken(text) == [is_string |-> TRUE, name |-> text]

\* A text becomes a token unless it is empty.
Pushed(text) == IF text = <<>> THEN tokens ELSE Append(tokens, StringToken(text))

\* A match of "\\.": its second character continues the text.
ParseEscaped ==
    /\ pc = "parse"
    /\ Ahead # {}
    /\ template[Match].kind = "escaped"
    /\ path' = path \o Skipped(Match - 1) \o <<template[Match].char>>
    /\ index' = Match
    /\ UNCHANGED <<template, key, tokens, keys, translated, route, pc>>

\* Mutation: the next character is not compared with the prefix.
AnyNextIsPartial(prefix, next) == prefix # <<>> /\ next # <<>>

\* A key is `partial' when its prefix has to stay although the key is left out.
Partial(prefix, next) == prefix # <<>> /\ next # <<>> /\ next # prefix

KeyToken(piece, prefix, next) ==
    [is_string |-> FALSE,
     name      |-> IF Named(piece) THEN piece.name ELSE ToString(key),
     prefix    |-> prefix,
     delimiter |-> IF prefix # <<>> THEN prefix ELSE <<"/">>,
     optional  |-> piece.modifier \in {"?", "*"},
     repeat    |-> piece.modifier \in {"+", "*"},
     partial   |-> Partial(prefix, next),
     pattern   |-> piece.pattern]

\* A match of a key: the text before it and the key become tokens.
ParseKey ==
    /\ pc = "parse"
    /\ Ahead # {}
    /\ IsKey(template[Match])
    /\ LET next == IF Match < Len(template) THEN <<FirstChar(template[Match + 1])>> ELSE <<>>
           text == path \o Skipped(Match - 1 - Len(Prefix))
       IN  tokens' = Append(Pushed(text), KeyToken(template[Match], Prefix, next))
    /\ path' = <<>>
    /\ key' = IF Named(template[Match]) THEN key ELSE key + 1
    /\ index' = Match
    /\ UNCHANGED <<template, keys, translated, route, pc>>

\* No match is left: the rest of the template becomes a token.
ParseRest ==
    /\ pc = "parse"
    /\ Ahead = {}
    /\ tokens' = Pushed(path \o Skipped(Len(template)))
    /\ pc' = "tokens_to_keys"
    /\ UNCHANGED <<template, index, path, key, keys, translated, route>>

-----------------------------------------------------------------------------
\* The tokens of a list that are keys.
Keys(list) ==
    LET kept[i \in 0 .. Len(list)] ==
            IF i = 0 THEN <<>>
            ELSE IF list[i].is_string THEN kept[i - 1] ELSE Append(kept[i - 1], list[i])
    IN  kept[Len(list)]

\* Mutation: optional keys are not kept.
MandatoryKeys ==
    /\ pc = "tokens_to_keys"
    /\ keys' = SelectSeq(tokens, LAMBDA t : ~t.is_string /\ ~t.optional)
    /\ pc' = "tokens_to_regex"
    /\ UNCHANGED <<template, index, path, key, tokens, translated, route>>

tokens_to_keys ==
    /\ pc = "tokens_to_keys"
    /\ keys' = Keys(tokens)
    /\ pc' = "tokens_to_regex"
    /\ UNCHANGED <<template, index, path, key, tokens, translated, route>>

-----------------------------------------------------------------------------
(* tokens_to_regex() *)

Verbatim(char) == [op |-> "char", char |-> char]

SlashAtEnd == [op |-> "slash at end"]

\* The group of a key: `before' and, when it is optional, `within' come ahead of
\* what is captured: one occurrence of the pattern, or several with the prefix
\* between them.
Group(token) ==
    LET outside == ~token.optional \/ token.partial
    IN  [op        |-> "group",
         before    |-> IF outside THEN token.prefix ELSE <<>>,
         within    |-> IF outside THEN <<>> ELSE token.prefix,
         optional  |-> token.optional,
         repeat    |-> token.repeat,
         between   |-> token.prefix,
         pattern   |-> token.pattern,
         delimiter |-> token.delimiter]

\* The text of a string token goes into the regex as it is.
Translation(token) ==
    IF token.is_string THEN [k \in DOMAIN token.name |-> Verbatim(token.name[k])]
                       ELSE <<Group(token)>>

TranslateToken ==
    /\ pc = "tokens_to_regex"
    /\ translated < Len(tokens)
    /\ route' = route \o Translation(tokens[translated + 1])
    /\ translated' = translated + 1
    /\ UNCHANGED <<template, index, path, key, tokens, keys, pc>>

EndsWithSlash ==
    LET last == tokens[Len(tokens)]
    IN  last.is_string /\ last.name[Len(last.name)] = "/"

\* An optional slash instead of the one the template ends with.  No tokens, no
\* regex: the function has returned at its first line.
Finish ==
    /\ pc = "tokens_to_regex"
    /\ translated = Len(tokens)
    /\ route' = IF tokens = <<>> THEN route
                ELSE IF EndsWithSlash THEN Append(SubSeq(route, 1, Len(route) - 1), SlashAtEnd)
                ELSE Append(route, SlashAtEnd)
    /\ pc' = "done"
    /\ UNCHANGED <<template, index, path, key, tokens, keys, translated>>

Done == pc = "done" /\ UNCHANGED vars

Parse == ParseEscaped \/ ParseKey \/ ParseRest

tokens_to_regex == TranslateToken \/ Finish

Next == Parse \/ tokens_to_keys \/ tokens_to_regex \/ Done

Spec == Init /\ [][Next]_vars

-----------------------------------------------------------------------------
(* The meaning of a regex, as std::regex has it. *)

\* A parenthesis put into the regex as it is opens a group like that of a key.
OpensGroup(element) ==
    element.op = "group" \/ (element.op = "char" /\ element.char = "(")

\* What a character of the template, or of a prefix, matches: the dot any other.
CharPaths(char) == IF char = "." THEN {<<c>> : c \in Alphabet} ELSE {<<char>>}

PrefixPaths(prefix) == IF prefix = <<>> THEN {<<>>} ELSE CharPaths(prefix[1])

\* The number of the group in the match results.
GroupNumber(expr, i) == Cardinality({j \in 1 .. i : OpensGroup(expr[j])})

\* The constructor of std::regex throws when parentheses do not match.
Compiles(expr) ==
    LET Depth(i) == Cardinality({j \in 1 .. i : expr[j] = Verbatim("(")})
                    - Cardinality({j \in 1 .. i : expr[j] = Verbatim(")")})
    IN  (\A i \in DOMAIN expr : Depth(i) >= 0) /\ Depth(Len(expr)) = 0

Occurrences(element) ==
    LET unit == Unit(element.pattern, element.delimiter[1])
        rep[n \in Nat] == IF n = 0 THEN unit
                          ELSE rep[n - 1] \cup Cat(rep[n - 1], Cat(PrefixPaths(element.between), unit))
    IN  IF element.repeat THEN rep[MaxPath] ELSE unit

ElementPaths(element) ==
    CASE element.op = "char"  -> CharPaths(element.char)
      [] element.op = "group" ->
            LET captured == Cat(PrefixPaths(element.within), Occurrences(element))
            IN  Cat(PrefixPaths(element.before),
                    IF element.optional THEN captured \cup {<<>>} ELSE captured)
      [] OTHER -> {<<>>, <<"/">>}

RegexPaths(expr) ==
    LET upto[i \in 0 .. Len(expr)] ==
            IF i = 0 THEN {<<>>} ELSE Cat(upto[i - 1], ElementPaths(expr[i]))
    IN  upto[Len(expr)]

-----------------------------------------------------------------------------
(* Properties. *)

\* The regex of a route matches exactly the paths its template stands for: no
\* text is lost, doubled or misplaced between the matches of PATH_REGEXP, optional
\* keys take the right separator with them, and the slash at the end is optional
\* but stays at the end (path_to_regex.cpp:38-122, 152-183).
RegexMeansTemplate == pc = "done" => RegexPaths(route) = Denotes(template)

\* match() takes the value of keys[n] from res[n + 1] ("First parameter/value is in
\* res[1], second in res[2], and so on", http_router.hpp:63): the keys are the
\* parameters of the template, in order, and the n-th group of the regex is the
\* one of the n-th key.
ValuesFollowKeys ==
    pc = "done" /\ Compiles(route) =>
        /\ [n \in DOMAIN keys |-> keys[n].name] = Parameters(template)
        /\ LET groups == {i \in DOMAIN route : route[i].op = "group"}
           IN  {GroupNumber(route, i) : i \in groups} = DOMAIN keys
=============================================================================
