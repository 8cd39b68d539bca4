------------------------------- MODULE JsonWriter -------------------------------
(***************************************************************************)
(* render_json_value (persistence/json.hpp): a value becomes a sequence of  *)
(* tokens, each a sequence of characters.  join() dereferences the first    *)
(* element, so that containers are not empty.  Not every type of JsonReader *)
(* can be written.  render_key of a std::string has a template parameter    *)
(* that nothing determines, so that only maps with arithmetic keys compile; *)
(* and maps of sequences need the overload for sequences, declared behind   *)
(* that for maps, where two-phase lookup does not find it.                  *)
(***************************************************************************)
EXTENDS Sequences, SequencesExt, TLC

\* std::to_string
Decimal(n) ==
    LET digits == <<"0", "1", "2", "3", "4", "5", "6", "7", "8", "9">>
        f[k \in Nat] == IF k < 10 THEN <<digits[k + 1]>> ELSE f[k \div 10] \o <<digits[(k % 10) + 1]>>
    IN  f[n]

\* The key of a map is a number, and std::quoted puts it in quotes.
render_key(n) == <<"QUOTE">> \o Decimal(n) \o <<"QUOTE">>

\* The elements with a delimiter between them.
join(parts) ==
    FoldLeft(LAMBDA text, part : IF text = <<>> THEN part ELSE text \o <<<<",">>>> \o part, <<>>, parts)

\* A string is rendered as it is, without quotes or escapes.
RECURSIVE render_json_value(_, _)
render_json_value(type, v) ==
    LET Element(x) == render_json_value(Tail(type), x)
        Pair(key) == <<render_key(key), <<":">>>> \o Element(v[key])
        keys == SetToSeq(DOMAIN v)
    IN  CASE Head(type) = "uint" -> <<Decimal(v)>>
          [] Head(type) = "string" -> <<v>>
          [] Head(type) = "seq" ->
                <<<<"[">>>> \o join([i \in DOMAIN v |-> Element(v[i])]) \o <<<<"]">>>>
          [] Head(type) = "map" ->
                <<<<"{">>>> \o join([i \in DOMAIN keys |-> Pair(keys[i])]) \o <<<<"}">>>>

\* The text of a value with `gap' between its tokens.
TextOf(type, v, gap) ==
    FoldLeft(LAMBDA text, token : text \o (IF text = <<>> THEN <<>> ELSE gap) \o token,
             <<>>, render_json_value(type, v))
=============================================================================
