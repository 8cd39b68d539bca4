-------------------------------- MODULE HttpRouter --------------------------------
(***************************************************************************)
(* http_router (http_router.hpp) and server_t::process_route (server.cpp).  *)
(* main registers routes, one after the other, each through the steps of    *)
(* PathToRegex, hands the router to the server and starts it; then threads   *)
(* of the pool call process_route for the requests of their connections.     *)
(* The threads share route_table_ and take no lock.  The lookup of a method  *)
(* takes time; where it overlaps an insertion by another thread, the         *)
(* behaviour is undefined.                                                   *)
(***************************************************************************)
EXTENDS PathToRegex

KnownMethods ==
    {"GET", "POST", "PUT", "DELETE", "OPTIONS", "HEAD", "TRACE", "CONNECT", "PATCH"}

CONSTANTS
    Method,     \* the methods routes are registered for
    Asked,      \* the methods that requests ask for, as they are spelled
    Asks,       \* the paths that requests ask for
    Thread,     \* the threads that call process_route
    MaxRoutes   \* bound: the number of routes

ASSUME RouterAssumption ==
    /\ Method \subseteq KnownMethods \cup {"INVALID"}
    /\ Asks \subseteq Paths
    /\ MaxRoutes \in Nat

VARIABLES
    route_table_,   \* http_router::route_table_: from the methods it has entries for
    registered,     \* history: the method and the template of every route, in order
    main,           \* what main is at
    adding,         \* the method of the on_get(), on_post(), ... that runs
    at,             \* where the call of process_route of each thread is
    request,        \* its request
    routes,         \* match(): its copy of the routes of the method
    params,         \* request_t::params_
    job,            \* the handler of the route that matches
    raced           \* history: a lookup and an insertion have overlapped

conversion == vars

calls == <<at, request, routes, params, job>>

routerVars == <<conversion, route_table_, registered, main, adding, calls, raced>>

-----------------------------------------------------------------------------
(* Registration: on_get(), on_post(), ... *)

\* Mutation: a method that is not known has an entry of its own.
CodeVerbatim(name) == name

\* http::method::code
code(name) == IF name \in KnownMethods THEN name ELSE "INVALID"

\* std::map::operator[] inserts an empty vector for a method that has none.
WithEntry(table, method) ==
    [m \in DOMAIN table \cup {method} |-> IF m \in DOMAIN table THEN table[m] ELSE <<>>]

\* A call of on_get(), on_post(), ... begins: route_table_[method], and then the
\* constructor of the route.
on(method, ex) ==
    /\ main = "registering"
    /\ Len(registered) < MaxRoutes
    /\ main' = "constructing"
    /\ adding' = method
    /\ route_table_' = WithEntry(route_table_, method)
    /\ template' = ex /\ pc' = "parse"
    /\ index' = 0 /\ path' = <<>> /\ key' = 0
    /\ tokens' = <<>> /\ keys' = <<>>
    /\ translated' = 0 /\ route' = <<>>
    /\ UNCHANGED <<registered, calls, raced>>

\* The constructor of the route runs path_to_regex.
Construct ==
    /\ main = "constructing"
    /\ Parse \/ tokens_to_keys \/ tokens_to_regex
    /\ UNCHANGED <<route_table_, registered, main, adding, calls, raced>>

\* The new route is the last of its method.  Handlers are numbered like the routes
\* they are given with.
emplace_back ==
    /\ main = "constructing" /\ pc = "done" /\ Compiles(route)
    /\ route_table_' = [route_table_ EXCEPT ![adding] =
            Append(@, [expr |-> route, keys |-> keys, job |-> Len(registered) + 1, hits |-> 0])]
    /\ registered' = Append(registered, [method |-> adding, template |-> template])
    /\ main' = "registering"
    /\ UNCHANGED <<conversion, adding, calls, raced>>

\* The constructor of std::regex throws, main does not catch it.
RegexError ==
    /\ main = "constructing" /\ pc = "done" /\ ~Compiles(route)
    /\ main' = "terminated"
    /\ UNCHANGED <<conversion, route_table_, registered, adding, calls, raced>>

\* server.set_router(router).start(): the server has a copy, and main never touches
\* its own again.
Start ==
    /\ main = "registering"
    /\ main' = "serving"
    /\ UNCHANGED <<conversion, route_table_, registered, adding, calls, raced>>

-----------------------------------------------------------------------------
(* process_route(), called on the threads of the pool. *)

NoRequest == [method |-> "", path |-> <<>>]

\* The call begins, and route_table_[method] begins to look the method up.
process_route(w) ==
    /\ main = "serving" /\ at[w] = "idle"
    /\ \E name \in Asked, p \in Asks :
          request' = [request EXCEPT ![w] = [method |-> code(name), path |-> p]]
    /\ at' = [at EXCEPT ![w] = "lookup"]
    /\ UNCHANGED <<conversion, route_table_, registered, main, adding, routes, params, job, raced>>

\* The method has an entry: its routes are copied.
Copy(w) ==
    /\ at[w] = "lookup" /\ request[w].method \in DOMAIN route_table_
    /\ routes' = [routes EXCEPT ![w] = route_table_[request[w].method]]
    /\ at' = [at EXCEPT ![w] = "search"]
    /\ UNCHANGED <<conversion, route_table_, registered, main, adding, request, params, job, raced>>

\* The method has none: an empty one is inserted and copied, whoever else looks
\* something up.
Insert(w) ==
    LET torn == {v \in Thread \ {w} : at[v] = "lookup"}
    IN  /\ at[w] = "lookup" /\ request[w].method \notin DOMAIN route_table_
        /\ route_table_' = WithEntry(route_table_, request[w].method)
        /\ at' = [v \in Thread |->
                    IF v = w THEN "search" ELSE IF v \in torn THEN "torn" ELSE at[v]]
        /\ routes' = [routes EXCEPT ![w] = <<>>]
        /\ raced' = (raced \/ torn # {})
        /\ UNCHANGED <<conversion, registered, main, adding, request, params, job>>

\* A lookup that an insertion overlapped finds the routes, or misses them, or
\* misses them and inserts an empty entry that hides them from now on.
TornLookup(w) ==
    /\ at[w] = "torn"
    /\ \E lost, hidden \in BOOLEAN :
          LET table == WithEntry(route_table_, request[w].method)
          IN  /\ route_table_' = IF hidden THEN [table EXCEPT ![request[w].method] = <<>>] ELSE table
              /\ routes' = [routes EXCEPT ![w] =
                    IF lost \/ hidden THEN <<>> ELSE table[request[w].method]]
    /\ at' = [at EXCEPT ![w] = "search"]
    /\ UNCHANGED <<conversion, registered, main, adding, request, params, job, raced>>

-----------------------------------------------------------------------------
\* The ways to match a path with the first elements of a regex, as the positions
\* where their texts end.  Where the regex is ambiguous, std::regex prefers one.
Ways(expr, p) ==
    LET ways[i \in 0 .. Len(expr)] ==
            IF i = 0 THEN {<<0>>}
            ELSE LET texts == ElementPaths(expr[i])
                     Ends(way) == {e \in way[i] .. Len(p) : SubSeq(p, way[i] + 1, e) \in texts}
                 IN  UNION {{Append(way, e) : e \in Ends(way)} : way \in ways[i - 1]}
    IN  {way \in ways[Len(expr)] : way[Len(expr) + 1] = Len(p)}

\* res[n]: what the n-th group has captured, the empty text if it took no part.
Res(expr, p, way, n) ==
    LET i == CHOOSE k \in DOMAIN expr : OpensGroup(expr[k]) /\ GroupNumber(expr, k) = n
    IN  SubSeq(p, way[i] + 1 + Len(expr[i].before) + Len(expr[i].within), way[i + 1])

\* Mutation: the values are taken from res[0] on.
ValuesFromZero(r, p, way) ==
    [name \in {r.keys[i].name : i \in DOMAIN r.keys} |->
        LET i == CHOOSE k \in DOMAIN r.keys :
                    r.keys[k].name = name /\ \A l \in 1 .. k - 1 : r.keys[l].name # name
        IN  IF i = 1 THEN p ELSE Res(r.expr, p, way, i - 1)]

\* params.emplace for every key: the first value of a name stays.
Values(r, p, way) ==
    [name \in {r.keys[i].name : i \in DOMAIN r.keys} |->
        LET i == CHOOSE k \in DOMAIN r.keys :
                    r.keys[k].name = name /\ \A l \in 1 .. k - 1 : r.keys[l].name # name
        IN  Res(r.expr, p, way, i)]

Fitting(list, p) == {i \in DOMAIN list : p \in RegexPaths(list[i].expr)}

\* Mutation: the routes of the table themselves are searched, their hits counted,
\* and the most popular come first.
SearchInPlace(w) ==
    /\ at[w] = "search"
    /\ LET method == request[w].method
           list == route_table_[method]
           fit == Fitting(list, request[w].path)
       IN  \/ /\ fit = {}
              /\ at' = [at EXCEPT ![w] = "unrouted"]
              /\ UNCHANGED <<route_table_, params, job, raced>>
           \/ \E i \in {k \in fit : \A l \in fit : k <= l} :
              LET hit == [list EXCEPT ![i].hits = 1] IN
              /\ route_table_' = [route_table_ EXCEPT ![method] =
                    SelectSeq(hit, LAMBDA r : r.hits = 1) \o SelectSeq(hit, LAMBDA r : r.hits = 0)]
              /\ raced' = (raced \/ \E v \in Thread \ {w} : at[v] \in {"lookup", "search"})
              /\ job' = [job EXCEPT ![w] = list[i].job]
              /\ \E way \in Ways(list[i].expr, request[w].path) :
                    params' = [params EXCEPT ![w] = Values(list[i], request[w].path, way)]
              /\ at' = [at EXCEPT ![w] = "handler"]
    /\ routes' = [routes EXCEPT ![w] = <<>>]
    /\ UNCHANGED <<conversion, registered, main, adding, request>>

\* The first route of the copy that matches gives the handler and the parameters;
\* its hits are counted in the copy, which is dropped.
Search(w) ==
    /\ at[w] = "search"
    /\ LET fit == Fitting(routes[w], request[w].path) IN
       \/ /\ fit = {}
          /\ at' = [at EXCEPT ![w] = "unrouted"]
          /\ UNCHANGED <<params, job>>
       \/ \E i \in {k \in fit : \A l \in fit : k <= l} :
          LET r == routes[w][i] IN
          /\ job' = [job EXCEPT ![w] = r.job]
          /\ \E way \in Ways(r.expr, request[w].path) :
                params' = [params EXCEPT ![w] = Values(r, request[w].path, way)]
          /\ at' = [at EXCEPT ![w] = "handler"]
    /\ routes' = [routes EXCEPT ![w] = <<>>]
    /\ UNCHANGED <<conversion, route_table_, registered, main, adding, request, raced>>

\* process_route() ends: no route, or the handler returned or threw.
Return(w) ==
    /\ at[w] \in {"unrouted", "handler"}
    /\ at' = [at EXCEPT ![w] = "idle"]
    /\ request' = [request EXCEPT ![w] = NoRequest]
    /\ params' = [params EXCEPT ![w] = <<>>]
    /\ job' = [job EXCEPT ![w] = 0]
    /\ UNCHANGED <<conversion, route_table_, registered, main, adding, routes, raced>>

-----------------------------------------------------------------------------
RouterInit ==
    /\ template = <<>> /\ pc = "done"
    /\ index = 0 /\ path = <<>> /\ key = 0
    /\ tokens = <<>> /\ keys = <<>>
    /\ translated = 0 /\ route = <<>>
    /\ route_table_ = <<>>
    /\ registered = <<>>
    /\ main = "registering"
    /\ adding = "none"
    /\ at = [w \in Thread |-> "idle"]
    /\ request = [w \in Thread |-> NoRequest]
    /\ routes = [w \in Thread |-> <<>>]
    /\ params = [w \in Thread |-> <<>>]
    /\ job = [w \in Thread |-> 0]
    /\ raced = FALSE

Registration ==
    \/ \E method \in Method, ex \in Templates : on(method, ex)
    \/ Construct
    \/ emplace_back
    \/ RegexError
    \/ Start

Lookup(w) == process_route(w) \/ Copy(w) \/ Insert(w) \/ TornLookup(w)

Call(w) == Lookup(w) \/ Search(w) \/ Return(w)

Terminated == main = "terminated" /\ UNCHANGED routerVars

RouterNext == Registration \/ (\E w \in Thread : Call(w)) \/ Terminated

RouterSpec == RouterInit /\ [][RouterNext]_routerVars

-----------------------------------------------------------------------------
(* Properties. *)

\* The variables keep their types; whatever requests ask for, the table has at most
\* one entry per value of http::Method (method.hpp:415-433).
RouterTypeOK ==
    /\ DOMAIN route_table_ \subseteq KnownMethods \cup {"INVALID"}
    /\ registered \in Seq([method : Method, template : Templates])
    /\ main \in {"registering", "constructing", "serving", "terminated"}
    /\ adding \in Method \cup {"none"}
    /\ at \in [Thread -> {"idle", "lookup", "torn", "search", "unrouted", "handler"}]
    /\ \A w \in Thread : request[w] \in [method : {code(name) : name \in Asked}, path : Asks] \cup {NoRequest}
    /\ job \in [Thread -> 0 .. Len(registered)]
    /\ raced \in BOOLEAN

\* The answer to a request is the route that was registered first among those of its
\* method whose template stands for the path, whatever was asked before or is
\* asked at the same time on other threads; no route only when there is none
\* (http_router.hpp:39-75).  It takes an insertion that overlaps a lookup to break it.
FirstRegisteredAnswers ==
    ~raced =>
        \A w \in Thread :
            LET fits == {n \in DOMAIN registered :
                            /\ registered[n].method = request[w].method
                            /\ request[w].path \in Denotes(registered[n].template)}
            IN  /\ at[w] = "unrouted" => fits = {}
                /\ at[w] = "handler" => job[w] \in fits /\ \A n \in fits : job[w] <= n

\* match() writes to the table that all threads share, through operator[]
\* (http_router.hpp:41).  It never does while another thread reads it when every
\* method that requests ask for has a route; unknown methods count as INVALID.
OnlyUnknownMethodsRace ==
    raced => \E name \in Asked : \A n \in DOMAIN registered : registered[n].method # code(name)

\* The texts of the pieces of a template, the slash at the end included.
PieceTexts(t, j) ==
    LET slash == {<<>>, <<"/">>}
        ends == j = Len(t) /\ ~IsKey(t[j]) /\ t[j].char = "/"
    IN  IF j > Len(t) THEN IF t = <<>> \/ (~IsKey(t[Len(t)]) /\ t[Len(t)].char = "/")
                               THEN {<<>>} ELSE slash
        ELSE IF IsKey(t[j]) THEN KeyPaths(t, j)
        ELSE IF Attached(t, j) THEN {<<>>}
        ELSE IF ends THEN slash ELSE {<<t[j].char>>}

\* The parameters of a request are those its template names, and put into the
\* template they give the path again: every value is the text its key stands for,
\* without the separator, and empty when the key was left out; of two keys of one
\* name it is the first (http_router.hpp:54-69).
ParametersGivePath ==
    \A w \in Thread : at[w] = "handler" =>
        LET t == registered[job[w]].template
            p == request[w].path
            First(j) == \A i \in 1 .. j - 1 :
                            IsKey(t[i]) => ParameterName(t, i) # ParameterName(t, j)
            Fits(j, text) ==
                IsKey(t[j]) /\ First(j) =>
                    LET value == params[w][ParameterName(t, j)]
                    IN  IF value = <<>> THEN text \in {<<>>, Separator(t, j)}
                        ELSE text = Separator(t, j) \o value
            cuts[j \in 0 .. Len(t) + 1] ==
                IF j = 0 THEN {0}
                ELSE UNION {{e \in s .. Len(p) :
                                /\ SubSeq(p, s + 1, e) \in PieceTexts(t, j)
                                /\ j <= Len(t) => Fits(j, SubSeq(p, s + 1, e))} : s \in cuts[j - 1]}
        IN  /\ DOMAIN params[w] = {ParameterName(t, j) : j \in KeyPositions(t)}
            /\ Len(p) \in cuts[Len(t) + 1]
=============================================================================
