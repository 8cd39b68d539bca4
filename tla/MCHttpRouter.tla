------------------------------ MODULE MCHttpRouter ------------------------------
(***************************************************************************)
(* A router for requests with a known method and an unknown one, and paths  *)
(* that the templates compete for.                                          *)
(***************************************************************************)
EXTENDS HttpRouter

\* "/", "/a", "/:id", "/:id?/:id", "/a*" and one whose regex does not compile: "\\(".
RouteTemplates ==
    {<<Plain("/")>>,
     <<Plain("/"), Plain("a")>>,
     <<Plain("/"), Key("id", "segment", "")>>,
     <<Plain("/"), Key("id", "segment", "?"), Plain("/"), Key("id", "segment", "")>>,
     <<Plain("/"), Plain("a"), Key("", "any", "")>>,
     <<Escaped("(")>>}

RequestPaths == {<<"/">>, <<"/", "a">>, <<"/", "a", "/", "b">>, <<"/", "b", "/">>}
=============================================================================
