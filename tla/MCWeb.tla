-------------------------------- MODULE MCWeb --------------------------------
(***************************************************************************)
(* Small programs for Web: triples and pairs of a pool of routes, for the  *)
(* lookups; and programs whose routes are guarded by middlewares.          *)
(***************************************************************************)
EXTENDS Web

CONSTANTS r1, r2

Users == Lit("users")

RoutePool ==
    { Route("GET",  <<Users, Lit("me")>>, <<>>),
      Route("GET",  <<Users, Param("id")>>, <<>>),
      Route("GET",  <<Users, Param("name"), Lit("me")>>, <<>>),
      Route("GET",  <<Param("kind"), Lit("me"), Lit("me")>>, <<>>),
      Route("GET",  <<Param("kind"), Param("id")>>, <<>>) }

Others == { Route("SSE",  <<Users, Lit("me")>>, <<>>),
            Route("POST", <<Users, Param("id")>>, <<>>),
            Route("GET",  <<>>, <<>>),
            Route("GET",  <<Param("kind"), Param("id"), Param("part")>>, <<>>),
            Route("WS",   <<Param("kind"), Lit("me")>>, <<>>) }

LookupPrograms ==
    { p \in RoutePool \X RoutePool \X RoutePool : p[1] # p[2] /\ p[2] # p[3] }
    \cup UNION { {<<a, b>>, <<b, a>>} : a \in RoutePool, b \in Others }

\* Two global middlewares fill the slice's capacity; "c" is never declared.
Declared == <<Middleware("a"), Middleware("b")>>
PlainRoute == Route("GET", <<Users>>, <<"a">>)

GuardPrograms ==
    { Declared \o p : p \in
      { <<PlainRoute>>,
        <<Use("a"), Use("b"), Route("GET", <<Users>>, <<"b", "a">>)>>,
        <<Use("a"), OpenGroup(<<Users>>), Use("b"), Route("GET", <<>>, <<"a">>), EndGroup,
          Route("POST", <<Users>>, <<>>)>>,
        <<OpenGroup(<<Users>>), Route("POST", <<>>, <<>>), Use("b"), Route("GET", <<>>, <<"c">>),
          EndGroup, Use("a")>>,
        <<OpenGroup(<<>>), OpenGroup(<<Users>>), Use("b"), Route("GET", <<>>, <<>>), EndGroup,
          EndGroup, Use("a")>>,
        <<OpenGroup(<<Users>>), Use("b"), Route("WS", <<>>, <<"c">>), EndGroup>> } }

\* The switches of the server block.
Off == [switch \in Switches |-> FALSE]
On(switches) == Server([switch \in switches |-> TRUE])
Events == Route("SSE", <<Users>>, <<>>)

ChainPrograms ==
    { <<On(Switches), Events, PlainRoute>>,
      <<On({"compression"}), Events, Route("POST", <<Users>>, <<>>)>>,
      <<On({"log"}), Server(Off), Events>> }

RoutingPrograms == LookupPrograms \cup GuardPrograms \cup ChainPrograms

\* Three global middlewares leave one element of capacity to share.
SpareProgram ==
    Declared \o <<Use("a"), Use("a"), Use("a"),
                  Route("GET", <<Users>>, <<"a">>), Route("POST", <<Users>>, <<"b">>)>>
SparePrograms == { SpareProgram }

UserPaths   == { <<"users">> }
LookupPaths == { <<>>, <<"users">>, <<"users", "me">>, <<"users", "7">>, <<"users", "me", "me">>,
                 <<"users", "7", "me">>, <<"posts", "me">>, <<"posts", "me", "7">>,
                 <<"users", "7", "posts">>, <<"chat">> }
=============================================================================
