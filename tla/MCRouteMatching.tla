-------------------------- MODULE MCRouteMatching --------------------------
(* RouteMatching for TLC: an app and two routers, parameters of which one   *)
(* name begins the other, a word that no parameter matches, and one that    *)
(* reads as another.                                                        *)
EXTENDS RouteMatching, TLC
CONSTANTS r1, r2
MCSubRouters == {r1, r2}
MCReads      == {<<"", "">>, <<"a", "a">>, <<"as", "as">>, <<"a.", "a.">>, <<"a.", "as">>}
MCBegins     == {<<"", "a">>, <<"", "as">>, <<"", "a.">>, <<"a", "as">>, <<"a", "a.">>, <<":p", ":pq">>}
MCRoutePaths == {<<"">>, <<"a">>, <<":p">>, <<":pq">>}
MCMountPaths == {<<"">>, <<"a">>, <<"a.">>, <<":pq">>}
MCRequests   == {<<"">>, <<"a">>, <<"as">>, <<"a", "a">>, <<"as", "a">>, <<"a.", "a">>, <<"a", "", "a">>,
                 <<"a", "a", "a">>}
Sym          == Permutations(MCSubRouters)
=============================================================================
