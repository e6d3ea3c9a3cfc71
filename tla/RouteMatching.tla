--------------------------- MODULE RouteMatching ---------------------------
(***************************************************************************)
(* Registering and matching routes: useRouter, mountTo, addRouteHandler,    *)
(* paramMatch, routerMatchesRequest and matchRouteHandler of src/router.c,  *)
(* initReqParams and req->params of src/request.c.  The application adds    *)
(* routes and mounts routers in any order, then a request comes.            *)
(*                                                                         *)
(* A path is the sequence of its segments: "" is <<>>, "/" is <<"">>, "/a/" *)
(* is <<"a", "">>, so joining two strings is joining two sequences.  A      *)
(* segment is a word or, in a route, a parameter.                           *)
(***************************************************************************)
EXTENDS Naturals, Sequences, FiniteSets, FiniteSetsExt, Functions

CONSTANTS App,          \* the base router
          SubRouters,   \* the others
          NULL,
          Words,        \* what segments are, "" among them
          Params,       \* parameters, by their names
          Begins,       \* <<v, w>>: the characters of v begin those of w
          Unfit,        \* words that a parameter's pattern does not match
          Reads,        \* <<v, w>>: v, read as a regular expression, matches w
          Methods, RoutePaths, MountPaths, RequestPaths,
          MaxRoutes     \* bound: routes of the application

Routers == {App} \cup SubRouters
Root    == <<"">>

ASSUME RouteAssumption ==
    /\ App \notin SubRouters /\ IsFiniteSet(SubRouters) /\ MaxRoutes \in Nat
    /\ Words \cap Params = {} /\ "" \in Words \ Unfit /\ Reads \subseteq Words \X Words
    /\ \A p \in RoutePaths \cup MountPaths : p \in Seq(Words \cup Params) /\ Len(p) > 0
    /\ \A p \in RequestPaths : p \in Seq(Words) /\ Len(p) > 0
    /\ NULL \notin Seq(Words \cup Params)

VARIABLES
    routers,   \* the router_t of every router
    late,      \* history: <<router, index>> of routes added when already mounted
    phase,     \* "setup", "received", "served"
    request,   \* what buildRequest has found out
    chosen     \* index of the route each router has for the request, or 0

vars == <<routers, late, phase, request, chosen>>

Path  == Seq(Words \cup Params)
Route == [method : Methods, path : Path, regex : BOOLEAN,
          basePath : Path \cup {NULL}, paramMatch : Path \cup {NULL}]
Router == [basePath : Path \cup {NULL}, mountPath : Path \cup {NULL},
           routes : Seq(Route), children : Seq(SubRouters)]
Request == [method : Methods, path : Path, pathMatch : Path,
            keys : Seq(Params), values : Seq(Words)]

TypeOK ==
    /\ routers \in [Routers -> Router]
    /\ late \subseteq SubRouters \X (1..MaxRoutes)
    /\ phase \in {"setup", "received", "served"}
    /\ request \in Request \cup {NULL}
    /\ chosen \in [Routers -> 0..MaxRoutes]

\* express() gives the base router its empty paths.
Init ==
    /\ routers = [r \in Routers |->
                    [basePath  |-> IF r = App THEN <<>> ELSE NULL,
                     mountPath |-> IF r = App THEN <<>> ELSE NULL,
                     routes |-> <<>>, children |-> <<>>]]
    /\ late = {} /\ phase = "setup" /\ request = NULL
    /\ chosen = [r \in Routers |-> 0]

-----------------------------------------------------------------------------
(* Paths. *)

HasParam(path) == \E i \in DOMAIN path : path[i] \in Params

\* Faulty variant: every segment is taken for a parameter.
AllSegments(pattern) == pattern

\* Where a pattern has its parameters, from left to right.
Places(pattern) ==
    LET at == {i \in DOMAIN pattern : pattern[i] \in Params}
    IN  [k \in 1..Cardinality(at) |-> CHOOSE i \in at : Cardinality({j \in at : j <= i}) = k]

Keys(pattern) == [k \in DOMAIN Places(pattern) |-> pattern[Places(pattern)[k]]]

\* The pattern of a parameter excludes "/" and, as it is written, some letters;
\* it matches the empty word.  Words go into the pattern unescaped: "a." fits "as".
\* (That a "." may be the "/" between two segments too is left out.)
Fits(t, w) == IF t \in Params THEN w \notin Unfit ELSE <<t, w>> \in Reads

Matches(pattern, path) ==
    Len(pattern) = Len(path) /\ \A i \in DOMAIN path : Fits(pattern[i], path[i])

\* A route without parameters has no pattern: its path is compared.
Serves(p, path) == IF HasParam(p) THEN Matches(p, path) ELSE p = path

\* The path's segments where the pattern has parameters.
Values(pattern, path) == [k \in DOMAIN Places(pattern) |-> path[Places(pattern)[k]]]

\* strncmp of two paths up to the end of the first one.
BeginsWith(v, w) == v = w \/ <<v, w>> \in Begins

IsStart(p, path) ==
    Len(p) <= Len(path) /\ \A i \in DOMAIN p : IF i < Len(p) THEN p[i] = path[i]
                                               ELSE BeginsWith(p[i], path[i])

\* The same with a pattern, from which the final $ was taken.
MatchesStart(pattern, path) ==
    /\ Len(pattern) <= Len(path)
    /\ \A i \in DOMAIN pattern :
         IF i < Len(pattern) THEN Fits(pattern[i], path[i])
         ELSE \/ pattern[i] \in Params
              \/ \E w \in Words : Fits(pattern[i], w) /\ BeginsWith(w, path[i])

-----------------------------------------------------------------------------
(* The routers mounted on one another. *)

\* r and the routers mounted on it, on those, and so on.
Below(rs, r) ==
    {x \in Routers :
        \A S \in SUBSET Routers :
            r \in S /\ (\A p \in S : Range(rs[p].children) \subseteq S) => x \in S}

ParentOf(rs, r) == CHOOSE p \in Routers : r \in Range(rs[p].children)

Mounted == Below(routers, App)

Joined(base, mountPath) == IF base = <<>> /\ mountPath = Root THEN <<>> ELSE base \o mountPath

\* A route gets the base path, and the pattern that goes with it.
Rebased(route, base) ==
    LET regex == route.regex \/ HasParam(base) IN
    [route EXCEPT !.basePath = base, !.regex = regex,
                  !.paramMatch = IF regex THEN base \o route.path ELSE @]

Rebase(router, base) ==
    [router EXCEPT !.basePath = base, !.routes = [i \in DOMAIN @ |-> Rebased(@[i], base)]]

\* mountTo: r and everything mounted on it, each on the base path of the one
\* before, unless the parent is not mounted itself.
MountTo(rs, r, parent) ==
    LET base[x \in Below(rs, r)] ==
            Joined(IF x = r THEN rs[parent].basePath ELSE base[ParentOf(rs, x)], rs[x].mountPath)
    IN  IF rs[parent].basePath = NULL THEN rs
        ELSE [x \in Routers |-> IF x \in Below(rs, r) THEN Rebase(rs[x], base[x]) ELSE rs[x]]

\* collectRegexRouteHandlers puts the routes of x before those of y: it is at x
\* before what is mounted on x, and at one child before the next one.
CollectedFirst(x, y) ==
    \/ y \in Below(routers, x)
    \/ \E p \in Routers : \E i, j \in DOMAIN routers[p].children :
          /\ i < j
          /\ x \in Below(routers, routers[p].children[i])
          /\ y \in Below(routers, routers[p].children[j])

\* The same of two routes, given as <<router, index>>.
RouteFirst(a, b) == IF a[1] = b[1] THEN a[2] <= b[2] ELSE CollectedFirst(a[1], b[1])

\* The routes that have a pattern.
RegexRoutes ==
    {at \in UNION {{r} \X DOMAIN routers[r].routes : r \in Mounted} :
        routers[at[1]].routes[at[2]].paramMatch # NULL}

-----------------------------------------------------------------------------
(* Setting up. *)

RouteCount == Cardinality(UNION {{r} \X DOMAIN routers[r].routes : r \in Routers})

\* addRouteHandler, by get, post, put, patch and delete; all is five of them.
AddRoute(r, method, path) ==
    /\ phase = "setup" /\ RouteCount < MaxRoutes
    /\ LET isBase == r = App
           route  == [method     |-> method,
                      path       |-> IF ~isBase /\ path = Root THEN <<>> ELSE path,
                      regex      |-> HasParam(path),
                      basePath   |-> IF isBase THEN routers[r].basePath ELSE NULL,
                      paramMatch |-> IF isBase /\ HasParam(path)
                                       THEN routers[r].basePath \o path ELSE NULL]
       IN routers' = [routers EXCEPT ![r].routes = Append(@, route)]
    /\ late' = IF r \in Mounted \ {App}
                 THEN late \cup {<<r, Len(routers[r].routes) + 1>>} ELSE late
    /\ UNCHANGED <<phase, request, chosen>>

\* useRouter, once for each router and never in a circle.
UseRouter(parent, r, mountPath) ==
    /\ phase = "setup"
    /\ \A p \in Routers : r \notin Range(routers[p].children)
    /\ parent \notin Below(routers, r)
    /\ routers' = MountTo([routers EXCEPT ![r].mountPath = mountPath,
                                          ![parent].children = Append(@, r)], r, parent)
    /\ UNCHANGED <<late, phase, request, chosen>>

-----------------------------------------------------------------------------
(* Serving. *)

\* initReqParams: the first pattern that matches, whatever its method.
Receive(method, path) ==
    /\ phase = "setup"
    /\ LET pattern(at) == routers[at[1]].routes[at[2]].paramMatch
           found == {at \in RegexRoutes : Matches(pattern(at), path)}
           first == pattern(CHOOSE a \in found : \A b \in found : RouteFirst(a, b))
       IN request' = [method    |-> method, path |-> path,
                      pathMatch |-> IF found = {} THEN <<>> ELSE first,
                      keys      |-> IF found = {} THEN <<>> ELSE Keys(first),
                      values    |-> IF found = {} THEN <<>> ELSE Values(first, path)]
    /\ phase' = "received"
    /\ UNCHANGED <<routers, late, chosen>>

\* Faulty variant: whole base paths with parameters only.
MatchesWhole(r) ==
    LET base == routers[r].basePath IN
    IF HasParam(base) THEN Matches(base, request.path)
    ELSE IsStart(base, request.path) \/ IsStart(request.path, base)

\* The shorter one of base path and path begins the other.
RouterMatchesRequest(r) ==
    LET base == routers[r].basePath IN
    IF HasParam(base) THEN MatchesStart(base, request.path)
    ELSE IsStart(base, request.path) \/ IsStart(request.path, base)

\* Faulty variant: a route is taken by its own pattern, not by the one found.
TakesByPattern(r, route) ==
    LET full == routers[r].basePath \o route.path IN
    /\ route.method = request.method
    /\ \/ Serves(full, request.path)
       \/ full = <<>> /\ request.path = Root

\* basePath and path together are the path the pattern found was made of, the
\* request's own path, or nothing at all.
Takes(r, route) ==
    LET full == routers[r].basePath \o route.path IN
    /\ route.method = request.method
    /\ \/ full = request.pathMatch /\ route.regex
       \/ full = request.path
       \/ full = <<>> /\ request.path = Root

MatchRouteHandler(r) ==
    LET routes == routers[r].routes
        taken  == {i \in DOMAIN routes : Takes(r, routes[i])}
    IN  IF taken = {} THEN 0 ELSE Min(taken)

\* The handlers of the routers, down to the first on each branch that does not match.
Serve ==
    /\ phase = "received"
    /\ chosen' = [r \in Routers |->
                    IF r \in Mounted /\ \A a \in Mounted : r \in Below(routers, a) => RouterMatchesRequest(a)
                      THEN MatchRouteHandler(r) ELSE 0]
    /\ phase' = "served"
    /\ UNCHANGED <<routers, late, request>>

\* req->params: the first parameter whose name begins with key.
ParamValue(key) ==
    LET named == {j \in DOMAIN request.keys : BeginsWith(key, request.keys[j])}
    IN  IF named = {} THEN NULL
        ELSE request.values[Min(named)]

-----------------------------------------------------------------------------
Next ==
    \/ \E r \in Routers, method \in Methods, path \in RoutePaths : AddRoute(r, method, path)
    \/ \E parent \in Routers, r \in SubRouters, path \in MountPaths : UseRouter(parent, r, path)
    \/ \E method \in Methods, path \in RequestPaths : Receive(method, path)
    \/ Serve

Spec == Init /\ [][Next]_vars

-----------------------------------------------------------------------------
(* Properties. *)

\* Where the mounting of routers, in whatever order it was done, puts the routes
\* of each.
Written ==
    LET base[r \in Mounted] ==
            IF r = App THEN <<>> ELSE Joined(base[ParentOf(routers, r)], routers[r].mountPath)
        full(r, i) == base[r] \o routers[r].routes[i].path
    IN  [r \in Mounted |-> [i \in DOMAIN routers[r].routes |->
            IF full(r, i) = <<>> THEN Root ELSE full(r, i)]]

\* The words of a pattern are the path's.
Spelled(p, path) == \A i \in DOMAIN p : p[i] \in Params \/ p[i] = path[i]

\* Each router serves a request with the first of its routes that has the
\* request's method and, where the routers are mounted, a path that matches;
\* in whatever order routes were added and routers mounted.  A router never
\* takes another route.  It may miss one if patterns that read differently
\* match the same path, since initReqParams keeps the first only, and, of those
\* with parameters, one that was added after its router was mounted, which has no
\* pattern, or one whose words match otherwise than by being the path's: the base
\* paths of routers without parameters are compared.
RoutedAsWritten ==
    phase = "served" =>
        LET written == Written
            patterns == {p \in UNION {Range(written[r]) : r \in DOMAIN written} :
                            HasParam(p) /\ Matches(p, request.path)}
        IN \A r \in DOMAIN written :
            LET all == {i \in DOMAIN written[r] :
                            /\ routers[r].routes[i].method = request.method
                            /\ Serves(written[r][i], request.path)}
                missable == {i \in all : HasParam(written[r][i])
                                /\ (<<r, i>> \in late \/ ~Spelled(written[r][i], request.path))}
            IN /\ chosen[r] \in all \cup {0}
               /\ Cardinality(patterns) <= 1 /\ missable = {}
                  => chosen[r] = IF all = {} THEN 0 ELSE Min(all)

\* The parameters of a request are those of the route that serves it, although
\* they were found before, by another search: req->params gives for a name the
\* segment where the route has it, unless a longer name that begins the same, or
\* the same name, stands to the left of it.
ParamsAreTheRoutes ==
    phase = "served" =>
        LET written == Written IN
        \A r \in DOMAIN written :
            chosen[r] # 0 =>
                LET path == written[r][chosen[r]] IN
                \A j \in DOMAIN path :
                    path[j] \in Params /\ (\A i \in 1..(j-1) : ~BeginsWith(path[j], path[i]))
                    => ParamValue(path[j]) = request.path[j]

=============================================================================
