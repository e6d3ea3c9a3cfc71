-------------------------- MODULE MCRouterDispatch --------------------------
(* RouterDispatch for TLC: an app with two routers, of which one has a      *)
(* nested router.  The nested one and its parent have middlewares, error    *)
(* handlers and a param handler between them; the other has only routes.    *)
EXTENDS RouterDispatch
CONSTANTS app, router, nested, other
MCRouters       == {app, router, nested, other}
MCSubs          == [r \in MCRouters |-> IF r = app THEN <<router, other>>
                                        ELSE IF r = router THEN <<nested>> ELSE <<>>]
MCMiddlewares   == [r \in MCRouters |-> IF r = other THEN 0 ELSE IF r = nested THEN 2 ELSE 1]
MCParams        == [r \in MCRouters |-> IF r = router THEN 1 ELSE 0]
MCErrorHandlers == [r \in MCRouters |-> IF r = router THEN 2 ELSE 1]
=============================================================================
