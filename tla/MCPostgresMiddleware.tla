------------------------ MODULE MCPostgresMiddleware ------------------------
(* PostgresMiddleware for TLC: three requests that pass the middleware up   *)
(* to twice, and four connections: some wait, and none can wait forever.    *)
EXTENDS PostgresMiddleware
CONSTANTS r1, r2, r3
MCRequests == {r1, r2, r3}
=============================================================================
