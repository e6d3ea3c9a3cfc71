SPECIFICATION Spec
CONSTANTS
  app = app
  router = router
  nested = nested
  other = other
  Routers <- MCRouters
  Base = app
  Subs <- MCSubs
  Middlewares <- MCMiddlewares
  Params <- MCParams
  ErrorHandlers <- MCErrorHandlers
  MaxNexts = 2
  MaxCleanups = 2
  Nobody = Nobody
INVARIANTS
  ChainInOrder
  AnsweredByTheLastWord
  OwnErrorHandlersFirst
PROPERTIES
  ImplementsHttpExchange
\* A request ends.
CHECK_DEADLOCK FALSE
