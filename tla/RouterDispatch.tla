--------------------------- MODULE RouterDispatch ---------------------------
(***************************************************************************)
(* One request on its way through the routers (src/router.c), with the     *)
(* part of response.c and request.c that its outcome depends on.  The      *)
(* dispatch is a recursion through blocks: `stack` holds its calls, the    *)
(* running one last.  A handler block is application code: it sends,       *)
(* sends a file, reports an error, registers a cleanup block, calls next,  *)
(* in any order and number, and returns.                                   *)
(*                                                                         *)
(* Which routers match the request's path, and which have a route for it,  *)
(* is chosen at the start: the strings that decide it are abstracted away. *)
(***************************************************************************)
EXTENDS Naturals, Sequences

CONSTANTS Routers, Base,   \* the routers; the app's own
          Subs,            \* [Routers -> Seq(Routers)], mounted by useRouter
          Middlewares, Params, ErrorHandlers,  \* [Routers -> Nat], how many
          MaxNexts,        \* bound: times one handler call runs its next
          MaxCleanups,     \* bound: cleanup blocks registered per request
          Nobody

\* express() registers the app's default error handler before anyone else can,
\* and gives its own router to nobody: no router mounts it.
ASSUME RouterAssumption ==
    /\ Base \in Routers /\ Nobody \notin Routers \cup {"404", "error", "handler"}
    /\ Subs \in [Routers -> Seq(Routers)]
    /\ \A r \in Routers : \A k \in 1..Len(Subs[r]) : Subs[r][k] # Base
    /\ Middlewares \in [Routers -> Nat] /\ Params \in [Routers -> Nat]
    /\ ErrorHandlers \in [Routers -> Nat] /\ ErrorHandlers[Base] >= 1
    /\ MaxNexts \in Nat /\ MaxCleanups \in Nat

VARIABLES
    matches,   \* [Routers -> BOOLEAN], routerMatchesRequest
    found,     \* [Routers -> BOOLEAN], matchRouteHandler finds a handler
    stack,     \* the calls in progress
    phase,     \* "handling", then "cleaning" in freeRequest, then "freed"
    didSend, err,  \* the response: res->didSend; the last res->err
    blocks, ran,   \* req->middlewareCleanupBlocks; how many of them have run
    \* history
    answers,   \* what was written to the client: what a "handler" sent, or the
               \* "error" or "404" page of the default error handler
    reporter,  \* <<the call, its router>> of the first error reported
    asked,     \* the router whose error handlers were first to run
    spoke      \* the handlers' last word before the response: what they reported,
               \* or "handler" when one of them sent

request == <<matches, found>>
history == <<answers, reporter, asked, spoke>>
vars == <<request, stack, phase, didSend, err, blocks, ran, history>>

Calls == {"handler", "chain", "route", "error"}
Frames == [call : Calls, r : Routers, i : Nat, nexts : 0..MaxNexts]

\* Errors, told apart by the page they lead to: error404's, any other.
Errors == {"404", "error"}

TypeOK ==
    /\ matches \in [Routers -> BOOLEAN] /\ found \in [Routers -> BOOLEAN]
    /\ stack \in Seq(Frames)
    /\ phase \in {"handling", "cleaning", "freed"}
    /\ didSend \in BOOLEAN /\ err \in Errors \cup {Nobody}
    /\ blocks \in Seq(Routers) /\ Len(blocks) <= MaxCleanups
    /\ ran \in 0..Len(blocks)
    /\ answers \in Seq(Errors \cup {"handler"})
    /\ reporter \in {<<>>} \cup (Calls \X Routers)
    /\ asked \in Routers \cup {Nobody} /\ spoke \in Errors \cup {"handler", Nobody}

-----------------------------------------------------------------------------
(* The calls. *)

Frame(call, r, i) == [call |-> call, r |-> r, i |-> i, nexts |-> 0]

Top == stack[Len(stack)]
Below == SubSeq(stack, 1, Len(stack) - 1)
Running(call) == phase = "handling" /\ stack # <<>> /\ Top.call = call

\* A handler of the application runs: any but the default error handler.
Default(f) == f.call = "error" /\ f.r = Base /\ f.i = 1
UserCode ==
    /\ phase = "handling" /\ stack # <<>>
    /\ Top.call # "handler" /\ ~Default(Top)

\* The chain of a router: its middlewares, its param handlers, its route.
ChainLength(r) == Middlewares[r] + Params[r]

\* Faulty variant: the step to the next middleware skips one.
RunChainSkipping(r, i) ==
    IF i = 1 \/ i < ChainLength(r) THEN
        IF i > ChainLength(r) THEN <<>> ELSE <<Frame("chain", r, IF i = 1 THEN 1 ELSE i + 1)>>
    ELSE IF found[r] /\ err = Nobody THEN <<Frame("route", r, 0)>>
    ELSE <<>>

\* runMiddleware and runParamHandlers from position i on; at the end the route,
\* unless an error has been reported.
RunChain(r, i) ==
    IF i <= ChainLength(r) THEN <<Frame("chain", r, i)>>
    ELSE IF found[r] /\ err = Nobody THEN <<Frame("route", r, 0)>>
    ELSE <<>>

\* runErrorHandlers from index i on, once an error e is there.
RunErrorHandlers(e, r, i) ==
    IF e # Nobody /\ i <= ErrorHandlers[r] THEN <<Frame("error", r, i)>> ELSE <<>>

\* The history of that call.
Ask(calls) == asked' = IF calls # <<>> /\ asked = Nobody THEN calls[1].r ELSE asked

Init ==
    /\ matches \in [Routers -> BOOLEAN] /\ matches[Base]
    /\ found \in [Routers -> BOOLEAN]
    /\ stack = <<Frame("handler", Base, 0)>>
    /\ phase = "handling"
    /\ didSend = FALSE /\ err = Nobody
    /\ blocks = <<>> /\ ran = 0
    /\ answers = <<>> /\ reporter = <<>> /\ asked = Nobody /\ spoke = Nobody

-----------------------------------------------------------------------------
(* router->handler *)

\* The router does not match: return.
PassBy ==
    /\ Running("handler") /\ Top.i = 0 /\ ~matches[Top.r]
    /\ stack' = Below
    /\ UNCHANGED <<request, phase, didSend, err, blocks, ran, history>>

\* The router matches: run its chain, then go on with its routers.
EnterRouter ==
    /\ Running("handler") /\ Top.i = 0 /\ matches[Top.r]
    /\ stack' = Append(Below, [Top EXCEPT !.i = 1]) \o RunChain(Top.r, 1)
    /\ UNCHANGED <<request, phase, didSend, err, blocks, ran, history>>

\* Sub-routers run whether or not the chain reached its end.
VisitRouter ==
    /\ Running("handler") /\ Top.i \in 1..Len(Subs[Top.r])
    /\ stack' = Below \o <<[Top EXCEPT !.i = @ + 1], Frame("handler", Subs[Top.r][Top.i], 0)>>
    /\ UNCHANGED <<request, phase, didSend, err, blocks, ran, history>>

\* Faulty variant: the 404 is reported although an error was.
LeaveRouterAlways404 ==
    /\ Running("handler") /\ Top.i = Len(Subs[Top.r]) + 1
    /\ err' = IF Top.r = Base /\ ~didSend THEN "404" ELSE err
    /\ stack' = Below \o RunErrorHandlers(err', Top.r, 1)
    /\ Ask(RunErrorHandlers(err', Top.r, 1))
    /\ UNCHANGED <<request, phase, didSend, blocks, ran, answers, reporter, spoke>>

\* The end of handler: the app reports a 404 if nothing was sent or reported,
\* and the error handlers run.
LeaveRouter ==
    /\ Running("handler") /\ Top.i = Len(Subs[Top.r]) + 1
    /\ err' = IF Top.r = Base /\ ~didSend /\ err = Nobody THEN "404" ELSE err
    /\ stack' = Below \o RunErrorHandlers(err', Top.r, 1)
    /\ Ask(RunErrorHandlers(err', Top.r, 1))
    /\ UNCHANGED <<request, phase, didSend, blocks, ran, answers, reporter, spoke>>

-----------------------------------------------------------------------------
(* The handler blocks. *)

\* Faulty variant: every call writes.
RespondAgain(what) ==
    /\ didSend' = TRUE
    /\ answers' = IF Len(answers) < 2 THEN Append(answers, what) ELSE answers

\* expressResSend: the first call writes, the others return.
Respond(what) ==
    /\ didSend' = TRUE
    /\ answers' = IF didSend THEN answers ELSE Append(answers, what)

\* The history of what a handler does before the response is out.
Speak(word) == spoke' = IF didSend THEN spoke ELSE word

\* res->send and its kin, and res->sendFile of a file that is there.
Send ==
    /\ UserCode
    /\ Respond("handler") /\ Speak("handler")
    /\ UNCHANGED <<request, stack, phase, err, blocks, ran, reporter, asked>>

\* expressResError: the last error reported is the one that stays.
Report(e) ==
    /\ err' = e /\ Speak(e)
    /\ reporter' = IF reporter = <<>> /\ err = Nobody THEN <<Top.call, Top.r>> ELSE reporter
    /\ UNCHANGED <<request, stack, phase, didSend, blocks, ran, answers, asked>>

\* res->error(e), with an error of the handler's own or (as expressStatic does
\* for a path outside its directory) with error404's.
ReportError == UserCode /\ \E e \in Errors : Report(e)

\* res->sendFile of a file that is not there: a 404, unless something was sent.
SendMissingFile == UserCode /\ ~didSend /\ Report("404")

\* cleanup(block), which middlewares and param handlers are given.
RegisterCleanup ==
    /\ Running("chain") /\ Len(blocks) < MaxCleanups
    /\ blocks' = Append(blocks, Top.r)
    /\ UNCHANGED <<request, stack, phase, didSend, err, ran, history>>

\* next() of a middleware or a param handler.
NextInChain ==
    /\ Running("chain") /\ Top.nexts < MaxNexts
    /\ stack' = Append(Below, [Top EXCEPT !.nexts = @ + 1]) \o RunChain(Top.r, Top.i + 1)
    /\ UNCHANGED <<request, phase, didSend, err, blocks, ran, history>>

\* next() of an error handler.
NextErrorHandler ==
    /\ Running("error") /\ ~Default(Top) /\ Top.nexts < MaxNexts
    /\ stack' = Append(Below, [Top EXCEPT !.nexts = @ + 1])
                    \o RunErrorHandlers(err, Top.r, Top.i + 1)
    /\ UNCHANGED <<request, phase, didSend, err, blocks, ran, history>>

\* Faulty variant: only the end of handler looks at res->err.
ReturnSilently ==
    /\ Running("chain")
    /\ stack' = Below
    /\ UNCHANGED <<request, phase, didSend, err, blocks, ran, history>>

\* A middleware or a param handler returns: run the router's error handlers.
ReturnInChain ==
    /\ Running("chain")
    /\ stack' = Below \o RunErrorHandlers(err, Top.r, 1)
    /\ Ask(RunErrorHandlers(err, Top.r, 1))
    /\ UNCHANGED <<request, phase, didSend, err, blocks, ran, answers, reporter, spoke>>

\* A route or an error handler returns.
Return ==
    /\ Running("route") \/ (Running("error") /\ ~Default(Top))
    /\ stack' = Below
    /\ UNCHANGED <<request, phase, didSend, err, blocks, ran, history>>

\* The default error handler: the page of the error it is given, and no next.
DefaultErrorHandler ==
    /\ Running("error") /\ Default(Top)
    /\ Respond(err)
    /\ stack' = Below
    /\ UNCHANGED <<request, phase, err, blocks, ran, reporter, asked, spoke>>

-----------------------------------------------------------------------------
(* freeResponse and freeRequest, after baseRouter->handler has returned. *)

FreeResponse ==
    /\ phase = "handling" /\ stack = <<>>
    /\ phase' = "cleaning"
    /\ UNCHANGED <<request, stack, didSend, err, blocks, ran, history>>

RunCleanup ==
    /\ phase = "cleaning" /\ ran < Len(blocks)
    /\ ran' = ran + 1
    /\ UNCHANGED <<request, stack, phase, didSend, err, blocks, history>>

FreeRequest ==
    /\ phase = "cleaning" /\ ran = Len(blocks)
    /\ phase' = "freed"
    /\ UNCHANGED <<request, stack, didSend, err, blocks, ran, history>>

-----------------------------------------------------------------------------
RouterStep == PassBy \/ EnterRouter \/ VisitRouter \/ LeaveRouter
HandlerStep ==
    \/ Send \/ ReportError \/ SendMissingFile \/ RegisterCleanup
    \/ NextInChain \/ NextErrorHandler \/ ReturnInChain \/ Return
    \/ DefaultErrorHandler

Next == RouterStep \/ HandlerStep \/ FreeResponse \/ RunCleanup \/ FreeRequest

Spec == Init /\ [][Next]_vars

-----------------------------------------------------------------------------
(* Properties. *)

\* A route handler runs inside every middleware and param handler of its
\* router, in the order of registration, none skipped and none returned: what
\* they set up on their stack and for the request is there while it runs.
ChainInOrder ==
    \A k \in 1..Len(stack) :
        LET f == stack[k]
            position == IF f.call = "route" THEN ChainLength(f.r) + 1 ELSE f.i
        IN f.call \in {"chain", "route"} =>
            \A j \in 1..(position - 1) :
                LET g == stack[k - position + j] IN g.call = "chain" /\ g.r = f.r /\ g.i = j

\* The client gets the handlers' last word, through every order of sub-routers
\* and error handlers: what one of them sent, else the page of the last error
\* they reported before the response was out, be it an error or the 404 of a
\* missing file.  Only when no handler said anything is the 404 the app's own.
AnsweredByTheLastWord ==
    phase = "freed" => answers = <<IF spoke = Nobody THEN "404" ELSE spoke>>

\* An error reported by a middleware or a param handler is offered to the error
\* handlers of its own router before those of any other, although sub-routers
\* still run after it; so is one of a route that lies behind a middleware.
OwnErrorHandlersFirst ==
    reporter # <<>> /\ asked # Nobody =>
        LET r == reporter[2] IN
        ErrorHandlers[r] > 0 /\ (reporter[1] = "chain" \/ ChainLength(r) > 0) => asked = r

\* One response and never a second, whatever the handlers do, and the cleanup
\* blocks once each in order, only when no handler is running any more.
Exchange == INSTANCE HttpExchange WITH
    Blocks <- Routers,
    responses <- Len(answers),
    pending <- SubSeq(blocks, ran + 1, Len(blocks))

ImplementsHttpExchange == Exchange!Spec

=============================================================================
