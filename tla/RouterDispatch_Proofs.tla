------------------------ MODULE RouterDispatch_Proofs ------------------------
(***************************************************************************)
(* Theorems about RouterDispatch, for any tree of routers, any numbers of  *)
(* handlers and whatever the handlers do: one answer per request and the   *)
(* cleanup blocks once each (HttpExchange), their last word in it or the   *)
(* 404 page for silence, and the order of the chain.                       *)
(***************************************************************************)
EXTENDS RouterDispatch, SequenceTheorems, TLAPS

-----------------------------------------------------------------------------
(* The stack of calls. *)

\* The running call is over.
Popped(s, t) ==
    /\ t \in Seq(Frames) /\ Len(t) = Len(s) - 1
    /\ \A k \in 1..Len(t) : t[k] = s[k]

\* f stands where the running call was.
Swapped(s, t, f) ==
    /\ t \in Seq(Frames) /\ Len(t) = Len(s) /\ t[Len(s)] = f
    /\ \A k \in 1..(Len(s) - 1) : t[k] = s[k]

\* f stands where the running call was, and it has called g.
Called(s, t, f, g) ==
    /\ t \in Seq(Frames) /\ Len(t) = Len(s) + 1
    /\ t[Len(s)] = f /\ t[Len(s) + 1] = g
    /\ \A k \in 1..(Len(s) - 1) : t[k] = s[k]

\* What the sequence operators of the actions do to the stack.
LEMMA StackOperators ==
    ASSUME NEW s \in Seq(Frames), s # <<>>, NEW f \in Frames, NEW g \in Frames
    PROVE  LET b == SubSeq(s, 1, Len(s) - 1) IN
           /\ Popped(s, b) /\ Popped(s, b \o <<>>)
           /\ Swapped(s, b \o <<f>>, f) /\ Swapped(s, Append(b, f), f)
           /\ Swapped(s, Append(b, f) \o <<>>, f)
           /\ Called(s, b \o <<f, g>>, f, g) /\ Called(s, Append(b, f) \o <<g>>, f, g)
  <1> DEFINE b == SubSeq(s, 1, Len(s) - 1)
  <1>1. Len(s) \in Nat /\ Len(s) > 0
    OBVIOUS
  <1>2. Popped(s, b)
    <2>1. \A i \in 1..(Len(s) - 1) : s[i] \in Frames
      BY <1>1, ElementOfSeq
    <2>2. 1 \in Int /\ Len(s) - 1 \in Int
      BY <1>1
    <2>3. /\ b \in Seq(Frames)
          /\ Len(b) = IF 1 <= Len(s) - 1 THEN (Len(s) - 1) - 1 + 1 ELSE 0
          /\ \A k \in 1..((Len(s) - 1) - 1 + 1) : b[k] = s[1 + k - 1]
      BY <2>1, <2>2, SubSeqProperties
    <2> HIDE DEF b
    <2>4. Len(b) = Len(s) - 1
      <3>1. CASE Len(s) = 1
        BY <2>3, <3>1
      <3>2. CASE Len(s) > 1
        <4>1. 1 <= Len(s) - 1 /\ (Len(s) - 1) - 1 + 1 = Len(s) - 1
          BY <1>1, <3>2
        <4>2. QED
          BY <2>3, <4>1
      <3>3. Len(s) = 1 \/ Len(s) > 1
        <4>1. \A n \in Nat : n > 0 => n = 1 \/ n > 1
          OBVIOUS
        <4>2. QED
          BY <1>1, <4>1
      <3>4. QED
        BY <3>1, <3>2, <3>3
    <2>5. \A k \in 1..Len(b) : k \in 1..((Len(s) - 1) - 1 + 1) /\ 1 + k - 1 = k
      BY <1>1, <2>4
    <2>6. \A k \in 1..Len(b) : b[k] = s[k]
      BY <2>3, <2>5
    <2>7. QED
      BY <2>3, <2>4, <2>6 DEF Popped
  <1> HIDE DEF b
  <1>3. Popped(s, b \o <<>>)
    BY <1>2, ConcatEmptySeq DEF Popped
  <1>4. Swapped(s, Append(b, f), f)
    BY <1>1, <1>2, AppendProperties DEF Popped, Swapped
  <1>5. Swapped(s, b \o <<f>>, f)
    BY <1>2, <1>4, AppendIsConcat DEF Popped
  <1>6. Swapped(s, Append(b, f) \o <<>>, f)
    BY <1>4, ConcatEmptySeq DEF Swapped
  <1>7. Called(s, Append(Append(b, f), g), f, g)
    <2>1. Append(b, f) \in Seq(Frames) /\ Len(Append(b, f)) = Len(s)
      BY <1>4 DEF Swapped
    <2>2. /\ Append(Append(b, f), g) \in Seq(Frames)
          /\ Len(Append(Append(b, f), g)) = Len(s) + 1
          /\ \A i \in 1..Len(s) : Append(Append(b, f), g)[i] = Append(b, f)[i]
          /\ Append(Append(b, f), g)[Len(s) + 1] = g
      BY <2>1, AppendProperties
    <2>3. QED
      BY <1>1, <1>4, <2>2 DEF Swapped, Called
  <1>8. Called(s, Append(b, f) \o <<g>>, f, g)
    BY <1>4, <1>7, AppendIsConcat DEF Swapped
  <1>9. Called(s, b \o <<f, g>>, f, g)
    <2> DEFINE two == <<f, g>>
    <2>1. two \in Seq(Frames) /\ Len(two) = 2 /\ two[1] = f /\ two[2] = g
      OBVIOUS
    <2> HIDE DEF two
    <2>2. b \in Seq(Frames) /\ Len(b) = Len(s) - 1 /\ \A k \in 1..Len(b) : b[k] = s[k]
      BY <1>2 DEF Popped
    <2>3. /\ b \o two \in Seq(Frames) /\ Len(b \o two) = Len(b) + Len(two)
          /\ \A i \in 1..(Len(b) + Len(two)) :
                (b \o two)[i] = IF i <= Len(b) THEN b[i] ELSE two[i - Len(b)]
      BY <2>1, <2>2, ConcatProperties
    <2>4. Called(s, b \o two, f, g)
      BY <1>1, <2>1, <2>2, <2>3 DEF Called
    <2>5. QED
      BY <2>4 DEF two
  <1>10. QED
    BY <1>2, <1>3, <1>4, <1>5, <1>6, <1>8, <1>9 DEF b

\* A call that goes on: its position or its count of next() changes.
LEMMA FrameFacts ==
    ASSUME NEW f \in Frames
    PROVE  /\ f.call \in Calls /\ f.r \in Routers /\ f.i \in Nat /\ f.nexts \in 0..MaxNexts
           /\ \A j \in Nat : /\ [f EXCEPT !.i = j] \in Frames
                             /\ [f EXCEPT !.i = j].call = f.call
                             /\ [f EXCEPT !.i = j].r = f.r /\ [f EXCEPT !.i = j].i = j
           /\ \A j \in 0..MaxNexts : /\ [f EXCEPT !.nexts = j] \in Frames
                             /\ [f EXCEPT !.nexts = j].call = f.call
                             /\ [f EXCEPT !.nexts = j].r = f.r /\ [f EXCEPT !.nexts = j].i = f.i
  BY DEF Frames

\* A call that starts.
LEMMA NewFrame ==
    ASSUME NEW call \in Calls, NEW r \in Routers, NEW i \in Nat
    PROVE  /\ Frame(call, r, i) \in Frames
           /\ Frame(call, r, i).call = call /\ Frame(call, r, i).r = r /\ Frame(call, r, i).i = i
  BY RouterAssumption DEF Frame, Frames

\* f is the running call, going on.
Continues(f) == f \in Frames /\ f.call = Top.call /\ f.r = Top.r

\* g is the call that a router's chain makes at position i.
InChain(g, r, i) ==
    /\ g \in Frames /\ g.r = r
    /\ \/ g.call = "chain" /\ g.i = i /\ i <= ChainLength(r)
       \/ g.call = "route" /\ ChainLength(r) < i /\ err = Nobody

\* g is the call of a router's error handler at index i.
Handles(g, r, i) == g \in Frames /\ g.call = "error" /\ g.r = r /\ g.i = i

\* The running call is a call.
LEMMA TopFacts ==
    ASSUME stack \in Seq(Frames), stack # <<>>
    PROVE  /\ Top \in Frames /\ Top = stack[Len(stack)]
           /\ Len(stack) \in Nat /\ Len(stack) >= 1
  <1>1. Len(stack) \in Nat /\ Len(stack) >= 1
    OBVIOUS
  <1>2. QED
    BY <1>1 DEF Top

\* The length of a chain is a number.
LEMMA ChainLengthType == \A r \in Routers : ChainLength(r) \in Nat
  <1> SUFFICES ASSUME NEW r \in Routers PROVE ChainLength(r) \in Nat
    OBVIOUS
  <1>1. Middlewares[r] \in Nat /\ Params[r] \in Nat
    BY RouterAssumption
  <1>2. QED
    BY <1>1 DEF ChainLength

\* A chain calls one handler or none.
LEMMA RunChainCalls ==
    ASSUME NEW r \in Routers, NEW i \in Nat
    PROVE  RunChain(r, i) = <<>> \/ \E g \in Frames : RunChain(r, i) = <<g>> /\ InChain(g, r, i)
  <1>1. ChainLength(r) \in Nat /\ 0 \in Nat
    BY ChainLengthType
  <1>2. CASE i <= ChainLength(r)
    <2>1. RunChain(r, i) = <<Frame("chain", r, i)>>
      BY <1>2 DEF RunChain
    <2>2. InChain(Frame("chain", r, i), r, i)
      BY <1>2, NewFrame DEF InChain, Calls
    <2>3. QED
      BY <2>1, <2>2 DEF InChain
  <1>3. CASE ~(i <= ChainLength(r)) /\ found[r] /\ err = Nobody
    <2>1. RunChain(r, i) = <<Frame("route", r, 0)>>
      BY <1>3 DEF RunChain
    <2>2. ChainLength(r) < i
      BY <1>1, <1>3
    <2>3. InChain(Frame("route", r, 0), r, i)
      BY <1>1, <1>3, <2>2, NewFrame DEF InChain, Calls
    <2>4. QED
      BY <2>1, <2>3 DEF InChain
  <1>4. CASE ~(i <= ChainLength(r)) /\ ~(found[r] /\ err = Nobody)
    BY <1>4 DEF RunChain
  <1>5. QED
    BY <1>2, <1>3, <1>4

\* An error has a handler called as long as there is one left.
LEMMA RunErrorHandlersCalls ==
    ASSUME NEW e, NEW r \in Routers, NEW i \in Nat
    PROVE  \/ RunErrorHandlers(e, r, i) = <<>> /\ (e = Nobody \/ ~(i <= ErrorHandlers[r]))
           \/ /\ e # Nobody /\ i <= ErrorHandlers[r]
              /\ \E g \in Frames : RunErrorHandlers(e, r, i) = <<g>> /\ Handles(g, r, i)
  <1>1. CASE e # Nobody /\ i <= ErrorHandlers[r]
    <2>1. RunErrorHandlers(e, r, i) = <<Frame("error", r, i)>>
      BY <1>1 DEF RunErrorHandlers
    <2>2. Handles(Frame("error", r, i), r, i)
      BY NewFrame DEF Handles, Calls
    <2>3. QED
      BY <1>1, <2>1, <2>2 DEF Handles
  <1>2. CASE ~(e # Nobody /\ i <= ErrorHandlers[r])
    BY <1>2 DEF RunErrorHandlers
  <1>3. QED
    BY <1>1, <1>2

-----------------------------------------------------------------------------
(* What each step does to the stack. *)

\* A call that ends uncovers the one below it.
LEMMA PassByPops ==
    ASSUME stack \in Seq(Frames), PassBy \/ Return \/ DefaultErrorHandler
    PROVE  stack # <<>> /\ Popped(stack, stack')
  <1>1. stack # <<>> /\ stack' = Below
    BY DEF PassBy, Return, DefaultErrorHandler, Running
  <1>2. QED
    BY <1>1, StackOperators, TopFacts DEF Below

\* A router that matches goes on and its chain starts, if it has one.
LEMMA EnterRouterCalls ==
    ASSUME stack \in Seq(Frames), EnterRouter
    PROVE  /\ stack # <<>> /\ Top.call = "handler"
           /\ \E f \in Frames :
                /\ Continues(f)
                /\ \/ Swapped(stack, stack', f)
                   \/ \E g \in Frames : Called(stack, stack', f, g) /\ InChain(g, Top.r, 1)
  <1>1. stack # <<>> /\ Top.call = "handler"
        /\ stack' = Append(Below, [Top EXCEPT !.i = 1]) \o RunChain(Top.r, 1)
    BY DEF EnterRouter, Running
  <1>2. PICK f \in Frames : Continues(f) /\ f = [Top EXCEPT !.i = 1]
    BY <1>1, TopFacts, FrameFacts DEF Continues
  <1>3. CASE RunChain(Top.r, 1) = <<>>
    BY <1>1, <1>2, <1>3, StackOperators DEF Below
  <1>4. CASE \E g \in Frames : RunChain(Top.r, 1) = <<g>> /\ InChain(g, Top.r, 1)
    <2>1. PICK g \in Frames : RunChain(Top.r, 1) = <<g>> /\ InChain(g, Top.r, 1)
      BY <1>4
    <2>2. Called(stack, stack', f, g)
      BY <1>1, <1>2, <2>1, StackOperators DEF Below
    <2>3. QED
      BY <1>1, <1>2, <2>1, <2>2
  <1>5. Top.r \in Routers
    BY <1>1, TopFacts, FrameFacts
  <1>6. QED
    BY <1>3, <1>4, <1>5, RunChainCalls

\* A router goes on and one of its sub-routers is called.
LEMMA VisitRouterCalls ==
    ASSUME stack \in Seq(Frames), VisitRouter
    PROVE  /\ stack # <<>> /\ Top.call = "handler"
           /\ \E f, g \in Frames :
                /\ Continues(f) /\ Called(stack, stack', f, g)
                /\ g.call = "handler" /\ g.r # Base
  <1>1. stack # <<>> /\ Top.call = "handler" /\ Top.i \in 1..Len(Subs[Top.r])
        /\ stack' = Below \o <<[Top EXCEPT !.i = @ + 1], Frame("handler", Subs[Top.r][Top.i], 0)>>
    BY DEF VisitRouter, Running
  <1>2. Top \in Frames /\ Top.r \in Routers /\ Top.i \in Nat /\ Top.i + 1 \in Nat
    BY <1>1, TopFacts, FrameFacts
  <1>3. PICK f \in Frames : Continues(f) /\ f = [Top EXCEPT !.i = @ + 1]
    BY <1>2, FrameFacts DEF Continues
  <1>4. Subs[Top.r][Top.i] \in Routers \ {Base} /\ 0 \in Nat
    BY <1>1, <1>2, RouterAssumption, ElementOfSeq
  <1>5. PICK g \in Frames : /\ g = Frame("handler", Subs[Top.r][Top.i], 0)
                            /\ g.call = "handler" /\ g.r # Base
    BY <1>4, NewFrame DEF Calls
  <1>6. Called(stack, stack', f, g)
    BY <1>1, <1>3, <1>5, StackOperators DEF Below
  <1>7. QED
    BY <1>1, <1>3, <1>5, <1>6

\* The end of a router and the return of a chain's handler.
LEMMA ErrorHandlersReplace ==
    ASSUME stack \in Seq(Frames), LeaveRouter \/ ReturnInChain
    PROVE  /\ stack # <<>> /\ Top.r \in Routers
           /\ \/ Popped(stack, stack') /\ (err' = Nobody \/ ~(1 <= ErrorHandlers[Top.r]))
              \/ /\ err' # Nobody
                 /\ \E g \in Frames : Handles(g, Top.r, 1) /\ Swapped(stack, stack', g)
  <1>1. stack # <<>> /\ stack' = Below \o RunErrorHandlers(err', Top.r, 1)
    BY DEF LeaveRouter, ReturnInChain, Running
  <1>2. Top \in Frames /\ Top.r \in Routers
    BY <1>1, TopFacts, FrameFacts
  <1>3. CASE RunErrorHandlers(err', Top.r, 1) = <<>> /\ (err' = Nobody \/ ~(1 <= ErrorHandlers[Top.r]))
    BY <1>1, <1>2, <1>3, StackOperators DEF Below
  <1>4. CASE err' # Nobody /\ \E g \in Frames : RunErrorHandlers(err', Top.r, 1) = <<g>> /\ Handles(g, Top.r, 1)
    <2>1. PICK g \in Frames : RunErrorHandlers(err', Top.r, 1) = <<g>> /\ Handles(g, Top.r, 1)
      BY <1>4
    <2>2. Swapped(stack, stack', g)
      BY <1>1, <2>1, StackOperators DEF Below
    <2>3. QED
      BY <1>1, <1>2, <1>4, <2>1, <2>2
  <1>5. QED
    BY <1>2, <1>3, <1>4, RunErrorHandlersCalls

\* next() in a chain: the handler goes on and the chain's next call starts.
LEMMA NextInChainCalls ==
    ASSUME stack \in Seq(Frames), NextInChain
    PROVE  /\ stack # <<>> /\ Top.call = "chain"
           /\ \E f \in Frames :
                /\ Continues(f) /\ f.i = Top.i
                /\ \/ Swapped(stack, stack', f)
                   \/ \E g \in Frames : Called(stack, stack', f, g) /\ InChain(g, Top.r, Top.i + 1)
  <1>1. stack # <<>> /\ Top.call = "chain" /\ Top.nexts < MaxNexts
        /\ stack' = Append(Below, [Top EXCEPT !.nexts = @ + 1]) \o RunChain(Top.r, Top.i + 1)
    BY DEF NextInChain, Running
  <1>2. Top \in Frames /\ Top.r \in Routers /\ Top.i + 1 \in Nat
    BY <1>1, TopFacts, FrameFacts
  <1>3. Top.nexts + 1 \in 0..MaxNexts
    <2>1. Top.nexts \in 0..MaxNexts
      BY <1>2, FrameFacts, Zenon
    <2>2. MaxNexts \in Nat
      BY RouterAssumption, Zenon
    <2>3. \A n \in Nat : \A m \in 0..n : m < n => m + 1 \in 0..n
      OBVIOUS
    <2>4. QED
      BY <1>1, <2>1, <2>2, <2>3, Zenon
  <1>4. PICK f \in Frames : Continues(f) /\ f.i = Top.i /\ f = [Top EXCEPT !.nexts = @ + 1]
    BY <1>2, <1>3, FrameFacts DEF Continues
  <1>5. CASE RunChain(Top.r, Top.i + 1) = <<>>
    BY <1>1, <1>4, <1>5, StackOperators DEF Below
  <1>6. CASE \E g \in Frames : RunChain(Top.r, Top.i + 1) = <<g>> /\ InChain(g, Top.r, Top.i + 1)
    <2>1. PICK g \in Frames : RunChain(Top.r, Top.i + 1) = <<g>> /\ InChain(g, Top.r, Top.i + 1)
      BY <1>6
    <2>2. Called(stack, stack', f, g)
      BY <1>1, <1>4, <2>1, StackOperators DEF Below
    <2>3. QED
      BY <1>1, <1>4, <2>1, <2>2
  <1>7. QED
    BY <1>2, <1>5, <1>6, RunChainCalls

\* next() of an error handler: the next one of its router is called, if any.
LEMMA NextErrorHandlerCalls ==
    ASSUME stack \in Seq(Frames), NextErrorHandler
    PROVE  /\ stack # <<>> /\ Top.call = "error"
           /\ \E f \in Frames :
                /\ Continues(f) /\ f.i = Top.i
                /\ \/ Swapped(stack, stack', f)
                   \/ \E g \in Frames : /\ Called(stack, stack', f, g)
                                        /\ err # Nobody /\ Handles(g, Top.r, Top.i + 1)
  <1>1. stack # <<>> /\ Top.call = "error" /\ Top.nexts < MaxNexts
        /\ stack' = Append(Below, [Top EXCEPT !.nexts = @ + 1]) \o RunErrorHandlers(err, Top.r, Top.i + 1)
    BY DEF NextErrorHandler, Running
  <1>2. Top \in Frames /\ Top.r \in Routers /\ Top.i + 1 \in Nat
    BY <1>1, TopFacts, FrameFacts
  <1>3. Top.nexts + 1 \in 0..MaxNexts
    <2>1. Top.nexts \in 0..MaxNexts
      BY <1>2, FrameFacts, Zenon
    <2>2. MaxNexts \in Nat
      BY RouterAssumption, Zenon
    <2>3. \A n \in Nat : \A m \in 0..n : m < n => m + 1 \in 0..n
      OBVIOUS
    <2>4. QED
      BY <1>1, <2>1, <2>2, <2>3, Zenon
  <1>4. PICK f \in Frames : Continues(f) /\ f.i = Top.i /\ f = [Top EXCEPT !.nexts = @ + 1]
    BY <1>2, <1>3, FrameFacts DEF Continues
  <1>5. CASE RunErrorHandlers(err, Top.r, Top.i + 1) = <<>>
    BY <1>1, <1>4, <1>5, StackOperators DEF Below
  <1>6. CASE err # Nobody /\ \E g \in Frames :
                RunErrorHandlers(err, Top.r, Top.i + 1) = <<g>> /\ Handles(g, Top.r, Top.i + 1)
    <2>1. PICK g \in Frames :
                RunErrorHandlers(err, Top.r, Top.i + 1) = <<g>> /\ Handles(g, Top.r, Top.i + 1)
      BY <1>6
    <2>2. Called(stack, stack', f, g)
      BY <1>1, <1>4, <2>1, StackOperators DEF Below
    <2>3. QED
      BY <1>1, <1>4, <1>6, <2>1, <2>2
  <1>7. QED
    BY <1>2, <1>5, <1>6, RunErrorHandlersCalls

-----------------------------------------------------------------------------
(* The invariant. *)

\* The call at position k of the stack, e being the error reported.  The app's
\* own handler is at the bottom, the only call there but the default error
\* handler that replaces it; error handlers run for an error.
Fits(k, f, e) ==
    /\ f.call = "handler" => (k = 1 <=> f.r = Base)
    /\ f.call = "chain" => 1 <= f.i /\ f.i <= ChainLength(f.r)
    /\ f.call = "error" => 1 <= f.i /\ e # Nobody
    /\ k = 1 => f.call = "handler" \/ Default(f)

StackFits ==
    /\ matches[Base]
    /\ \A k \in 1..Len(stack) : Fits(k, stack[k], err)
    /\ Len(stack) >= 2 => stack[1].call = "handler"

\* When the last call is over something has been sent.
Sent ==
    /\ phase # "handling" => stack = <<>>
    /\ stack = <<>> => didSend
    /\ phase = "handling" => ran = 0

\* What the client is to get for the handlers' last word.
Page == IF spoke = Nobody THEN "404" ELSE spoke

\* Once the response is out it is that page; until then the error that stands is
\* the handlers' last word, or the app's own 404 after none.
Answered ==
    /\ Len(answers) = IF didSend THEN 1 ELSE 0
    /\ didSend => answers = <<Page>>
    /\ ~didSend => \/ spoke # Nobody /\ err = spoke
                   \/ spoke = Nobody /\ err \in {Nobody, "404"}

IInv == TypeOK /\ StackFits /\ Sent /\ Answered

-----------------------------------------------------------------------------
(* One step keeps the invariant. *)

\* At first the app's own handler runs.
LEMMA InitInv == Init => IInv
  <1> SUFFICES ASSUME Init PROVE IInv
    OBVIOUS
  <1> DEFINE f == Frame("handler", Base, 0)
  <1>1. f \in Frames /\ f.call = "handler" /\ f.r = Base
    BY NewFrame, RouterAssumption DEF Calls
  <1> HIDE DEF f
  <1>2. stack = <<f>>
    BY DEF Init, f
  <1>3. stack \in Seq(Frames) /\ Len(stack) = 1 /\ stack[1] = f /\ stack # <<>>
    BY <1>1, <1>2
  <1>4. TypeOK
    <2>1. /\ blocks \in Seq(Routers) /\ Len(blocks) <= MaxCleanups /\ ran \in 0..Len(blocks)
          /\ answers \in Seq(Errors \cup {"handler"})
      BY RouterAssumption DEF Init
    <2>2. didSend \in BOOLEAN /\ spoke \in Errors \cup {"handler", Nobody}
      BY DEF Init
    <2>3. QED
      BY <1>3, <2>1, <2>2, RouterAssumption DEF Init, TypeOK
  <1>5. StackFits
    BY <1>1, <1>3 DEF Init, StackFits, Fits
  <1>6. Sent /\ Answered
    BY <1>3, RouterAssumption DEF Init, Sent, Answered
  <1>7. QED
    BY <1>4, <1>5, <1>6 DEF IInv

\* The steps leave the stack a stack of calls.
LEMMA StackKept ==
    ASSUME TypeOK, Next
    PROVE  stack' \in Seq(Frames)
  <1>1. stack \in Seq(Frames)
    BY DEF TypeOK
  <1>2. CASE PassBy \/ Return \/ DefaultErrorHandler
    BY <1>1, <1>2, PassByPops DEF Popped
  <1>3. CASE EnterRouter
    BY <1>1, <1>3, EnterRouterCalls DEF Swapped, Called
  <1>4. CASE VisitRouter
    BY <1>1, <1>4, VisitRouterCalls DEF Called
  <1>5. CASE LeaveRouter \/ ReturnInChain
    BY <1>1, <1>5, ErrorHandlersReplace DEF Popped, Swapped
  <1>6. CASE NextInChain
    BY <1>1, <1>6, NextInChainCalls DEF Swapped, Called
  <1>7. CASE NextErrorHandler
    BY <1>1, <1>7, NextErrorHandlerCalls DEF Swapped, Called
  <1>8. CASE Send \/ ReportError \/ SendMissingFile \/ RegisterCleanup \/ FreeResponse \/ RunCleanup \/ FreeRequest
    BY <1>1, <1>8 DEF Send, ReportError, SendMissingFile, Report, RegisterCleanup, FreeResponse, RunCleanup, FreeRequest
  <1>9. QED
    BY <1>2, <1>3, <1>4, <1>5, <1>6, <1>7, <1>8 DEF Next, RouterStep, HandlerStep

\* The other variables keep their types.
LEMMA TypeKept ==
    ASSUME IInv, Next
    PROVE  TypeOK'
  <1>1. TypeOK /\ stack' \in Seq(Frames) /\ RouterAssumption
    BY StackKept, RouterAssumption DEF IInv
  <1>2. UserCode \/ Running("chain") \/ Running("handler") \/ Running("error") =>
           Top.call \in Calls /\ Top.r \in Routers
    BY <1>1, TopFacts, FrameFacts DEF TypeOK, UserCode, Running
  <1>3. ASSUME NEW what \in Errors \cup {"handler"}, Respond(what)
        PROVE  didSend' \in BOOLEAN /\ answers' \in Seq(Errors \cup {"handler"})
    BY <1>1, <1>3 DEF Respond, TypeOK
  <1>4. CASE PassBy \/ EnterRouter \/ VisitRouter \/ NextInChain \/ NextErrorHandler \/ Return
    BY <1>1, <1>4 DEF PassBy, EnterRouter, VisitRouter, NextInChain, NextErrorHandler, Return,
                      TypeOK, request, history
  <1>5. CASE LeaveRouter \/ ReturnInChain
    <2>1. Top.r \in Routers /\ asked' \in Routers \cup {Nobody}
      <3>1. Top.r \in Routers /\ asked \in Routers \cup {Nobody}
        BY <1>1, <1>2, <1>5 DEF LeaveRouter, ReturnInChain, TypeOK
      <3>2. \A e : LET calls == RunErrorHandlers(e, Top.r, 1)
                   IN  calls # <<>> => calls[1].r = Top.r
        BY <3>1, NewFrame DEF RunErrorHandlers, Calls
      <3>3. QED
        BY <1>5, <3>1, <3>2 DEF LeaveRouter, ReturnInChain, Ask
    <2>2. QED
      BY <1>1, <1>5, <2>1 DEF LeaveRouter, ReturnInChain, TypeOK, request, Errors
  <1>6. CASE Send
    BY <1>1, <1>3, <1>6 DEF Send, Speak, TypeOK, request
  <1>7. CASE DefaultErrorHandler
    <2>1. stack # <<>> /\ Top.call = "error" /\ Respond(err)
      BY <1>7 DEF DefaultErrorHandler, Running
    <2>2. err # Nobody
      <3>1. Top = stack[Len(stack)] /\ Len(stack) \in 1..Len(stack)
        BY <1>1, <2>1, TopFacts DEF TypeOK
      <3>2. Fits(Len(stack), Top, err)
        BY <3>1 DEF IInv, StackFits
      <3>3. QED
        BY <2>1, <3>2 DEF Fits
    <2>3. err \in Errors \cup {"handler"}
      BY <1>1, <2>2 DEF TypeOK
    <2>4. QED
      BY <1>1, <1>3, <1>7, <2>1, <2>3 DEF DefaultErrorHandler, TypeOK, request
  <1>8. CASE ReportError \/ SendMissingFile
    <2>1. PICK e \in Errors : Report(e)
      BY <1>8 DEF ReportError, SendMissingFile, Errors
    <2>2. <<Top.call, Top.r>> \in Calls \X Routers
      BY <1>2, <1>8 DEF ReportError, SendMissingFile
    <2>3. QED
      BY <1>1, <2>1, <2>2 DEF Report, Speak, TypeOK, request
  <1>9. CASE RegisterCleanup
    <2>1. Append(blocks, Top.r) \in Seq(Routers) /\ Len(Append(blocks, Top.r)) = Len(blocks) + 1
      BY <1>1, <1>2, <1>9 DEF RegisterCleanup, TypeOK
    <2>2. blocks' \in Seq(Routers) /\ Len(blocks') <= MaxCleanups /\ ran' \in 0..Len(blocks')
      <3>1. ran \in 0..Len(blocks) /\ blocks \in Seq(Routers)
        BY <1>1 DEF TypeOK
      <3>2. blocks' = Append(blocks, Top.r) /\ ran' = ran /\ Len(blocks) < MaxCleanups
        BY <1>9 DEF RegisterCleanup
      <3>3. Len(blocks) \in Nat /\ MaxCleanups \in Nat
        BY <3>1, RouterAssumption
      <3>4. Len(blocks') = Len(blocks) + 1 /\ blocks' \in Seq(Routers)
        BY <2>1, <3>2
      <3>5. Len(blocks') <= MaxCleanups
        BY <3>2, <3>3, <3>4
      <3>6. QED
        BY <3>1, <3>2, <3>3, <3>4, <3>5
    <2>3. QED
      BY <1>1, <1>9, <2>2 DEF RegisterCleanup, TypeOK, request, history
  <1>10. CASE FreeResponse \/ FreeRequest
    BY <1>1, <1>10 DEF FreeResponse, FreeRequest, TypeOK, request, history
  <1>11. CASE RunCleanup
    <2>1. ran + 1 \in 0..Len(blocks)
      <3>1. blocks \in Seq(Routers) /\ ran \in 0..Len(blocks) /\ ran < Len(blocks)
        BY <1>1, <1>11 DEF RunCleanup, TypeOK
      <3>2. Len(blocks) \in Nat
        BY <3>1
      <3>3. QED
        BY <3>1, <3>2
    <2>2. QED
      BY <1>1, <1>11, <2>1 DEF RunCleanup, TypeOK, request, history
  <1>12. QED
    BY <1>4, <1>5, <1>6, <1>7, <1>8, <1>9, <1>10, <1>11 DEF Next, RouterStep, HandlerStep

\* Each call fits its place.
LEMMA FitsKept ==
    ASSUME IInv, Next
    PROVE  StackFits'
  <1>1. /\ stack \in Seq(Frames) /\ StackFits /\ matches'[Base]
        /\ Len(stack) \in Nat
    <2>1. matches' = matches
      BY DEF Next, RouterStep, HandlerStep, PassBy, EnterRouter, VisitRouter, LeaveRouter,
             Send, ReportError, SendMissingFile, Report, RegisterCleanup, NextInChain,
             NextErrorHandler, ReturnInChain, Return, DefaultErrorHandler, FreeResponse, RunCleanup, FreeRequest, request
    <2>2. QED
      BY <2>1 DEF IInv, TypeOK, StackFits
  <1>2. err # Nobody => err' # Nobody
    <2>1. CASE ReportError \/ SendMissingFile
      BY <2>1, RouterAssumption DEF ReportError, SendMissingFile, Report, Errors
    <2>2. CASE LeaveRouter
      BY <2>2, RouterAssumption DEF LeaveRouter
    <2>3. CASE err' = err
      BY <2>3
    <2>4. QED
      BY <2>1, <2>2, <2>3
         DEF Next, RouterStep, HandlerStep, PassBy, EnterRouter, VisitRouter, Send,
             RegisterCleanup, NextInChain, NextErrorHandler, ReturnInChain,
             Return, DefaultErrorHandler, FreeResponse, RunCleanup, FreeRequest
  <1>3. \A k \in 1..Len(stack) : Fits(k, stack[k], err')
    BY <1>1, <1>2 DEF StackFits, Fits
  <1>4. stack # <<>> => /\ Top \in Frames /\ Top = stack[Len(stack)] /\ Len(stack) >= 1
                        /\ Top.r \in Routers /\ Top.i \in Nat /\ ChainLength(Top.r) \in Nat
                        /\ Fits(Len(stack), Top, err')
    BY <1>1, <1>3, TopFacts, FrameFacts, ChainLengthType
  <1>5. ASSUME stack # <<>>, Popped(stack, stack')
        PROVE  StackFits'
    <2>1. /\ Len(stack') \in Nat /\ Len(stack') = Len(stack) - 1
          /\ \A k \in 1..Len(stack') : stack'[k] = stack[k]
      BY <1>5 DEF Popped
    <2>2. \A k \in 1..Len(stack') : k \in 1..Len(stack)
      BY <1>1, <2>1
    <2>3. \A k \in 1..Len(stack') : Fits(k, stack'[k], err')
      BY <1>3, <2>1, <2>2
    <2>4. Len(stack') >= 2 => Len(stack) >= 2 /\ stack'[1] = stack[1]
      BY <1>1, <2>1
    <2>5. Len(stack') >= 2 => stack'[1].call = "handler"
      BY <1>1, <2>4 DEF StackFits
    <2>6. QED
      BY <1>1, <2>3, <2>5 DEF StackFits, Fits
  <1>6. ASSUME stack # <<>>, NEW f \in Frames, Swapped(stack, stack', f),
               Fits(Len(stack), f, err')
        PROVE  StackFits'
    BY <1>1, <1>3, <1>4, <1>6 DEF Swapped, StackFits
  <1>7. ASSUME stack # <<>>, NEW f \in Frames, NEW g \in Frames, Called(stack, stack', f, g),
               Fits(Len(stack), f, err'), Fits(Len(stack) + 1, g, err'),
               Len(stack) = 1 => f.call = "handler"
        PROVE  StackFits'
    <2>1. Len(stack') = Len(stack) + 1 /\ Len(stack) >= 1
      BY <1>4, <1>7 DEF Called
    <2>2. ASSUME NEW k \in 1..Len(stack')
          PROVE  Fits(k, stack'[k], err')
      <3>1. k \in 1..(Len(stack) - 1) \/ k = Len(stack) \/ k = Len(stack) + 1
        BY <1>1, <2>1
      <3>2. k \in 1..(Len(stack) - 1) => k \in 1..Len(stack) /\ stack'[k] = stack[k]
        BY <1>1, <1>7 DEF Called
      <3>3. QED
        BY <1>3, <1>7, <3>1, <3>2 DEF Called
    <2>3. stack'[1].call = "handler"
      <3>1. CASE Len(stack) = 1
        BY <1>7, <3>1 DEF Called
      <3>2. CASE Len(stack) >= 2
        <4>1. 1 \in 1..(Len(stack) - 1)
          BY <1>1, <3>2
        <4>2. QED
          BY <1>1, <1>7, <3>2, <4>1 DEF Called, StackFits
      <3>3. Len(stack) = 1 \/ Len(stack) >= 2
        <4>1. \A n \in Nat : n >= 1 => n = 1 \/ n >= 2
          OBVIOUS
        <4>2. QED
          BY <1>1, <2>1, <4>1
      <3>4. QED
        BY <3>1, <3>2, <3>3
    <2>4. QED
      BY <1>1, <2>2, <2>3 DEF StackFits
  <1>8. CASE PassBy \/ Return \/ DefaultErrorHandler
    BY <1>1, <1>5, <1>8, PassByPops
  <1>9. CASE EnterRouter
    <2>1. PICK f \in Frames :
             /\ Continues(f)
             /\ \/ Swapped(stack, stack', f)
                \/ \E g \in Frames : Called(stack, stack', f, g) /\ InChain(g, Top.r, 1)
      BY <1>1, <1>9, EnterRouterCalls
    <2>2. stack # <<>> /\ Top.call = "handler"
      BY <1>1, <1>9, EnterRouterCalls
    <2>3. f.call = "handler" /\ Fits(Len(stack), f, err')
      BY <1>4, <2>1, <2>2 DEF Continues, Fits, Default
    <2>4. \A g \in Frames : InChain(g, Top.r, 1) => Fits(Len(stack) + 1, g, err')
      BY <1>4, <2>2 DEF InChain, Fits
    <2>5. QED
      BY <1>6, <1>7, <2>1, <2>2, <2>3, <2>4
  <1>10. CASE VisitRouter
    <2>1. PICK f \in Frames, g \in Frames :
             /\ Continues(f) /\ Called(stack, stack', f, g)
             /\ g.call = "handler" /\ g.r # Base
      BY <1>1, <1>10, VisitRouterCalls
    <2>2. stack # <<>> /\ Top.call = "handler"
      BY <1>1, <1>10, VisitRouterCalls
    <2>3. f.call = "handler" /\ Fits(Len(stack), f, err')
      BY <1>4, <2>1, <2>2 DEF Continues, Fits, Default
    <2>4. Fits(Len(stack) + 1, g, err')
      BY <1>4, <2>1, <2>2 DEF Fits
    <2>5. QED
      BY <1>7, <2>1, <2>2, <2>3, <2>4
  <1>11. CASE LeaveRouter \/ ReturnInChain
    <2>1. stack # <<>> /\ Top.call \in {"handler", "chain"}
      BY <1>11 DEF LeaveRouter, ReturnInChain, Running
    <2>2. \A g \in Frames : Handles(g, Top.r, 1) /\ err' # Nobody => Fits(Len(stack), g, err')
      BY <1>4, <2>1 DEF Handles, Fits, Default
    <2>3. QED
      BY <1>1, <1>5, <1>6, <1>11, <2>1, <2>2, ErrorHandlersReplace DEF Handles
  <1>12. CASE NextInChain
    <2>1. PICK f \in Frames :
             /\ Continues(f) /\ f.i = Top.i
             /\ \/ Swapped(stack, stack', f)
                \/ \E g \in Frames : Called(stack, stack', f, g) /\ InChain(g, Top.r, Top.i + 1)
      BY <1>1, <1>12, NextInChainCalls
    <2>2. stack # <<>> /\ Top.call = "chain"
      BY <1>1, <1>12, NextInChainCalls
    <2>3. Fits(Len(stack), f, err') /\ Len(stack) # 1
      BY <1>4, <2>1, <2>2 DEF Continues, Fits, Default
    <2>4. \A g \in Frames : InChain(g, Top.r, Top.i + 1) => Fits(Len(stack) + 1, g, err')
      BY <1>4, <2>2 DEF InChain, Fits
    <2>5. QED
      BY <1>6, <1>7, <2>1, <2>2, <2>3, <2>4
  <1>13. CASE NextErrorHandler
    <2>1. PICK f \in Frames :
             /\ Continues(f) /\ f.i = Top.i
             /\ \/ Swapped(stack, stack', f)
                \/ \E g \in Frames : /\ Called(stack, stack', f, g)
                                     /\ err # Nobody /\ Handles(g, Top.r, Top.i + 1)
      BY <1>1, <1>13, NextErrorHandlerCalls
    <2>2. stack # <<>> /\ Top.call = "error" /\ ~Default(Top)
      BY <1>1, <1>13, NextErrorHandlerCalls DEF NextErrorHandler
    <2>3. Fits(Len(stack), f, err') /\ Len(stack) # 1
      BY <1>4, <2>1, <2>2 DEF Continues, Fits, Default
    <2>4. \A g \in Frames : Handles(g, Top.r, Top.i + 1) /\ err # Nobody => Fits(Len(stack) + 1, g, err')
      BY <1>2, <1>4, <2>2 DEF Handles, Fits
    <2>5. QED
      BY <1>6, <1>7, <2>1, <2>2, <2>3, <2>4
  <1>14. CASE Send \/ ReportError \/ SendMissingFile \/ RegisterCleanup \/ FreeResponse \/ RunCleanup \/ FreeRequest
    <2>1. stack' = stack
      BY <1>14 DEF Send, ReportError, SendMissingFile, Report, RegisterCleanup, FreeResponse, RunCleanup, FreeRequest
    <2>2. QED
      BY <1>1, <1>3, <2>1 DEF StackFits
  <1>15. QED
    BY <1>8, <1>9, <1>10, <1>11, <1>12, <1>13, <1>14 DEF Next, RouterStep, HandlerStep

\* The stack runs empty after an answer only.
LEMMA SentKept ==
    ASSUME IInv, Next
    PROVE  Sent'
  <1>1. stack \in Seq(Frames) /\ StackFits /\ Sent /\ Len(stack) \in Nat
    BY DEF IInv, TypeOK
  <1>2. didSend => didSend'
    BY DEF Next, RouterStep, HandlerStep, PassBy, EnterRouter, VisitRouter, LeaveRouter,
           Send, ReportError, SendMissingFile, Report, RegisterCleanup, NextInChain,
           NextErrorHandler, ReturnInChain, Return, DefaultErrorHandler, FreeResponse, RunCleanup, FreeRequest, Respond
  <1>3. stack # <<>> => Top = stack[Len(stack)] /\ Len(stack) >= 1 /\ Fits(Len(stack), Top, err)
    BY <1>1, TopFacts DEF StackFits
  <1>4. \A t \in Seq(Frames) : t = <<>> <=> Len(t) = 0
    BY EmptySeq
  <1>5. stack = <<>> => didSend'
    BY <1>1, <1>2 DEF Sent
  <1>6. CASE FreeResponse \/ RunCleanup \/ FreeRequest
    BY <1>1, <1>5, <1>6 DEF FreeResponse, RunCleanup, FreeRequest, Sent
  <1>7. CASE RouterStep \/ HandlerStep
    <2>1. stack # <<>> /\ phase = "handling" /\ phase' = phase /\ ran' = ran
      BY <1>7 DEF RouterStep, HandlerStep, PassBy, EnterRouter, VisitRouter, LeaveRouter,
           Send, ReportError, SendMissingFile, Report, RegisterCleanup, NextInChain,
           NextErrorHandler, ReturnInChain, Return, DefaultErrorHandler, Running, UserCode
    <2>2. ASSUME Len(stack) = 1, Popped(stack, stack'), stack' = <<>>
          PROVE  didSend'
      <3>1. (Top.call = "handler" /\ Top.r = Base) \/ Default(Top)
        BY <1>3, <2>1, <2>2 DEF Fits
      <3>2. CASE PassBy
        BY <1>1, <3>1, <3>2 DEF PassBy, Running, StackFits, Default
      <3>3. CASE LeaveRouter \/ ReturnInChain
        <4>1. LeaveRouter /\ Top.r = Base
          BY <3>1, <3>3 DEF LeaveRouter, ReturnInChain, Running, Default
        <4>2. stack' # stack /\ ~(\E g \in Frames : Swapped(stack, stack', g))
          BY <2>1, <2>2 DEF Swapped
        <4>3. err' = Nobody \/ ~(1 <= ErrorHandlers[Base])
          BY <1>1, <3>3, <4>1, <4>2, ErrorHandlersReplace
        <4>4. 1 <= ErrorHandlers[Base]
          BY RouterAssumption
        <4>5. err' = Nobody /\ (~didSend => err' # Nobody)
          BY <4>1, <4>3, <4>4, RouterAssumption DEF LeaveRouter
        <4>6. QED
          BY <1>2, <4>5
      <3>4. CASE Return
        BY <3>1, <3>4 DEF Return, Running, Default
      <3>5. CASE DefaultErrorHandler
        BY <3>5 DEF DefaultErrorHandler, Respond
      <3>6. CASE EnterRouter \/ VisitRouter \/ NextInChain \/ NextErrorHandler
        BY <1>1, <1>4, <2>2, <3>6, EnterRouterCalls, VisitRouterCalls, NextInChainCalls,
           NextErrorHandlerCalls DEF Swapped, Called
      <3>7. CASE Send \/ ReportError \/ SendMissingFile \/ RegisterCleanup
        BY <2>1, <2>2, <3>7 DEF Send, ReportError, SendMissingFile, Report, RegisterCleanup
      <3>8. QED
        BY <1>7, <3>2, <3>3, <3>4, <3>5, <3>6, <3>7 DEF RouterStep, HandlerStep
    <2>3. ASSUME stack' = <<>>
          PROVE  Len(stack) = 1 /\ Popped(stack, stack')
      <3>1. stack' \in Seq(Frames) /\ Len(stack') = 0
        BY <2>3
      <3>2. CASE PassBy \/ Return \/ DefaultErrorHandler
        BY <1>1, <3>1, <3>2, PassByPops DEF Popped
      <3>3. CASE LeaveRouter \/ ReturnInChain
        BY <1>1, <1>3, <3>1, <3>3, ErrorHandlersReplace DEF Popped, Swapped
      <3>4. CASE EnterRouter
        BY <1>1, <1>3, <3>1, <3>4, EnterRouterCalls DEF Swapped, Called
      <3>5. CASE VisitRouter
        BY <1>1, <1>3, <3>1, <3>5, VisitRouterCalls DEF Called
      <3>6. CASE NextInChain
        BY <1>1, <1>3, <3>1, <3>6, NextInChainCalls DEF Swapped, Called
      <3>7. CASE NextErrorHandler
        BY <1>1, <1>3, <3>1, <3>7, NextErrorHandlerCalls DEF Swapped, Called
      <3>8. CASE Send \/ ReportError \/ SendMissingFile \/ RegisterCleanup
        BY <2>1, <2>3, <3>8 DEF Send, ReportError, SendMissingFile, Report, RegisterCleanup
      <3>9. QED
        BY <1>7, <3>2, <3>3, <3>4, <3>5, <3>6, <3>7, <3>8 DEF RouterStep, HandlerStep
    <2>4. QED
      BY <1>1, <2>1, <2>2, <2>3 DEF Sent
  <1>8. QED
    BY <1>6, <1>7 DEF Next

\* What is answered is the handlers' last word.
LEMMA AnsweredKept ==
    ASSUME IInv, Next
    PROVE  Answered'
  <1>1. /\ stack \in Seq(Frames) /\ StackFits /\ Answered
        /\ answers \in Seq(Errors \cup {"handler"}) /\ didSend \in BOOLEAN
        /\ err \in Errors \cup {Nobody}
    BY DEF IInv, TypeOK
  <1>2. stack # <<>> => Fits(Len(stack), Top, err)
    BY <1>1, TopFacts DEF StackFits
  <1>3. ~didSend => answers = <<>>
    BY <1>1, EmptySeq DEF Answered
  <1>4. ASSUME NEW what, Respond(what), didSend => spoke' = spoke,
               ~didSend => what = Page'
        PROVE  Answered'
    <2>1. CASE didSend
      <3>1. didSend' /\ answers' = answers /\ Page' = Page
        BY <1>4, <2>1 DEF Respond, Page
      <3>2. QED
        BY <1>1, <2>1, <3>1 DEF Answered
    <2>2. CASE ~didSend
      <3>1. answers' = Append(<<>>, what) /\ didSend'
        BY <1>3, <1>4, <2>2 DEF Respond
      <3>2. Append(<<>>, what) = <<what>> /\ Len(<<what>>) = 1
        OBVIOUS
      <3>3. QED
        BY <1>4, <2>2, <3>1, <3>2 DEF Answered
    <2>3. QED
      BY <2>1, <2>2
  <1>5. CASE UNCHANGED <<didSend, err, answers, spoke>>
    BY <1>1, <1>5 DEF Answered, Page
  <1>6. CASE PassBy \/ EnterRouter \/ VisitRouter \/ NextInChain \/ NextErrorHandler \/ Return
             \/ ReturnInChain \/ RegisterCleanup \/ FreeResponse \/ RunCleanup \/ FreeRequest
    BY <1>5, <1>6 DEF PassBy, EnterRouter, VisitRouter, NextInChain, NextErrorHandler, Return,
                ReturnInChain, RegisterCleanup, FreeResponse, RunCleanup, FreeRequest, history
  <1>7. CASE Send
    <2>1. Respond("handler") /\ Speak("handler")
      BY <1>7 DEF Send
    <2>2. ~didSend => Page' = "handler"
      BY <2>1, RouterAssumption DEF Speak, Page
    <2>3. QED
      BY <1>4, <2>1, <2>2 DEF Speak
  <1>8. CASE ReportError \/ SendMissingFile
    <2>1. PICK e \in Errors : Report(e)
      BY <1>8 DEF ReportError, SendMissingFile, Errors
    <2>2. err' = e /\ UNCHANGED <<didSend, answers>> /\ Speak(e)
      BY <2>1 DEF Report
    <2>3. CASE didSend
      BY <1>1, <2>2, <2>3 DEF Speak, Answered, Page
    <2>4. CASE ~didSend
      <3>1. spoke' = e /\ e # Nobody
        BY <2>2, <2>4, RouterAssumption DEF Speak, Errors
      <3>2. QED
        BY <1>1, <2>2, <2>4, <3>1 DEF Answered
    <2>5. QED
      BY <2>3, <2>4
  <1>9. CASE DefaultErrorHandler
    <2>1. stack # <<>> /\ Top.call = "error" /\ Respond(err) /\ spoke' = spoke
      BY <1>9 DEF DefaultErrorHandler, Running
    <2>2. err # Nobody
      BY <1>2, <2>1 DEF Fits
    <2>3. ~didSend => err = Page'
      BY <1>1, <2>1, <2>2 DEF Answered, Page
    <2>4. QED
      BY <1>4, <2>1, <2>3
  <1>10. CASE LeaveRouter
    <2>1. /\ UNCHANGED <<didSend, answers, spoke>>
          /\ err' = IF Top.r = Base /\ ~didSend /\ err = Nobody THEN "404" ELSE err
      BY <1>10 DEF LeaveRouter
    <2>2. QED
      BY <1>1, <2>1 DEF Answered, Page
  <1>11. QED
    BY <1>6, <1>7, <1>8, <1>9, <1>10 DEF Next, RouterStep, HandlerStep

\* The invariant is inductive.
LEMMA StepInv == IInv /\ [Next]_vars => IInv'
  <1>1. ASSUME IInv, UNCHANGED vars PROVE IInv'
    BY <1>1 DEF vars, request, history, IInv, TypeOK, StackFits, Fits, Sent, Answered, Page
  <1>2. QED
    BY <1>1, TypeKept, FitsKept, SentKept, AnsweredKept DEF IInv

-----------------------------------------------------------------------------
(* The theorems on types and answers. *)

\* The inductive invariant holds in every reachable state.
THEOREM DispatchInvariant == Spec => []IInv
  <1>1. QED
    BY InitInv, StepInv, PTL DEF Spec

\* The variables keep their types.
THEOREM DispatchTypeOK == Spec => []TypeOK
  <1>1. IInv => TypeOK
    BY DEF IInv
  <1>2. QED
    BY <1>1, DispatchInvariant, PTL

\* The client gets what a handler sent, else the page of the handlers' last
\* error, and the app's own 404 only after none of them said anything.
THEOREM DispatchAnsweredByTheLastWord == Spec => []AnsweredByTheLastWord
  <1>1. ASSUME IInv, phase = "freed"
        PROVE  answers = <<Page>>
    BY <1>1 DEF IInv, Sent, Answered
  <1>2. IInv => AnsweredByTheLastWord
    BY <1>1 DEF AnsweredByTheLastWord, Page
  <1>3. QED
    BY <1>2, DispatchInvariant, PTL

-----------------------------------------------------------------------------
(* The order of the chain. *)

Position(f) == IF f.call = "route" THEN ChainLength(f.r) + 1 ELSE f.i

\* The calls before position k are the rest of its chain, in order.
InOrder(s, k) ==
    LET p == Position(s[k]) IN
    s[k].call \in {"chain", "route"} =>
        /\ p \in 1..k
        /\ \A j \in 1..(p - 1) :
              /\ s[k - p + j].call = "chain" /\ s[k - p + j].r = s[k].r /\ s[k - p + j].i = j

Ordered == \A k \in 1..Len(stack) : InOrder(stack, k)

\* A position depends on the calls up to it only.
LEMMA InOrderPrefix ==
    ASSUME NEW s \in Seq(Frames), NEW t \in Seq(Frames), NEW k \in Nat, k >= 1,
           \A m \in 1..k : t[m] = s[m], InOrder(s, k)
    PROVE  InOrder(t, k)
  <1>1. t[k] = s[k]
    OBVIOUS
  <1>2. SUFFICES ASSUME s[k].call \in {"chain", "route"}
                 PROVE  InOrder(t, k)
    BY <1>1 DEF InOrder
  <1> DEFINE p == Position(s[k])
  <1>3. /\ p \in 1..k /\ Position(t[k]) = p
        /\ \A j \in 1..(p - 1) :
              s[k - p + j].call = "chain" /\ s[k - p + j].r = s[k].r /\ s[k - p + j].i = j
    BY <1>1, <1>2 DEF InOrder
  <1> HIDE DEF p
  <1>4. \A j \in 1..(p - 1) : k - p + j \in 1..k
    BY <1>3
  <1>5. \A j \in 1..(p - 1) : t[k - p + j] = s[k - p + j]
    BY <1>4
  <1>6. \A j \in 1..(p - 1) :
           t[k - p + j].call = "chain" /\ t[k - p + j].r = t[k].r /\ t[k - p + j].i = j
    BY <1>1, <1>3, <1>5
  <1>7. QED
    BY <1>3, <1>6 DEF InOrder

\* A step keeps the order of the calls below the running one.
LEMMA OrderBelow ==
    ASSUME IInv, Ordered, NEW t \in Seq(Frames), NEW n \in Nat, n <= Len(stack),
           \A m \in 1..n : t[m] = stack[m]
    PROVE  \A k \in 1..n : InOrder(t, k)
  <1> SUFFICES ASSUME NEW k \in 1..n PROVE InOrder(t, k)
    OBVIOUS
  <1>1. stack \in Seq(Frames) /\ k \in Nat /\ k >= 1 /\ k \in 1..Len(stack)
    BY DEF IInv, TypeOK
  <1>2. \A m \in 1..k : m \in 1..n
    OBVIOUS
  <1>3. \A m \in 1..k : t[m] = stack[m]
    BY <1>2
  <1>4. InOrder(stack, k)
    BY <1>1 DEF Ordered
  <1>5. QED
    BY <1>1, <1>3, <1>4, InOrderPrefix

\* A call that is not of a chain is in order anywhere, and so is one that goes
\* on at its position.
LEMMA ContinuesInOrder ==
    ASSUME IInv, Ordered, stack # <<>>, NEW f \in Frames, NEW t \in Seq(Frames),
           Len(stack) <= Len(t), t[Len(stack)] = f, \A m \in 1..(Len(stack) - 1) : t[m] = stack[m],
           \/ f.call \in {"handler", "error"}
           \/ Continues(f) /\ f.i = Top.i
    PROVE  InOrder(t, Len(stack))
  <1>1. CASE f.call \in {"handler", "error"}
    BY <1>1 DEF InOrder
  <1>2. CASE Continues(f) /\ f.i = Top.i
    <2>1. stack \in Seq(Frames) /\ Len(stack) \in Nat /\ Len(stack) >= 1 /\ Top = stack[Len(stack)]
      BY TopFacts DEF IInv, TypeOK
    <2>2. InOrder(stack, Len(stack))
      BY <2>1 DEF Ordered
    <2>3. Position(f) = Position(Top) /\ f.r = Top.r /\ f.call = Top.call
      BY <1>2 DEF Continues, Position
    <2> DEFINE p == Position(Top)
               n == Len(stack)
    <2>4. CASE Top.call \in {"chain", "route"}
      <3>1. /\ p \in 1..n
            /\ \A j \in 1..(p - 1) :
                 stack[n - p + j].call = "chain" /\ stack[n - p + j].r = Top.r /\ stack[n - p + j].i = j
        BY <2>1, <2>2, <2>4 DEF InOrder
      <3>2. n \in Nat /\ t[n] = f /\ Position(t[n]) = p
            /\ \A m \in 1..(n - 1) : t[m] = stack[m]
        BY <2>1, <2>3
      <3> HIDE DEF p, n
      <3>3. \A j \in 1..(p - 1) : n - p + j \in 1..(n - 1)
        BY <3>1, <3>2
      <3>4. \A j \in 1..(p - 1) : t[n - p + j] = stack[n - p + j]
        BY <3>2, <3>3
      <3>5. \A j \in 1..(p - 1) :
              t[n - p + j].call = "chain" /\ t[n - p + j].r = f.r /\ t[n - p + j].i = j
        BY <2>3, <3>1, <3>4, Zenon
      <3>6. InOrder(t, n)
        BY <3>1, <3>2, <3>5 DEF InOrder
      <3>7. QED
        BY <3>6 DEF n
    <2>5. CASE Top.call \notin {"chain", "route"}
      BY <2>3, <2>5 DEF InOrder
    <2>6. QED
      BY <2>4, <2>5
  <1>3. QED
    BY <1>1, <1>2

\* A step of any kind keeps the calls in order.
LEMMA PoppedInOrder ==
    ASSUME IInv, Ordered, stack # <<>>, Popped(stack, stack')
    PROVE  Ordered'
  <1>1. stack' \in Seq(Frames) /\ Len(stack') \in Nat /\ Len(stack') <= Len(stack)
        /\ \A m \in 1..Len(stack') : stack'[m] = stack[m]
    <2>1. stack \in Seq(Frames)
      BY DEF IInv, TypeOK
    <2>2. QED
      BY <2>1, TopFacts DEF Popped
  <1>2. \A k \in 1..Len(stack') : InOrder(stack', k)
    BY <1>1, OrderBelow
  <1>3. QED
    BY <1>2 DEF Ordered, InOrder, Position, ChainLength

\* Another call in the place of the running one, of no chain or at its position.
LEMMA SwappedInOrder ==
    ASSUME IInv, Ordered, stack # <<>>, NEW f \in Frames, Swapped(stack, stack', f),
           \/ f.call \in {"handler", "error"}
           \/ Continues(f) /\ f.i = Top.i
    PROVE  Ordered'
  <1>1. Len(stack) \in Nat /\ Len(stack) >= 1 /\ Len(stack) - 1 \in Nat
    BY TopFacts DEF IInv, TypeOK
  <1>2. stack' \in Seq(Frames) /\ Len(stack') = Len(stack) /\ stack'[Len(stack)] = f
        /\ \A m \in 1..(Len(stack) - 1) : stack'[m] = stack[m]
    BY DEF Swapped
  <1>3. \A k \in 1..(Len(stack) - 1) : InOrder(stack', k)
    <2> DEFINE b == Len(stack) - 1
    <2>1. b \in Nat /\ b <= Len(stack) /\ \A m \in 1..b : stack'[m] = stack[m]
      BY <1>1, <1>2
    <2> HIDE DEF b
    <2>2. \A k \in 1..b : InOrder(stack', k)
      BY <1>2, <2>1, OrderBelow
    <2>3. QED
      BY <2>2 DEF b
  <1>4. InOrder(stack', Len(stack))
    BY <1>1, <1>2, ContinuesInOrder
  <1>5. \A k \in 1..Len(stack') : InOrder(stack', k)
    BY <1>1, <1>2, <1>3, <1>4
  <1>6. QED
    BY <1>5 DEF Ordered, InOrder, Position, ChainLength

\* The call that was made is in order: not of a chain, the first of a chain, or
\* the next one after the running call.
LEMMA CalledInOrder ==
    ASSUME IInv, Ordered, stack # <<>>, NEW f \in Frames, NEW g \in Frames,
           Called(stack, stack', f, g),
           \/ f.call \in {"handler", "error"}
           \/ Continues(f) /\ f.i = Top.i,
           \/ g.call \in {"handler", "error"}
           \/ InChain(g, Top.r, 1)
           \/ Top.call = "chain" /\ Continues(f) /\ f.i = Top.i /\ InChain(g, Top.r, Top.i + 1)
    PROVE  Ordered'
  <1> DEFINE n == Len(stack)
  <1>1. n \in Nat /\ n >= 1 /\ n - 1 \in Nat /\ Top \in Frames /\ Top.r \in Routers /\ Top = stack[n]
        /\ ChainLength(Top.r) \in Nat /\ stack \in Seq(Frames) /\ Top.i \in Nat
    BY TopFacts, FrameFacts, ChainLengthType DEF IInv, TypeOK
  <1>2. stack' \in Seq(Frames) /\ Len(stack') = n + 1 /\ stack'[n] = f /\ stack'[n + 1] = g
        /\ \A m \in 1..(n - 1) : stack'[m] = stack[m]
    BY DEF Called
  <1>3. \A k \in 1..(n - 1) : InOrder(stack', k)
    <2> DEFINE b == n - 1
    <2>1. b \in Nat /\ b <= Len(stack) /\ \A m \in 1..b : stack'[m] = stack[m]
      BY <1>1, <1>2
    <2> HIDE DEF b
    <2>2. \A k \in 1..b : InOrder(stack', k)
      BY <1>2, <2>1, OrderBelow
    <2>3. QED
      BY <2>2 DEF b
  <1>4. InOrder(stack', n)
    BY <1>1, <1>2, ContinuesInOrder
  <1>5. InOrder(stack', n + 1)
    <2>1. CASE g.call \in {"handler", "error"}
      BY <1>2, <2>1 DEF InOrder
    <2>2. CASE InChain(g, Top.r, 1)
      <3>1. Position(g) = 1
        BY <1>1, <2>2 DEF InChain, Position
      <3>2. QED
        BY <1>1, <1>2, <3>1 DEF InOrder
    <2>3. CASE Top.call = "chain" /\ Continues(f) /\ f.i = Top.i /\ InChain(g, Top.r, Top.i + 1)
      <3> DEFINE p == Top.i
      <3>1. Fits(n, Top, err) /\ p >= 1 /\ p <= ChainLength(Top.r)
        BY <1>1, <2>3 DEF IInv, StackFits, Fits
      <3>2. Position(g) = p + 1 /\ g.r = Top.r
        BY <1>1, <2>3, <3>1 DEF InChain, Position
      <3>3. p \in 1..n /\ \A j \in 1..(p - 1) :
               stack[n - p + j].call = "chain" /\ stack[n - p + j].r = Top.r /\ stack[n - p + j].i = j
        BY <1>1, <2>3 DEF Ordered, InOrder, Position
      <3>4. f.call = "chain" /\ f.r = Top.r /\ f.i = p
        BY <2>3 DEF Continues
      <3> HIDE DEF n, p
      <3>5. ASSUME NEW j \in 1..p
            PROVE  LET h == stack'[(n + 1) - (p + 1) + j]
                   IN  h.call = "chain" /\ h.r = Top.r /\ h.i = j
        <4>1. (n + 1) - (p + 1) + j = n - p + j /\ n - p + j \in 1..n
          BY <1>1, <3>3
        <4>2. CASE j = p
          <5>1. n - p + j = n
            BY <1>1, <3>3, <4>2
          <5>2. QED
            BY <1>2, <3>4, <4>1, <4>2, <5>1
        <4>3. CASE j # p
          <5>1. j \in 1..(p - 1) /\ n - p + j \in 1..(n - 1)
            BY <1>1, <3>3, <4>3
          <5>2. stack'[n - p + j] = stack[n - p + j]
            BY <1>2, <5>1
          <5>3. QED
            BY <3>3, <4>1, <5>1, <5>2
        <4>4. QED
          BY <4>2, <4>3
      <3>6. p + 1 \in 1..(n + 1) /\ (p + 1) - 1 = p
        BY <1>1, <3>3
      <3>7. QED
        BY <1>2, <3>2, <3>5, <3>6 DEF InOrder
    <2>4. QED
      BY <2>1, <2>2, <2>3
  <1>6. \A k \in 1..Len(stack') : InOrder(stack', k)
    <2>1. \A k \in 1..(n + 1) : k \in 1..(n - 1) \/ k = n \/ k = n + 1
      BY <1>1
    <2>2. QED
      BY <1>2, <1>3, <1>4, <1>5, <2>1
  <1>7. QED
    BY <1>6 DEF Ordered, InOrder, Position, ChainLength

\* The calls stay in order.
LEMMA OrderKept == IInv /\ Ordered /\ [Next]_vars => Ordered'
  <1> SUFFICES ASSUME IInv, Ordered, [Next]_vars PROVE Ordered'
    OBVIOUS
  <1>1. stack \in Seq(Frames)
    BY DEF IInv, TypeOK
  <1>2. CASE stack' = stack
    BY <1>2 DEF Ordered, InOrder, Position, ChainLength
  <1>3. CASE PassBy \/ Return \/ DefaultErrorHandler
    BY <1>1, <1>3, PassByPops, PoppedInOrder
  <1>4. CASE EnterRouter
    <2>1. PICK f \in Frames :
             /\ Continues(f)
             /\ \/ Swapped(stack, stack', f)
                \/ \E g \in Frames : Called(stack, stack', f, g) /\ InChain(g, Top.r, 1)
      BY <1>1, <1>4, EnterRouterCalls
    <2>2. stack # <<>> /\ f.call = "handler"
      BY <1>1, <1>4, <2>1, EnterRouterCalls DEF Continues
    <2>3. QED
      BY <2>1, <2>2, SwappedInOrder, CalledInOrder
  <1>5. CASE VisitRouter
    <2>1. PICK f \in Frames, g \in Frames :
             /\ Continues(f) /\ Called(stack, stack', f, g)
             /\ g.call = "handler" /\ g.r # Base
      BY <1>1, <1>5, VisitRouterCalls
    <2>2. stack # <<>> /\ f.call = "handler"
      BY <1>1, <1>5, <2>1, VisitRouterCalls DEF Continues
    <2>3. QED
      BY <2>1, <2>2, CalledInOrder
  <1>6. CASE LeaveRouter \/ ReturnInChain
    BY <1>1, <1>6, ErrorHandlersReplace, PoppedInOrder, SwappedInOrder DEF Handles
  <1>7. CASE NextInChain
    <2>1. PICK f \in Frames :
             /\ Continues(f) /\ f.i = Top.i
             /\ \/ Swapped(stack, stack', f)
                \/ \E g \in Frames : Called(stack, stack', f, g) /\ InChain(g, Top.r, Top.i + 1)
      BY <1>1, <1>7, NextInChainCalls
    <2>2. stack # <<>> /\ Top.call = "chain"
      BY <1>1, <1>7, NextInChainCalls
    <2>3. QED
      BY <2>1, <2>2, SwappedInOrder, CalledInOrder
  <1>8. CASE NextErrorHandler
    <2>1. PICK f \in Frames :
             /\ Continues(f) /\ f.i = Top.i
             /\ \/ Swapped(stack, stack', f)
                \/ \E g \in Frames : /\ Called(stack, stack', f, g)
                                     /\ err # Nobody /\ Handles(g, Top.r, Top.i + 1)
      BY <1>1, <1>8, NextErrorHandlerCalls
    <2>2. stack # <<>>
      BY <1>1, <1>8, NextErrorHandlerCalls
    <2>3. QED
      BY <2>1, <2>2, SwappedInOrder, CalledInOrder DEF Handles
  <1>9. CASE Send \/ ReportError \/ SendMissingFile \/ RegisterCleanup \/ FreeResponse \/ RunCleanup \/ FreeRequest
             \/ UNCHANGED vars
    BY <1>2, <1>9 DEF Send, ReportError, SendMissingFile, Report, RegisterCleanup, FreeResponse, RunCleanup, FreeRequest, vars
  <1>10. QED
    BY <1>3, <1>4, <1>5, <1>6, <1>7, <1>8, <1>9 DEF Next, RouterStep, HandlerStep

\* A route runs inside its whole chain, in the order of registration.
THEOREM DispatchChainInOrder == Spec => []ChainInOrder
  <1>1. Init => Ordered
    <2> SUFFICES ASSUME Init PROVE Ordered
      OBVIOUS
    <2> DEFINE f == Frame("handler", Base, 0)
    <2>1. f \in Frames /\ f.call = "handler"
      BY NewFrame, RouterAssumption DEF Calls
    <2> HIDE DEF f
    <2>2. stack = <<f>>
      BY DEF Init, f
    <2>3. Len(stack) = 1 /\ stack[1] = f
      BY <2>1, <2>2
    <2>4. QED
      BY <2>1, <2>3 DEF Ordered, InOrder
  <1>2. Ordered => ChainInOrder
    BY DEF Ordered, InOrder, Position, ChainInOrder
  <1>3. QED
    BY <1>1, <1>2, OrderKept, DispatchInvariant, PTL DEF Spec

-----------------------------------------------------------------------------
(* Whose error handlers run first. *)

\* The reporter's router has error handlers, and a chain that will ask them.
Answerable(c, r) == ErrorHandlers[r] > 0 /\ (c = "chain" \/ ChainLength(r) > 0)

\* Until somebody is asked, a call of the reporter's own chain is running.
OwnChainRuns(r) ==
    /\ stack # <<>> /\ Top.r = r
    /\ Top.call = "chain" \/ (Top.call = "route" /\ ChainLength(r) > 0)

OwnFirst ==
    /\ err = Nobody => reporter = <<>> /\ asked = Nobody
    /\ reporter # <<>> =>
         (Answerable(reporter[1], reporter[2]) =>
            asked = reporter[2] \/ (asked = Nobody /\ OwnChainRuns(reporter[2])))

\* A step that leaves the reporter and the one asked alone, and an own call on
\* top where there was one.
LEMMA OwnUndisturbed ==
    ASSUME OwnFirst, err # Nobody => err' # Nobody, err' = Nobody => asked' = asked,
           reporter' = reporter,
           asked # Nobody => asked' = asked,
           \A r \in Routers : /\ OwnChainRuns(r) /\ ErrorHandlers[r] > 0
                             /\ err # Nobody /\ asked = Nobody =>
                                 asked' = r \/ (asked' = asked /\ OwnChainRuns(r)'),
           reporter \in {<<>>} \cup (Calls \X Routers)
    PROVE  OwnFirst'
  <1>1. ASSUME err' = Nobody PROVE reporter' = <<>> /\ asked' = Nobody
    BY <1>1 DEF OwnFirst
  <1>2. ASSUME reporter # <<>>, Answerable(reporter[1], reporter[2])
        PROVE  asked' = reporter[2] \/ (asked' = Nobody /\ OwnChainRuns(reporter[2])')
    <2>1. reporter[2] \in Routers /\ ErrorHandlers[reporter[2]] > 0 /\ err # Nobody
      BY <1>2 DEF OwnFirst, Answerable
    <2>2. CASE asked = reporter[2]
      BY <2>1, <2>2, RouterAssumption
    <2>3. CASE asked = Nobody /\ OwnChainRuns(reporter[2])
      BY <2>1, <2>3
    <2>4. QED
      BY <1>2, <2>2, <2>3 DEF OwnFirst
  <1>3. QED
    BY <1>1, <1>2 DEF OwnFirst, Answerable, ChainLength

\* Every step keeps the reporter's own error handlers first.
LEMMA OwnKept == IInv /\ Ordered /\ OwnFirst /\ [Next]_vars => OwnFirst'
  <1> SUFFICES ASSUME IInv, Ordered, OwnFirst, [Next]_vars PROVE OwnFirst'
    OBVIOUS
  <1>1. stack \in Seq(Frames) /\ reporter \in {<<>>} \cup (Calls \X Routers)
    BY DEF IInv, TypeOK
  <1>2. stack # <<>> => /\ Top \in Frames /\ Top = stack[Len(stack)] /\ Len(stack) >= 1
                        /\ Len(stack) \in Nat /\ Top.r \in Routers /\ Top.call \in Calls
                        /\ ChainLength(Top.r) \in Nat /\ Fits(Len(stack), Top, err)
                        /\ InOrder(stack, Len(stack))
    BY <1>1, TopFacts, FrameFacts, ChainLengthType DEF IInv, StackFits, Ordered
  <1>3. CASE stack' = stack /\ err' = err /\ reporter' = reporter /\ asked' = asked
    BY <1>3 DEF OwnFirst, Answerable, OwnChainRuns, Top, ChainLength
  <1>4. CASE Send \/ RegisterCleanup \/ FreeResponse \/ RunCleanup \/ FreeRequest \/ UNCHANGED vars
    BY <1>3, <1>4 DEF Send, RegisterCleanup, FreeResponse, RunCleanup, FreeRequest, vars, history
  <1>5. ASSUME stack # <<>>, Top.call \in {"handler", "error"}, err # Nobody => err' # Nobody,
               err' = Nobody => asked' = asked, reporter' = reporter, asked # Nobody => asked' = asked
        PROVE  OwnFirst'
    BY <1>1, <1>5, OwnUndisturbed DEF OwnChainRuns
  <1>6. CASE PassBy \/ EnterRouter \/ VisitRouter \/ NextErrorHandler \/ DefaultErrorHandler
    BY <1>5, <1>6 DEF PassBy, EnterRouter, VisitRouter, NextErrorHandler, DefaultErrorHandler,
                      Running, history
  <1>7. CASE LeaveRouter
    <2>1. stack # <<>> /\ Top.call = "handler" /\ reporter' = reporter
      BY <1>7 DEF LeaveRouter, Running
    <2>2. err # Nobody => err' # Nobody
      BY <1>7, RouterAssumption DEF LeaveRouter
    <2>3. err' = Nobody => asked' = asked
      BY <1>7 DEF LeaveRouter, Ask, RunErrorHandlers
    <2>4. asked # Nobody => asked' = asked
      BY <1>7 DEF LeaveRouter, Ask
    <2>5. QED
      BY <1>5, <2>1, <2>2, <2>3, <2>4
  <1>8. CASE Return
    <2>1. /\ stack # <<>> /\ err' = err /\ reporter' = reporter /\ asked' = asked
          /\ Top.call \in {"route", "error"} /\ Popped(stack, stack')
      BY <1>1, <1>8, PassByPops DEF Return, Running, history
    <2>2. CASE Top.call = "error"
      BY <1>5, <2>1, <2>2
    <2>3. CASE Top.call = "route"
      <3>1. ASSUME NEW r \in Routers, OwnChainRuns(r)
            PROVE  OwnChainRuns(r)'
        <4> DEFINE n == Len(stack)
                   p == ChainLength(r) + 1
        <4>1. Top.r = r /\ ChainLength(r) > 0 /\ ChainLength(r) \in Nat /\ n \in Nat
          BY <1>2, <2>1, <2>3, <3>1 DEF OwnChainRuns
        <4>2. Position(Top) = p
          BY <2>3, <4>1 DEF Position
        <4>3. /\ p \in 1..n
              /\ \A j \in 1..(p - 1) : stack[n - p + j].call = "chain" /\ stack[n - p + j].r = r
          <5>1. InOrder(stack, n) /\ stack[n] = Top
            BY <1>2, <2>1
          <5>2. QED
            BY <2>3, <4>1, <4>2, <5>1 DEF InOrder
        <4>4. ChainLength(r) \in 1..(p - 1) /\ n - p + ChainLength(r) = n - 1 /\ n >= 2
          BY <4>1, <4>3
        <4>5. stack[n - 1].call = "chain" /\ stack[n - 1].r = r
          BY <4>3, <4>4
        <4>6. stack' \in Seq(Frames) /\ Len(stack') = n - 1 /\ stack'[n - 1] = stack[n - 1]
          <5>1. n - 1 \in 1..(n - 1)
            BY <4>1, <4>4
          <5>2. QED
            BY <2>1, <5>1 DEF Popped
        <4>7. stack' # <<>>
          BY <4>1, <4>4, <4>6
        <4> HIDE DEF n
        <4>8. stack'[Len(stack')].call = "chain" /\ stack'[Len(stack')].r = r
          BY <4>5, <4>6
        <4>9. QED
          BY <4>7, <4>8 DEF OwnChainRuns, Top
      <3>2. QED
        BY <1>1, <2>1, <3>1, OwnUndisturbed
    <2>4. QED
      BY <2>1, <2>2, <2>3
  <1>9. CASE NextInChain
    <2>1. PICK f \in Frames :
             /\ Continues(f) /\ f.i = Top.i
             /\ \/ Swapped(stack, stack', f)
                \/ \E g \in Frames : Called(stack, stack', f, g) /\ InChain(g, Top.r, Top.i + 1)
      BY <1>1, <1>9, NextInChainCalls
    <2>2. /\ stack # <<>> /\ Top.call = "chain" /\ err' = err /\ reporter' = reporter
          /\ asked' = asked
      BY <1>1, <1>9, NextInChainCalls DEF NextInChain, history
    <2>3. ASSUME NEW r \in Routers, OwnChainRuns(r), err # Nobody
          PROVE  OwnChainRuns(r)'
      <3>1. Top.r = r
        BY <2>3 DEF OwnChainRuns
      <3>2. CASE Swapped(stack, stack', f)
        <4>1. /\ stack' \in Seq(Frames) /\ Len(stack') = Len(stack) /\ stack'[Len(stack')] = f
          BY <3>2 DEF Swapped
        <4>2. stack' # <<>> /\ f.call = "chain" /\ f.r = r
          BY <1>2, <2>1, <2>2, <3>1, <4>1 DEF Continues
        <4>3. QED
          BY <4>1, <4>2 DEF OwnChainRuns, Top
      <3>3. CASE \E g \in Frames : Called(stack, stack', f, g) /\ InChain(g, Top.r, Top.i + 1)
        <4>1. PICK g \in Frames : Called(stack, stack', f, g) /\ InChain(g, Top.r, Top.i + 1)
          BY <3>3
        <4>2. stack' \in Seq(Frames) /\ Len(stack') = Len(stack) + 1 /\ stack'[Len(stack')] = g
          BY <4>1 DEF Called
        <4>3. stack' # <<>> /\ g.call = "chain" /\ g.r = r
          BY <1>2, <2>2, <2>3, <3>1, <4>1, <4>2 DEF InChain
        <4>4. QED
          BY <4>2, <4>3 DEF OwnChainRuns, Top
      <3>4. QED
        BY <2>1, <3>2, <3>3
    <2>4. QED
      BY <1>1, <2>2, <2>3, OwnUndisturbed
  <1>10. CASE ReturnInChain
    <2>1. /\ stack # <<>> /\ err' = err /\ reporter' = reporter
          /\ Ask(RunErrorHandlers(err, Top.r, 1))
      BY <1>10 DEF ReturnInChain, Running
    <2>2. asked # Nobody => asked' = asked
      BY <2>1 DEF Ask
    <2>3. err' = Nobody => asked' = asked
      BY <2>1 DEF Ask, RunErrorHandlers
    <2>4. ASSUME NEW r \in Routers, OwnChainRuns(r), ErrorHandlers[r] > 0, err # Nobody,
                 asked = Nobody
          PROVE  asked' = r
      <3>1. Top.r = r /\ ErrorHandlers[r] \in Nat
        BY <2>4, RouterAssumption DEF OwnChainRuns
      <3>2. 1 <= ErrorHandlers[r]
        BY <2>4, <3>1
      <3>3. RunErrorHandlers(err, Top.r, 1) = <<Frame("error", r, 1)>>
        BY <2>4, <3>1, <3>2 DEF RunErrorHandlers
      <3>4. Frame("error", r, 1).r = r
        BY NewFrame DEF Calls
      <3>5. QED
        BY <2>1, <2>4, <3>3, <3>4 DEF Ask
    <2>5. QED
      BY <1>1, <2>1, <2>2, <2>3, <2>4, OwnUndisturbed
  <1>11. CASE ReportError \/ SendMissingFile
    <2>1. /\ stack # <<>> /\ Top.call # "handler" /\ stack' = stack /\ asked' = asked
          /\ err' \in Errors
          /\ reporter' = IF reporter = <<>> /\ err = Nobody THEN <<Top.call, Top.r>> ELSE reporter
      BY <1>11 DEF ReportError, SendMissingFile, Report, UserCode, Errors
    <2>2. err' # Nobody
      BY <2>1, RouterAssumption DEF Errors
    <2>3. \A r \in Routers : OwnChainRuns(r)' <=> OwnChainRuns(r)
      BY <2>1 DEF OwnChainRuns, Top, ChainLength
    <2>4. CASE reporter = <<>> /\ err = Nobody
      <3>1. reporter' = <<Top.call, Top.r>> /\ asked' = Nobody
        BY <2>1, <2>4 DEF OwnFirst
      <3>2. Top.call \in {"chain", "route"}
        BY <1>2, <2>1, <2>4 DEF Fits, Calls
      <3>3. Answerable(Top.call, Top.r) => OwnChainRuns(Top.r)
        BY <2>1, <3>2 DEF Answerable, OwnChainRuns
      <3>4. reporter'[1] = Top.call /\ reporter'[2] = Top.r
        BY <3>1
      <3>5. PICK c \in Calls, r \in Routers : c = Top.call /\ r = Top.r
        BY <1>2, <2>1
      <3>6. reporter'[1] = c /\ reporter'[2] = r /\ (Answerable(c, r) => OwnChainRuns(r)')
        BY <2>3, <3>3, <3>4, <3>5
      <3>7. QED
        BY <2>2, <3>1, <3>6 DEF OwnFirst, Answerable, ChainLength
    <2>5. CASE ~(reporter = <<>> /\ err = Nobody)
      <3>1. reporter' = reporter
        BY <2>1, <2>5
      <3>2. QED
        BY <1>1, <2>1, <2>2, <2>3, <3>1, OwnUndisturbed
    <2>6. QED
      BY <2>4, <2>5
  <1>12. QED
    BY <1>4, <1>6, <1>7, <1>8, <1>9, <1>10, <1>11 DEF Next, RouterStep, HandlerStep

\* The error handlers of the reporter's own router are asked before any other's.
THEOREM DispatchOwnErrorHandlersFirst == Spec => []OwnErrorHandlersFirst
  <1>1. Init => Ordered /\ OwnFirst
    <2> SUFFICES ASSUME Init PROVE Ordered /\ OwnFirst
      OBVIOUS
    <2> DEFINE f == Frame("handler", Base, 0)
    <2>1. f \in Frames /\ f.call = "handler"
      BY NewFrame, RouterAssumption DEF Calls
    <2> HIDE DEF f
    <2>2. stack = <<f>>
      BY DEF Init, f
    <2>3. Len(stack) = 1 /\ stack[1] = f
      BY <2>1, <2>2
    <2>4. QED
      BY <2>1, <2>3 DEF Init, Ordered, InOrder, OwnFirst
  <1>2. TypeOK /\ OwnFirst => OwnErrorHandlersFirst
    BY RouterAssumption DEF TypeOK, OwnFirst, OwnErrorHandlersFirst, Answerable
  <1>3. IInv => TypeOK
    BY DEF IInv
  <1>4. QED
    BY <1>1, <1>2, <1>3, OrderKept, OwnKept, DispatchInvariant, PTL DEF Spec

-----------------------------------------------------------------------------
(* Refinement: the application's view of the exchange. *)

Pending == SubSeq(blocks, ran + 1, Len(blocks))

\* A write is the abstract answer, any further send a stutter.
LEMMA RespondAnswers ==
    ASSUME IInv, phase = "handling", NEW what, Respond(what),
           UNCHANGED <<phase, blocks, ran>>
    PROVE  [Exchange!Next]_(Exchange!vars)
  <1>1. /\ answers \in Seq(Errors \cup {"handler"}) /\ Len(answers) = IF didSend THEN 1 ELSE 0
    BY DEF IInv, TypeOK, Answered
  <1>2. CASE didSend
    <2>1. UNCHANGED <<phase, Len(answers), Pending>>
      BY <1>2 DEF Respond, Pending
    <2>2. QED
      BY <2>1 DEF Exchange!vars, Pending
  <1>3. CASE ~didSend
    <2>1. Len(answers) = 0 /\ Len(answers') = 1
      BY <1>1, <1>3 DEF Respond
    <2>2. UNCHANGED <<phase, Pending>>
      BY DEF Pending
    <2>3. Exchange!Answer
      BY <2>1, <2>2 DEF Exchange!Answer, Pending
    <2>4. QED
      BY <2>3 DEF Exchange!Next
  <1>4. QED
    BY <1>2, <1>3

\* The dispatch gives the application the exchange it relies on.
THEOREM DispatchImplementsExchange == Spec => ImplementsHttpExchange
  <1>1. Init => Exchange!Init
    <2> SUFFICES ASSUME Init PROVE Exchange!Init
      OBVIOUS
    <2>1. Len(answers) = 0 /\ SubSeq(blocks, ran + 1, Len(blocks)) = <<>>
      BY SubSeqEmpty DEF Init
    <2>2. QED
      BY <2>1 DEF Init, Exchange!Init
  <1>2. IInv /\ [Next]_vars => [Exchange!Next]_(Exchange!vars)
    <2> SUFFICES ASSUME IInv, [Next]_vars PROVE [Exchange!Next]_(Exchange!vars)
      OBVIOUS
    <2>1. /\ blocks \in Seq(Routers) /\ ran \in 0..Len(blocks) /\ Len(blocks) \in Nat
          /\ Sent /\ Answered
      BY DEF IInv, TypeOK
    <2>2. CASE UNCHANGED <<phase, answers, blocks, ran>>
      BY <2>2 DEF Exchange!vars
    <2>3. CASE PassBy \/ EnterRouter \/ VisitRouter \/ LeaveRouter \/ ReportError \/ SendMissingFile
               \/ NextInChain \/ NextErrorHandler \/ ReturnInChain \/ Return \/ UNCHANGED vars
      BY <2>2, <2>3 DEF PassBy, EnterRouter, VisitRouter, LeaveRouter, ReportError,
                 SendMissingFile, Report, NextInChain, NextErrorHandler, ReturnInChain, Return, vars, history
    <2>4. CASE Send
      <3>1. phase = "handling" /\ UNCHANGED <<phase, blocks, ran>>
        BY <2>4 DEF Send, UserCode
      <3>2. Respond("handler")
        BY <2>4 DEF Send
      <3>3. QED
        BY <3>1, <3>2, RespondAnswers
    <2>5. CASE DefaultErrorHandler
      <3>1. phase = "handling" /\ UNCHANGED <<phase, blocks, ran>>
        BY <2>5 DEF DefaultErrorHandler, Running
      <3>2. Respond(err)
        BY <2>5 DEF DefaultErrorHandler
      <3>3. QED
        BY <3>1, <3>2, RespondAnswers
    <2>6. CASE RegisterCleanup
      <3>1. /\ phase = "handling" /\ phase' = phase /\ ran = 0 /\ ran' = 0 /\ answers' = answers
            /\ Top.r \in Routers /\ blocks' = Append(blocks, Top.r)
        BY <2>1, <2>6, TopFacts, FrameFacts DEF RegisterCleanup, Running, history, Sent, IInv, TypeOK
      <3>2. SubSeq(blocks, 1, Len(blocks)) = blocks
        BY <2>1, SubSeqFull
      <3>3. blocks' \in Seq(Routers) /\ SubSeq(blocks', 1, Len(blocks')) = blocks'
        BY <2>1, <3>1, SubSeqFull
      <3>4. Pending = blocks /\ Pending' = blocks'
        BY <3>1, <3>2, <3>3 DEF Pending
      <3>5. \E b \in Routers : Pending' = Append(Pending, b)
        BY <3>1, <3>4
      <3>6. Exchange!Register
        BY <3>1, <3>5 DEF Exchange!Register, Pending
      <3>7. QED
        BY <3>6 DEF Exchange!Next
    <2>7. CASE FreeResponse
      <3>1. Len(answers) = 1
        BY <2>1, <2>7 DEF FreeResponse, Sent, Answered
      <3>2. Exchange!EndHandling
        BY <2>7, <3>1 DEF FreeResponse, history, Exchange!EndHandling
      <3>3. QED
        BY <3>2 DEF Exchange!Next
    <2>8. CASE RunCleanup
      <3>1. ran + 1 \in 1..Len(blocks) /\ Len(blocks) \in (ran + 1)..Len(blocks)
        BY <2>1, <2>8 DEF RunCleanup
      <3>2. Tail(Pending) = SubSeq(blocks, ran + 1 + 1, Len(blocks))
        BY <2>1, <3>1, HeadTailOfSubSeq DEF Pending
      <3>3. Pending # <<>>
        <4>1. Len(Pending) = Len(blocks) - (ran + 1) + 1
          <5>1. \A i \in (ran + 1)..Len(blocks) : blocks[i] \in Routers
            BY <2>1, <3>1, ElementOfSeq
          <5>2. QED
            BY <2>1, <3>1, <5>1, SubSeqProperties DEF Pending
        <4>2. QED
          BY <2>1, <3>1, <4>1
      <3>4. Pending' = Tail(Pending) /\ phase = "cleaning" /\ UNCHANGED <<phase, answers>>
        BY <2>8, <3>2 DEF RunCleanup, Pending, history
      <3>5. Exchange!Clean
        BY <3>3, <3>4 DEF Exchange!Clean, Pending
      <3>6. QED
        BY <3>5 DEF Exchange!Next
    <2>9. CASE FreeRequest
      <3>1. Len(blocks) < ran + 1 /\ ran + 1 \in Int
        BY <2>1, <2>9 DEF FreeRequest
      <3>2. Pending = <<>>
        BY <2>1, <3>1, SubSeqEmpty DEF Pending
      <3>3. Exchange!Free
        BY <2>9, <3>2 DEF FreeRequest, history, Exchange!Free, Pending
      <3>4. QED
        BY <3>3 DEF Exchange!Next
    <2>10. QED
      BY <2>3, <2>4, <2>5, <2>6, <2>7, <2>8, <2>9 DEF Next, RouterStep, HandlerStep
  <1>3. QED
    BY <1>1, <1>2, DispatchInvariant, PTL DEF Spec, ImplementsHttpExchange, Exchange!Spec

=============================================================================
