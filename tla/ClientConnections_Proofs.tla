----------------------- MODULE ClientConnections_Proofs -----------------------
(***************************************************************************)
(* What ClientConnections promises, for every number of connections,       *)
(* threads and descriptors and for every bound.                            *)
(*                                                                         *)
(* The properties speak of what a thread or the timer does to a status     *)
(* record; whether that is harmful depends on who else may still reach the *)
(* record.  The invariant therefore says, as long as no timer handler has  *)
(* overlapped an event of its own record, what everybody who holds a       *)
(* pointer to the record of c may rely on (Present), what the record, the  *)
(* timer and the descriptor of c agree on (Record, Descriptor), and that   *)
(* an event of c is in one place only (Alone).                             *)
(***************************************************************************)
EXTENDS ClientConnections, TLAPS

\* The open socket of the number in the record is the record's own.
Has(c) == fd[c] \in Fds /\ owner[fd[c]] = c

\* A thread's program counter while `cur` is the connection it works on.
Busy == {"add", "look", "read", "body", "handle", "rearm", "shutdown", "close"}
\* ... while no other thread may have an event of that connection
Hands == {"add", "look", "read", "body", "handle", "rearm"}
\* ... while the connection is its to close
Closing == {"add", "read", "body", "handle", "rearm", "shutdown", "close"}

Holding(t, c) == c \in batch[t] \/ (cur[t] = c /\ pc[t] \in Hands)
Owning(t, c)  == cur[t] = c /\ pc[t] \in Closing

\* An event of c that epoll has reported and no thread has looked at.
EventOf(c) ==
    \/ status[c] = "READING" /\ timer[c] = "armed" /\ Has(c) /\ reg[fd[c]].st = "fired"
    \/ status[c] = "ENDED" /\ timer[c] = "cancelled" /\ (Has(c) => reg[fd[c]].st # "armed")

Present(t, c) ==
    /\ c \in batch[t] => EventOf(c)
    /\ cur[t] = c =>
         /\ pc[t] = "add" => /\ status[c] = "READING" /\ timer[c] = "armed"
                             /\ Has(c) /\ reg[fd[c]].st = "none"
         /\ pc[t] = "look" => EventOf(c)
         /\ pc[t] \in {"read", "body", "handle", "rearm"} =>
              /\ status[c] = (IF pc[t] = "rearm" THEN "ENDED" ELSE "READING")
              /\ timer[c] = "cancelled" /\ Has(c) /\ reg[fd[c]].st = "fired"
         /\ pc[t] \in {"shutdown", "close"} =>
              status[c] \in {"ENDED", "freed"} /\ timer[c] = "cancelled" /\ Has(c)

Record(c) ==
    /\ sock[c] \in {"idle", "backlog"} => status[c] = "none"
    /\ status[c] = "none" => timer[c] = "none" /\ \A f \in Fds : owner[f] # c
    /\ timer[c] \in {"armed", "shutdown", "close"} => Has(c)
    /\ timer[c] \in {"armed", "shutdown", "close", "free"} =>
         status[c] = "READING" \/ c \in ctlFailed
    /\ Has(c) /\ reg[fd[c]].st = "armed" =>
         \/ status[c] = "READING" /\ timer[c] \in {"armed", "shutdown", "close"}
         \/ status[c] = "ENDED" /\ timer[c] = "cancelled"
    /\ status[c] \in {"none", "READING"} => served[c] = 0
    /\ served[c] <= 1

Descriptor(f) ==
    /\ owner[f] # NoConn => fd[owner[f]] = f
    /\ reg[f].st # "none" => owner[f] # NoConn /\ reg[f].ptr = owner[f]

Alone(t, u, c) ==
    /\ Holding(t, c) /\ Holding(u, c) => t = u
    /\ Owning(t, c) /\ Owning(u, c) => t = u
    /\ c \in batch[t] => ~(cur[t] = c /\ pc[t] \in Hands)

Core ==
    /\ \A t \in Threads : pc[t] \in {"wait", "exit"} => batch[t] = {}
    /\ \A t \in Threads, c \in Conns : Present(t, c)
    /\ \A c \in Conns : Record(c)
    /\ \A f \in Fds : Descriptor(f)
    /\ \A t, u \in Threads, c \in Conns : Alone(t, u, c)

\* The process is gone: nothing moves any more.
Gone ==
    /\ ~serverOpen
    /\ \A t \in Threads : pc[t] = "exit"
    /\ \A c \in Conns : timer[c] = "none" /\ served[c] <= 1
    /\ \A f \in Fds : reg[f] = NoReg
    /\ \A t \in Threads, c \in Conns : c \in batch[t] => status[c] \in {"READING", "ENDED"}

\* What holds after a race, too.
Shape ==
    /\ TypeOK
    /\ \A t \in Threads : pc[t] \in Busy => cur[t] \in Conns
    /\ \A f \in Fds : reg[f].st # "none" => reg[f].ptr \in Conns

IInv ==
    /\ Shape
    /\ raced = {} => misdelivered = {} /\ (Core \/ Gone)
    /\ Undisturbed => faults \subseteq {"wild_pointer"}

\* epoll_wait's choice of events, as a step of its own.
Reported(t, taken, listening) ==
    LET events == {reg[f].ptr : f \in taken} \cup (IF listening THEN {Listen} ELSE {}) IN
    /\ OneShot(taken)
    /\ edge' = (edge /\ ~listening)
    /\ raced' = raced \cup {c \in Conns : c \in events /\ TimerRunning(c)}
    /\ IF serverOpen
       THEN /\ batch' = [batch EXCEPT ![t] = events]
            /\ pc' = [pc EXCEPT ![t] = "next"]
       ELSE pc' = [pc EXCEPT ![t] = "exit"] /\ batch' = batch

-----------------------------------------------------------------------------
(* Types: they hold whatever races. *)

\* Whatever number is closed, the tables keep their types.
LEMMA CloseTyped ==
    ASSUME Shape, NEW f, CloseFd(f)
    PROVE  /\ sock' \in [Conns -> {"idle", "backlog", "open", "closed"}]
           /\ owner' \in [Fds -> Conns \cup {NoConn}]
           /\ reg' \in [Fds -> [st : {"none", "armed", "fired"}, ptr : Conns \cup {NoConn}]]
           /\ \A g \in Fds : reg'[g].st # "none" => reg'[g].ptr \in Conns
<1>1. CASE f \in Fds /\ owner[f] # NoConn
  <2>1. /\ sock' = [sock EXCEPT ![owner[f]] = "closed"]
        /\ owner' = [owner EXCEPT ![f] = NoConn]
        /\ reg' = [reg EXCEPT ![f] = NoReg]
    BY <1>1 DEF CloseFd
  <2>2. reg' \in [Fds -> [st : {"none", "armed", "fired"}, ptr : Conns \cup {NoConn}]]
    BY <2>1 DEF NoReg, Shape, TypeOK
  <2>3. \A g \in Fds : reg'[g].st # "none" => reg'[g].ptr \in Conns
    BY <2>1, <1>1 DEF NoReg, Shape, TypeOK
  <2>4. QED
    BY <2>1, <2>2, <2>3 DEF Shape, TypeOK
<1>2. CASE ~(f \in Fds /\ owner[f] # NoConn)
  BY <1>2 DEF CloseFd, Shape, TypeOK
<1>3. QED
  BY <1>1, <1>2

\* Every step keeps the types, a busy thread's connection and the pointers of
\* the registrations, races or not.
LEMMA ShapeNext == Shape /\ [Next]_vars => Shape'
<1> SUFFICES ASSUME Shape, [Next]_vars PROVE Shape'
  OBVIOUS
<1> USE ClientAssumption
<1> USE DEF Shape, Busy
<1>1. ASSUME NEW c \in Conns, Connect(c) PROVE Shape'
  BY <1>1 DEF Connect, TypeOK, process, history
<1>2. ASSUME NEW c \in Conns, PeerData(c) PROVE Shape'
  BY <1>2 DEF PeerData, TypeOK, process, history
<1>3. ASSUME NEW c \in Conns, Timer(c) PROVE Shape'
  <2>1. CASE TimerFires(c)
    BY <2>1 DEF TimerFires, TypeOK, kernel
  <2>2. CASE TimerShutdown(c)
    BY <2>2 DEF TimerShutdown, ShutdownFd, TypeOK, history
  <2>3. CASE TimerClose(c)
    BY <2>3, CloseTyped DEF TimerClose, TypeOK, history
  <2>4. CASE TimerFree(c)
    BY <2>4 DEF TimerFree, Faulting, FreeFault, TypeOK, kernel
  <2>5. QED
    BY <1>3, <2>1, <2>2, <2>3, <2>4 DEF Timer
<1>4. CASE CloseServer
  BY <1>4 DEF CloseServer, TypeOK, process, history
<1>5. ASSUME NEW t \in Threads, Thread(t) PROVE Shape'
  <2>1. CASE EpollWait(t)
    <3>1. PICK taken \in SUBSET DeliverableFds, listening \in BOOLEAN :
             Reported(t, taken, listening)
      BY <2>1 DEF EpollWait, Reported
    <3>2. {reg[f].ptr : f \in taken} \subseteq Conns
      BY DEF DeliverableFds, Deliverable
    <3> DEFINE Events == {reg[f].ptr : f \in taken} \cup (IF listening THEN {Listen} ELSE {})
    <3>3. Events \subseteq Conns \cup {Listen}
      BY <3>2
    <3>4. /\ edge' = (edge /\ ~listening)
           /\ raced' = raced \cup {c \in Conns : c \in Events /\ TimerRunning(c)}
           /\ \/ batch' = [batch EXCEPT ![t] = Events] /\ pc' = [pc EXCEPT ![t] = "next"]
              \/ pc' = [pc EXCEPT ![t] = "exit"] /\ batch' = batch
      BY <3>1 DEF Reported
    <3> HIDE DEF Events
    <3>5. /\ edge' \in BOOLEAN /\ raced' \subseteq Conns
          /\ batch' \in [Threads -> SUBSET (Conns \cup {Listen})]
          /\ pc' \in [Threads -> {"wait", "next", "accept", "add", "look", "read", "body",
                                  "handle", "rearm", "shutdown", "close", "exit"}]
      BY <3>3, <3>4 DEF TypeOK
    <3>6. reg' \in [Fds -> [st : {"none", "armed", "fired"}, ptr : Conns \cup {NoConn}]]
      BY <3>1 DEF Reported, OneShot, TypeOK
    <3>7. \A f \in Fds : (reg[f].st # "none" => reg[f].ptr \in Conns)'
      BY <3>1 DEF Reported, OneShot, TypeOK, DeliverableFds, Deliverable
    <3>8. pc'[t] \notin Busy /\ \A u \in Threads \ {t} : pc'[u] = pc[u]
      BY <3>1 DEF Reported, TypeOK
    <3>9. TypeOK'
      BY <2>1, <3>5, <3>6 DEF EpollWait, TypeOK
    <3>10. QED
      BY <2>1, <3>7, <3>8, <3>9 DEF EpollWait
  <2>2. CASE NextEvent(t)
    <3>1. /\ pc' \in [Threads -> {"wait", "next", "accept", "add", "look", "read", "body",
                                  "handle", "rearm", "shutdown", "close", "exit"}]
          /\ batch' \in [Threads -> SUBSET (Conns \cup {Listen})]
          /\ cur' \in [Threads -> Conns \cup {NoConn}]
      <4>1. /\ \E p \in {"wait", "accept", "look"} : pc' = [pc EXCEPT ![t] = p]
            /\ batch' = batch \/ \E e : batch' = [batch EXCEPT ![t] = @ \ {e}]
            /\ cur' = cur \/ \E c \in Conns : cur' = [cur EXCEPT ![t] = c]
        BY <2>2 DEF NextEvent
      <4>2. pc' \in [Threads -> {"wait", "next", "accept", "add", "look", "read", "body",
                                 "handle", "rearm", "shutdown", "close", "exit"}]
        BY <4>1 DEF TypeOK
      <4>3. batch' \in [Threads -> SUBSET (Conns \cup {Listen})]
        BY <4>1 DEF TypeOK
      <4>4. cur' \in [Threads -> Conns \cup {NoConn}]
        BY <4>1 DEF TypeOK
      <4>5. QED
        BY <4>2, <4>3, <4>4
    <3>2. TypeOK'
      BY <2>2, <3>1 DEF NextEvent, TypeOK, kernel, history
    <3>3. \A u \in Threads : pc'[u] \in Busy => cur'[u] \in Conns
      BY <2>2 DEF NextEvent, TypeOK
    <3>4. UNCHANGED reg
      BY <2>2 DEF NextEvent, kernel
    <3>5. QED
      BY <3>2, <3>3, <3>4
  <2>3. CASE StrayListenEvent(t)
    BY <2>3 DEF StrayListenEvent, Faulting, NoReg, TypeOK
  <2>4. CASE Accept(t)
    BY <2>4 DEF Accept, Backlog, FreeFds, TypeOK, history
  <2>5. CASE AcceptStops(t)
    <3>1. failures' \in 0..MaxFailures
      BY <2>5 DEF AcceptStops, TypeOK
    <3>2. acceptLost' \in BOOLEAN
      BY <2>5 DEF AcceptStops, TypeOK
    <3>3. QED
      BY <2>5, <3>1, <3>2 DEF AcceptStops, TypeOK, kernel
  <2>6. CASE FcntlFails(t)
    BY <2>6 DEF FcntlFails, Backlog, TypeOK
  <2>7. CASE Add(t)
    <3>1. cur[t] \in Conns
      BY <2>7 DEF Add
    <3>2. reg' \in [Fds -> [st : {"none", "armed", "fired"}, ptr : Conns \cup {NoConn}]]
      BY <2>7, <3>1 DEF Add, TypeOK
    <3>3. \A f \in Fds : (reg[f].st # "none" => reg[f].ptr \in Conns)'
      BY <2>7, <3>1 DEF Add, TypeOK
    <3>4. pc'[t] = "accept" /\ \A u \in Threads \ {t} : pc'[u] = pc[u] /\ cur'[u] = cur[u]
      BY <2>7 DEF Add, TypeOK
    <3>5. TypeOK'
      BY <2>7, <3>2 DEF Add, TypeOK, history
    <3>6. QED
      BY <3>3, <3>4, <3>5
  <2>8. CASE AddFails(t)
    BY <2>8 DEF AddFails, Faulting, FreeFault, TypeOK, kernel
  <2>9. CASE LookReading(t)
    BY <2>9 DEF LookReading, Faulting, UseFault, TypeOK, kernel
  <2>10. CASE LookEnded(t)
    BY <2>10 DEF LookEnded, Faulting, UseFault, FreeFault, TypeOK, kernel
  <2>11. CASE ReadRequest(t) \/ AwaitBody(t) \/ TakeBody(t)
    <3>1. /\ pc[t] \in Busy /\ cur' = cur /\ reg' = reg
          /\ \E p \in {"body", "handle"} : pc' = [pc EXCEPT ![t] = p]
      BY <2>11 DEF ReadRequest, AwaitBody, TakeBody
    <3>2. readable' \in [Conns -> BOOLEAN]
      <4>1. ReadFrom(fd[cur[t]])
        BY <2>11 DEF ReadRequest, AwaitBody, TakeBody
      <4>2. readable \in [Conns -> BOOLEAN]
        BY DEF TypeOK
      <4>3. QED
        BY <4>1, <4>2 DEF ReadFrom
    <3>3. pc' \in [Threads -> {"wait", "next", "accept", "add", "look", "read", "body",
                               "handle", "rearm", "shutdown", "close", "exit"}]
      BY <3>1 DEF TypeOK
    <3>4. TypeOK'
      <4>1. UNCHANGED <<serverOpen, edge, sock, shut, sends, owner, reg, fd, status, timer,
                        batch, cur, served, misdelivered, raced, ctlFailed, acceptLost,
                        failures, faults>>
        BY <2>11 DEF ReadRequest, AwaitBody, TakeBody, history
      <4>2. QED
        BY <3>2, <3>3, <4>1 DEF TypeOK
    <3>5. \A u \in Threads : pc'[u] \in Busy => cur'[u] \in Conns
      BY <3>1 DEF TypeOK
    <3>6. QED
      BY <3>1, <3>4, <3>5
  <2>12. CASE ReadFails(t)
    BY <2>12 DEF ReadFails, MayFail, ReadFrom, Faulting, FreeFault, TypeOK
  <2>13. CASE Handle(t)
    BY <2>13 DEF Handle, HandlerRuns, Faulting, UseFault, TypeOK, kernel
  <2>14. CASE Rearm(t)
    <3>1. cur[t] \in Conns
      BY <2>14 DEF Rearm
    <3> DEFINE New == [st |-> "armed", ptr |-> cur[t]]
    <3>2. \/ reg' = [reg EXCEPT ![fd[cur[t]]] = New]
          \/ reg' = reg
      BY <2>14 DEF Rearm
    <3>3. New \in [st : {"none", "armed", "fired"}, ptr : Conns \cup {NoConn}]
      BY <3>1
    <3>4. New.ptr \in Conns
      BY <3>1
    <3> HIDE DEF New
    <3>5. reg' \in [Fds -> [st : {"none", "armed", "fired"}, ptr : Conns \cup {NoConn}]]
      BY <3>2, <3>3 DEF TypeOK
    <3>6. \A f \in Fds : (reg[f].st # "none" => reg[f].ptr \in Conns)'
      BY <3>2, <3>4 DEF TypeOK
    <3>7. failures' \in 0..MaxFailures /\ ctlFailed' \subseteq Conns
      BY <2>14, <3>1 DEF Rearm, TypeOK
    <3>8. QED
      BY <2>14, <3>1, <3>5, <3>6, <3>7 DEF Rearm, TypeOK
  <2>15. CASE ShutdownConn(t)
    BY <2>15 DEF ShutdownConn, ShutdownFd, TypeOK, history
  <2>16. CASE CloseConn(t)
    BY <2>16, CloseTyped DEF CloseConn, TypeOK, history
  <2>17. QED
    BY <1>5, <2>1, <2>2, <2>3, <2>4, <2>5, <2>6, <2>7, <2>8, <2>9, <2>10, <2>11, <2>12,
       <2>13, <2>14, <2>15, <2>16 DEF Thread
<1>6. CASE UNCHANGED vars
  BY <1>6 DEF vars, kernel, process, history, TypeOK
<1>7. QED
  BY <1>1, <1>2, <1>3, <1>4, <1>5, <1>6 DEF Next

-----------------------------------------------------------------------------
(* Frames: what a step that works on one connection leaves of another. *)

\* Nothing that Present and Record say of c changes in the step.
Same(c) ==
    /\ status'[c] = status[c] /\ timer'[c] = timer[c] /\ fd'[c] = fd[c]
    /\ Has(c)' <=> Has(c)
    /\ Has(c) => reg'[fd[c]].st = reg[fd[c]].st

\* Thread t still stands where it stood, as far as c is concerned.
Stays(t, c) ==
    /\ c \in batch'[t] => c \in batch[t]
    /\ cur'[t] = c => pc'[t] \notin Busy \/ (cur[t] = c /\ pc'[t] = pc[t])

\* Who holds c may still rely on the same.
LEMMA SamePresent ==
    ASSUME NEW t \in Threads, NEW c \in Conns, Same(c), Stays(t, c), Present(t, c)
    PROVE  Present(t, c)'
BY DEF Same, Stays, Present, EventOf, Busy

\* The record of c is in order if its socket is and no number came to it.
LEMMA SameRecord ==
    ASSUME NEW c \in Conns, Same(c), Record(c), served'[c] = served[c],
           sock'[c] \in {"idle", "backlog"} => status[c] = "none",
           ctlFailed \subseteq ctlFailed',
           \A f \in Fds : owner'[f] = c => owner[f] = c
    PROVE  Record(c)'
BY DEF Same, Record

\* Nobody gets hold of a connection it did not hold.
LEMMA StaysAlone ==
    ASSUME NEW t \in Threads, NEW u \in Threads, NEW c \in Conns,
           Stays(t, c), Stays(u, c), Alone(t, u, c)
    PROVE  Alone(t, u, c)'
BY DEF Stays, Alone, Holding, Owning, Hands, Closing, Busy

\* While the timer's handler is at work, no thread has c.
LEMMA HandlerAlone ==
    ASSUME Core, NEW c \in Conns, timer[c] \in {"shutdown", "close", "free"},
           NEW t \in Threads
    PROVE  c \notin batch[t] /\ (cur[t] = c => pc[t] \notin Busy)
BY DEF Core, Present, EventOf, Busy

-----------------------------------------------------------------------------
(* The peers' steps and the timer's. *)

\* Clients and the server's owner touch no record and no registration.
LEMMA PeersKeepCore ==
    ASSUME Shape, Core,
           CloseServer \/ (\E c \in Conns : Connect(c) \/ PeerData(c)) \/ UNCHANGED vars
    PROVE  Core'
<1>1. /\ UNCHANGED <<fd, status, timer, pc, batch, cur, owner, reg, served, ctlFailed>>
      /\ \A d \in Conns : sock'[d] \in {"idle", "backlog"} => sock[d] \in {"idle", "backlog"}
  BY DEF CloseServer, Connect, PeerData, vars, kernel, process, history, Shape, TypeOK
<1>2. \A d \in Conns : Same(d) /\ \A t \in Threads : Stays(t, d)
  BY <1>1 DEF Same, Stays, Has
<1>3. \A t \in Threads, d \in Conns : Present(t, d)'
  BY <1>2, SamePresent DEF Core
<1>4. \A d \in Conns : Record(d)'
  BY <1>1, <1>2, SameRecord DEF Core, Record
<1>5. \A f \in Fds : Descriptor(f)'
  BY <1>1 DEF Core, Descriptor
<1>6. \A t, u \in Threads, d \in Conns : Alone(t, u, d)'
  BY <1>2, StaysAlone DEF Core
<1>7. QED
  BY <1>1, <1>3, <1>4, <1>5, <1>6 DEF Core

\* The deadline passes while no thread has an event of c or adds c.
LEMMA TimerFiresKeepsCore ==
    ASSUME Shape, Core, NEW c \in Conns, TimerFires(c), raced' = {}
    PROVE  Core'
<1>1. /\ UNCHANGED <<fd, status, pc, batch, cur, owner, reg, served, ctlFailed, sock>>
      /\ timer[c] = "armed" /\ timer' = [timer EXCEPT ![c] = "shutdown"]
  BY DEF TimerFires, kernel
<1>2. \A t \in Threads : c \notin batch[t] /\ (cur[t] = c => pc[t] \notin Busy)
  <2>1. ~Held(c)
    BY DEF TimerFires
  <2>2. QED
    BY <1>1, <2>1 DEF Held, Core, Present, Busy
<1>3. \A d \in Conns : d # c => Same(d)
  BY <1>1 DEF Same, Has, Shape, TypeOK
<1>4. \A t \in Threads, d \in Conns : Stays(t, d)
  BY <1>1 DEF Stays
<1>5. \A t \in Threads, d \in Conns : Present(t, d)'
  <2>1. \A t \in Threads : Present(t, c)'
    BY <1>1, <1>2 DEF Present, Busy
  <2>2. QED
    BY <1>3, <1>4, <2>1, SamePresent DEF Core
<1>6. \A d \in Conns : Record(d)'
  <2>1. Record(c)'
    BY <1>1 DEF Core, Record, Has, Shape, TypeOK
  <2>2. QED
    BY <1>1, <1>3, <2>1, SameRecord DEF Core, Record
<1>7. \A f \in Fds : Descriptor(f)'
  BY <1>1 DEF Core, Descriptor
<1>8. \A t, u \in Threads, d \in Conns : Alone(t, u, d)'
  BY <1>4, StaysAlone DEF Core
<1>9. QED
  BY <1>1, <1>5, <1>6, <1>7, <1>8 DEF Core

\* The handler shuts, closes and frees a connection that only it still has.
LEMMA TimerHandlerKeepsCore ==
    ASSUME Shape, Core, NEW c \in Conns, TimerShutdown(c) \/ TimerClose(c) \/ TimerFree(c)
    PROVE  Core'
<1>1. /\ UNCHANGED <<fd, pc, batch, cur, served, ctlFailed>>
      /\ timer[c] \in {"shutdown", "close", "free"}
  BY DEF TimerShutdown, TimerClose, TimerFree, kernel, history
<1>2. \A t \in Threads : c \notin batch[t] /\ (cur[t] = c => pc[t] \notin Busy)
  BY <1>1, HandlerAlone
<1>3. \A t \in Threads, d \in Conns : Stays(t, d)
  BY <1>1 DEF Stays
<1>4. \A t \in Threads : Present(t, c)'
  BY <1>1, <1>2 DEF Present, Busy
<1>5. \A t, u \in Threads, d \in Conns : Alone(t, u, d)'
  BY <1>3, StaysAlone DEF Core
<1>6. CASE TimerShutdown(c)
  <2>1. /\ UNCHANGED <<status, owner, reg, sock>>
        /\ timer[c] = "shutdown" /\ timer' = [timer EXCEPT ![c] = "close"]
    BY <1>6 DEF TimerShutdown
  <2>2. \A d \in Conns : d # c => Same(d)
    BY <1>1, <2>1 DEF Same, Has, Shape, TypeOK
  <2>3. Record(c)'
    BY <1>1, <2>1 DEF Core, Record, Has, Shape, TypeOK
  <2>4. \A d \in Conns : Record(d)'
    BY <1>1, <2>1, <2>2, <2>3, SameRecord DEF Core, Record
  <2>5. \A f \in Fds : Descriptor(f)'
    BY <1>1, <2>1 DEF Core, Descriptor
  <2>6. QED
    BY <1>1, <1>3, <1>4, <1>5, <2>2, <2>4, <2>5, SamePresent DEF Core
<1>7. CASE TimerClose(c)
  <2>1. PICK f \in Fds : f = fd[c] /\ owner[f] = c
    BY <1>7 DEF TimerClose, Core, Record, Has
  <2>2. /\ UNCHANGED status
        /\ timer[c] = "close" /\ timer' = [timer EXCEPT ![c] = "free"]
        /\ sock' = [sock EXCEPT ![c] = "closed"]
        /\ owner' = [owner EXCEPT ![f] = NoConn]
        /\ reg' = [reg EXCEPT ![f] = NoReg]
    BY <1>7, <2>1, ClientAssumption DEF TimerClose, CloseFd
  <2>3. \A d \in Conns : d # c => Same(d)
    BY <1>1, <2>1, <2>2, ClientAssumption DEF Same, Has, Shape, TypeOK
  <2>4. Record(c)'
    BY <1>1, <2>1, <2>2, ClientAssumption DEF Core, Record, Has, Shape, TypeOK
  <2>5. \A d \in Conns : Record(d)'
    BY <1>1, <2>2, <2>3, <2>4, SameRecord, ClientAssumption DEF Core, Record, Shape, TypeOK
  <2>6. \A g \in Fds : Descriptor(g)'
    BY <1>1, <2>1, <2>2 DEF Core, Descriptor, NoReg, Shape, TypeOK
  <2>7. QED
    BY <1>1, <1>3, <1>4, <1>5, <2>3, <2>5, <2>6, SamePresent DEF Core
<1>8. CASE TimerFree(c)
  <2>1. /\ UNCHANGED <<owner, reg, sock>>
        /\ timer[c] = "free" /\ timer' = [timer EXCEPT ![c] = "done"]
        /\ status' = [status EXCEPT ![c] = "freed"]
    BY <1>8 DEF TimerFree, kernel
  <2>2. \A d \in Conns : d # c => Same(d)
    BY <1>1, <2>1 DEF Same, Has, Shape, TypeOK
  <2>3. Record(c)'
    BY <1>1, <2>1 DEF Core, Record, Has, Shape, TypeOK
  <2>4. \A d \in Conns : Record(d)'
    BY <1>1, <2>1, <2>2, <2>3, SameRecord DEF Core, Record
  <2>5. \A f \in Fds : Descriptor(f)'
    BY <1>1, <2>1 DEF Core, Descriptor
  <2>6. QED
    BY <1>1, <1>3, <1>4, <1>5, <2>2, <2>4, <2>5, SamePresent DEF Core
<1>9. QED
  BY <1>6, <1>7, <1>8

-----------------------------------------------------------------------------
(* A thread's steps. *)

\* A step that touches the connections of `moved` only keeps the invariant if
\* it keeps it for those.
LEMMA CoreByParts ==
    ASSUME Core, NEW moved \in SUBSET Conns,
           \A c \in Conns \ moved :
             /\ Same(c) /\ served'[c] = served[c]
             /\ sock'[c] \in {"idle", "backlog"} => sock[c] \in {"idle", "backlog"}
             /\ \A f \in Fds : owner'[f] = c => owner[f] = c
             /\ \A t \in Threads : Stays(t, c),
           ctlFailed \subseteq ctlFailed',
           \A c \in moved : /\ Record(c)'
                            /\ \A t \in Threads : Present(t, c)'
                            /\ \A t, u \in Threads : Alone(t, u, c)',
           \A f \in Fds : Descriptor(f)',
           \A t \in Threads : pc'[t] \in {"wait", "exit"} => batch'[t] = {}
    PROVE  Core'
<1>1. \A c \in Conns : Record(c)'
  BY SameRecord DEF Core, Record
<1>2. \A t \in Threads, c \in Conns : Present(t, c)'
  BY SamePresent DEF Core
<1>3. \A t, u \in Threads, c \in Conns : Alone(t, u, c)'
  BY StaysAlone DEF Core
<1>4. QED
  BY <1>1, <1>2, <1>3 DEF Core

\* ... which for a step that touches one connection reads like this.
LEMMA CoreAround ==
    ASSUME Core, NEW c \in Conns,
           \A d \in Conns \ {c} : Same(d) /\ \A t \in Threads : Stays(t, d),
           \A d \in Conns \ {c} : /\ served'[d] = served[d]
                                  /\ sock'[d] \in {"idle", "backlog"} =>
                                       sock[d] \in {"idle", "backlog"},
           \A d \in Conns \ {c}, f \in Fds : owner'[f] = d => owner[f] = d,
           ctlFailed \subseteq ctlFailed',
           Record(c)', \A t \in Threads : Present(t, c)',
           \A t, u \in Threads : Alone(t, u, c)',
           \A f \in Fds : Descriptor(f)',
           \A t \in Threads : pc'[t] \in {"wait", "exit"} => batch'[t] = {}
    PROVE  Core'
<1> DEFINE moved == {c}
<1>1. moved \in SUBSET Conns /\ \A d \in moved : d = c
  OBVIOUS
<1>2. \A d \in Conns \ moved : d \in Conns \ {c}
  OBVIOUS
<1> HIDE DEF moved
<1>3. QED
  BY <1>1, <1>2, CoreByParts

\* The event loop's own steps and a failing accept touch no record.
LEMMA LoopKeepsCore ==
    ASSUME Shape, Core, NEW t \in Threads, AcceptStops(t) \/ FcntlFails(t) \/ NextEvent(t)
    PROVE  Core'
<1>1. /\ UNCHANGED <<fd, status, timer, owner, reg, served, ctlFailed>>
      /\ \A c \in Conns : sock'[c] \in {"idle", "backlog"} => sock[c] \in {"idle", "backlog"}
      /\ \A u \in Threads \ {t} : pc'[u] = pc[u] /\ cur'[u] = cur[u] /\ batch'[u] = batch[u]
  BY DEF AcceptStops, FcntlFails, NextEvent, kernel, history, Shape, TypeOK
<1>2. \A f \in Fds : Descriptor(f)'
  BY <1>1 DEF Core, Descriptor
<1>3. \A c \in Conns : Same(c)
  BY <1>1 DEF Same, Has
<1>4. \A u \in Threads \ {t}, c \in Conns : Stays(u, c)
  BY <1>1 DEF Stays
<1>5. CASE pc'[t] \notin Busy /\ batch'[t] \subseteq batch[t]
           /\ (pc'[t] \in {"wait", "exit"} => batch'[t] = {})
  <2>1. \A u \in Threads, c \in Conns : Stays(u, c)
    BY <1>4, <1>5 DEF Stays
  <2>2. \A u \in Threads : pc'[u] \in {"wait", "exit"} => batch'[u] = {}
    BY <1>1, <1>5 DEF Core
  <2>3. QED
    BY <1>1, <1>2, <1>3, <2>1, <2>2, CoreByParts
<1>6. ASSUME NEW c \in batch[t] \cap Conns, pc' = [pc EXCEPT ![t] = "look"],
             cur' = [cur EXCEPT ![t] = c], batch' = [batch EXCEPT ![t] = @ \ {c}]
      PROVE  Core'
  <2>1. pc'[t] = "look" /\ cur'[t] = c /\ batch'[t] = batch[t] \ {c}
    BY <1>6 DEF Shape, TypeOK
  <2>2. \A d \in Conns \ {c} : Stays(t, d)
    BY <2>1 DEF Stays
  <2>3. \A u \in Threads : Present(u, c)'
    <3>1. Present(t, c)'
      BY <1>1, <2>1 DEF Core, Present, EventOf, Has
    <3>2. QED
      BY <1>3, <1>4, <3>1, SamePresent DEF Core
  <2>4. \A u, w \in Threads : Alone(u, w, c)'
    BY <1>1, <2>1 DEF Core, Alone, Holding, Owning, Hands, Closing
  <2>5. Record(c)'
    BY <1>1, <1>3, SameRecord DEF Core, Record
  <2>6. \A u \in Threads : pc'[u] \in {"wait", "exit"} => batch'[u] = {}
    BY <1>1, <2>1 DEF Core
  <2>7. QED
    BY <1>1, <1>2, <1>3, <1>4, <2>2, <2>3, <2>4, <2>5, <2>6, CoreAround
<1>7. QED
  BY <1>5, <1>6 DEF AcceptStops, FcntlFails, NextEvent, Busy, Shape, TypeOK

\* accept() makes a record nobody has seen, for a descriptor nobody has.
LEMMA AcceptKeepsCore ==
    ASSUME Shape, Core, NEW t \in Threads, Accept(t)
    PROVE  Core'
<1>1. PICK c \in Backlog, f \in FreeFds :
        /\ sock' = [sock EXCEPT ![c] = "open"] /\ owner' = [owner EXCEPT ![f] = c]
        /\ fd' = [fd EXCEPT ![c] = f] /\ status' = [status EXCEPT ![c] = "READING"]
        /\ timer' = [timer EXCEPT ![c] = "armed"] /\ cur' = [cur EXCEPT ![t] = c]
  BY DEF Accept
<1>2. /\ pc' = [pc EXCEPT ![t] = "add"] /\ UNCHANGED <<reg, batch, served, ctlFailed>>
      /\ pc[t] = "accept"
  BY DEF Accept, history
<1>3. c \in Conns /\ f \in Fds /\ owner[f] = NoConn /\ status[c] = "none" /\ timer[c] = "none"
      /\ served[c] = 0 /\ \A g \in Fds : owner[g] # c
  BY DEF Backlog, FreeFds, Core, Record
<1>4. /\ sock'[c] = "open" /\ owner'[f] = c /\ fd'[c] = f /\ status'[c] = "READING"
      /\ timer'[c] = "armed" /\ cur'[t] = c /\ pc'[t] = "add"
      /\ \A g \in Fds \ {f} : owner'[g] = owner[g]
      /\ \A d \in Conns \ {c} : /\ sock'[d] = sock[d] /\ fd'[d] = fd[d]
                                /\ status'[d] = status[d] /\ timer'[d] = timer[d]
      /\ \A u \in Threads \ {t} : cur'[u] = cur[u] /\ pc'[u] = pc[u]
  BY <1>1, <1>2, <1>3 DEF Shape, TypeOK
<1>5. \A u \in Threads : c \notin batch[u] /\ (cur[u] = c => pc[u] \notin Busy)
  BY <1>3 DEF Core, Present, EventOf, Busy
<1>6. \A d \in Conns \ {c} : Same(d) /\ \A u \in Threads : Stays(u, d)
  BY <1>2, <1>3, <1>4, ClientAssumption DEF Same, Has, Stays
<1>7. \A g \in Fds : Descriptor(g)'
  BY <1>2, <1>3, <1>4, ClientAssumption DEF Core, Descriptor, Shape, TypeOK
<1>8. reg[f].st = "none"
  BY <1>3 DEF Core, Descriptor
<1>9. Has(c)'
  BY <1>3, <1>4 DEF Has
<1>10. Record(c)'
  BY <1>2, <1>3, <1>4, <1>8, <1>9 DEF Record
<1>11. \A u \in Threads : Present(u, c)'
  BY <1>2, <1>3, <1>4, <1>5, <1>8, <1>9 DEF Present, Busy
<1>12. \A u, w \in Threads : Alone(u, w, c)'
  BY <1>2, <1>4, <1>5 DEF Alone, Holding, Owning, Hands, Closing, Busy
<1>13. \A u \in Threads : pc'[u] \in {"wait", "exit"} => batch'[u] = {}
  BY <1>2, <1>4 DEF Core
<1>14. \A d \in Conns \ {c}, g \in Fds : owner'[g] = d => owner[g] = d
  BY <1>3, <1>4
<1>15. QED
  BY <1>2, <1>3, <1>4, <1>6, <1>7, <1>10, <1>11, <1>12, <1>13, <1>14, CoreAround

\* A thread that holds c alone has no company: any other thread with c in hand
\* is closing it, after the timer was cancelled.
LEMMA HolderAlone ==
    ASSUME Core, NEW t \in Threads, NEW c \in Conns, cur[t] = c, pc[t] \in Hands,
           NEW u \in Threads
    PROVE  /\ c \notin batch[u]
           /\ u # t /\ cur[u] = c => pc[u] \notin Hands
BY DEF Core, Alone, Holding

\* The thread's own step on the connection it has in hand leaves the others.
LEMMA OthersKept ==
    ASSUME Shape, Core, NEW t \in Threads, NEW c \in Conns, cur[t] = c, pc[t] \in Busy,
           UNCHANGED <<batch, fd>>,
           \A u \in Threads \ {t} : pc'[u] = pc[u] /\ cur'[u] = cur[u],
           cur'[t] \in {c, NoConn}, pc'[t] \notin {"wait", "exit"},
           \A d \in Conns \ {c} : status'[d] = status[d] /\ timer'[d] = timer[d],
           \A f \in Fds : owner'[f] = owner[f] \/ (owner[f] = c /\ owner'[f] = NoConn),
           \A f \in Fds : reg'[f] = reg[f] \/ owner[f] = c
    PROVE  /\ \A d \in Conns \ {c} : Same(d) /\ \A u \in Threads : Stays(u, d)
           /\ \A d \in Conns \ {c}, f \in Fds : owner'[f] = d => owner[f] = d
           /\ \A u \in Threads : pc'[u] \in {"wait", "exit"} => batch'[u] = {}
<1>1. \A d \in Conns \ {c} : Same(d)
  BY ClientAssumption DEF Same, Has
<1>2. \A d \in Conns \ {c}, u \in Threads : Stays(u, d)
  BY ClientAssumption DEF Stays
<1>3. \A d \in Conns \ {c}, f \in Fds : owner'[f] = d => owner[f] = d
  BY ClientAssumption
<1>4. \A u \in Threads : pc'[u] \in {"wait", "exit"} => batch'[u] = {}
  BY DEF Core
<1>5. QED
  BY <1>1, <1>2, <1>3, <1>4

\* ... and its claims on c grow only where it was the only one.
LEMMA OwnClaims ==
    ASSUME Core, NEW t \in Threads, NEW c \in Conns, cur[t] = c,
           UNCHANGED batch,
           \A u \in Threads \ {t} : pc'[u] = pc[u] /\ cur'[u] = cur[u],
           cur'[t] = c /\ pc'[t] \in Hands => pc[t] \in Hands,
           cur'[t] = c /\ pc'[t] \in Closing =>
               \/ pc[t] \in Closing
               \/ \A u \in Threads \ {t} : cur[u] = c => pc[u] \notin Closing
    PROVE  \A u, w \in Threads : Alone(u, w, c)'
BY DEF Core, Alone, Holding, Owning

\* The step hands the registration of a number to epoll again.
LEMMA AddKeepsCore ==
    ASSUME Shape, Core, NEW t \in Threads, Add(t) \/ AddFails(t)
    PROVE  Core'
<1>1. PICK c \in Conns : cur[t] = c /\ pc[t] = "add"
  BY DEF Add, AddFails, Shape, Busy
<1>2. PICK f \in Fds : f = fd[c] /\ owner[f] = c
  BY <1>1 DEF Core, Present, Has
<1>3. status[c] = "READING" /\ timer[c] = "armed" /\ Has(c) /\ reg[f].st = "none"
  BY <1>1, <1>2 DEF Core, Present
<1>4. /\ UNCHANGED <<batch, fd, timer, owner, sock, served>>
      /\ pc'[t] = "accept" /\ cur'[t] = NoConn
      /\ \A u \in Threads \ {t} : pc'[u] = pc[u] /\ cur'[u] = cur[u]
      /\ ctlFailed \subseteq ctlFailed'
  BY DEF Add, AddFails, kernel, history, Shape, TypeOK
<1>5. \/ /\ reg' = [reg EXCEPT ![f] = [st |-> "armed", ptr |-> c]] /\ UNCHANGED status
      \/ /\ UNCHANGED reg /\ status' = [status EXCEPT ![c] = "freed"] /\ c \in ctlFailed'
  BY <1>1, <1>2 DEF Add, AddFails, kernel
<1>6. /\ \A d \in Conns \ {c} : Same(d) /\ \A u \in Threads : Stays(u, d)
      /\ \A d \in Conns \ {c}, g \in Fds : owner'[g] = d => owner[g] = d
      /\ \A u \in Threads : pc'[u] \in {"wait", "exit"} => batch'[u] = {}
  <2>1. \A d \in Conns \ {c} : status'[d] = status[d] /\ timer'[d] = timer[d]
    BY <1>4, <1>5 DEF Shape, TypeOK
  <2>2. \A g \in Fds : reg'[g] = reg[g] \/ owner[g] = c
    BY <1>2, <1>5 DEF Shape, TypeOK
  <2>3. pc[t] \in Busy /\ cur'[t] \in {c, NoConn} /\ pc'[t] \notin {"wait", "exit"}
    BY <1>1, <1>4 DEF Busy
  <2>4. \A g \in Fds : owner'[g] = owner[g] \/ (owner[g] = c /\ owner'[g] = NoConn)
    BY <1>4
  <2>5. QED
    BY <1>1, <1>4, <2>1, <2>2, <2>3, <2>4, OthersKept
<1>7. \A u \in Threads : c \notin batch[u] /\ (u # t /\ cur[u] = c => pc[u] \notin Busy)
  <2>1. \A u \in Threads : c \notin batch[u] /\ (u # t /\ cur[u] = c => pc[u] \notin Hands)
    BY <1>1, HolderAlone DEF Hands
  <2>2. \A u \in Threads : cur[u] = c => pc[u] \notin {"shutdown", "close"}
    BY <1>3 DEF Core, Present
  <2>3. QED
    BY <2>1, <2>2 DEF Busy, Hands
<1>8. \A u \in Threads : Present(u, c)'
  BY <1>4, <1>7, ClientAssumption DEF Present, Busy
<1>9. \A u, w \in Threads : Alone(u, w, c)'
  BY <1>1, <1>4, OwnClaims, ClientAssumption
<1>10. Record(c)'
  BY <1>2, <1>3, <1>4, <1>5 DEF Core, Record, Has, Shape, TypeOK
<1>11. \A g \in Fds : Descriptor(g)'
  <2>1. \A g \in Fds : reg'[g] = reg[g] \/ (g = f /\ reg'[g].ptr = c)
    BY <1>5 DEF Shape, TypeOK
  <2>2. QED
    BY <1>2, <1>4, <2>1, ClientAssumption DEF Core, Descriptor
<1>12. QED
  BY <1>4, <1>6, <1>8, <1>9, <1>10, <1>11, CoreAround

\* A look at an event ends in reading its request, or in freeing its record.
LEMMA LookKeepsCore ==
    ASSUME Shape, Core, NEW t \in Threads, LookReading(t) \/ LookEnded(t)
    PROVE  Core'
<1>1. PICK c \in Conns : cur[t] = c /\ pc[t] = "look"
  BY DEF LookReading, LookEnded, Shape, Busy
<1>2. EventOf(c)
  BY <1>1 DEF Core, Present
<1>3. /\ UNCHANGED <<batch, fd, owner, reg, sock, served, ctlFailed>>
      /\ \A u \in Threads \ {t} : pc'[u] = pc[u] /\ cur'[u] = cur[u]
      /\ \/ /\ status[c] = "READING" /\ timer' = [timer EXCEPT ![c] = "cancelled"]
            /\ UNCHANGED status /\ pc'[t] = "read" /\ cur'[t] = c
         \/ /\ status[c] = "ENDED" /\ status' = [status EXCEPT ![c] = "freed"]
            /\ UNCHANGED timer /\ pc'[t] = "next" /\ cur'[t] = NoConn
  BY <1>1, <1>2 DEF LookReading, LookEnded, EventOf, kernel, Shape, TypeOK
<1>4. /\ \A d \in Conns \ {c} : Same(d) /\ \A u \in Threads : Stays(u, d)
      /\ \A d \in Conns \ {c}, g \in Fds : owner'[g] = d => owner[g] = d
      /\ \A u \in Threads : pc'[u] \in {"wait", "exit"} => batch'[u] = {}
  <2>1. \A d \in Conns \ {c} : status'[d] = status[d] /\ timer'[d] = timer[d]
    BY <1>3 DEF Shape, TypeOK
  <2>2. pc[t] \in Busy /\ cur'[t] \in {c, NoConn} /\ pc'[t] \notin {"wait", "exit"}
    BY <1>1, <1>3 DEF Busy
  <2>3. QED
    BY <1>1, <1>3, <2>1, <2>2, OthersKept
<1>5. \A u \in Threads : c \notin batch[u] /\ (u # t /\ cur[u] = c => pc[u] \notin Hands)
  BY <1>1, HolderAlone DEF Hands
<1>6. status[c] = "READING" => \A u \in Threads : cur[u] = c => pc[u] \notin Closing \ Hands
  BY <1>2 DEF Core, Present, EventOf, Closing, Hands
<1>7. /\ timer'[c] = "cancelled"
      /\ \/ status[c] = "READING" /\ status'[c] = "READING" /\ timer[c] = "armed" /\ Has(c)
            /\ reg[fd[c]].st = "fired" /\ pc'[t] = "read"
         \/ status[c] = "ENDED" /\ status'[c] = "freed" /\ cur'[t] # c
            /\ (Has(c) => reg[fd[c]].st # "armed")
  BY <1>2, <1>3, ClientAssumption DEF EventOf, Shape, TypeOK
<1>8. \A u \in Threads : Present(u, c)'
  <2>1. Has(c)' <=> Has(c)
    BY <1>3 DEF Has
  <2>2. Present(t, c)'
    BY <1>1, <1>3, <1>5, <1>7, <2>1 DEF Present
  <2>3. \A u \in Threads \ {t} : Present(u, c)'
    BY <1>3, <1>5, <1>6, <1>7, <2>1 DEF Core, Present, Closing, Hands
  <2>4. QED
    BY <2>2, <2>3
<1>9. \A u, w \in Threads : Alone(u, w, c)'
  <2>1. cur'[t] = c => \A u \in Threads \ {t} : cur[u] = c => pc[u] \notin Closing
    BY <1>3, <1>5, <1>6, <1>7, ClientAssumption
  <2>2. pc[t] \in Hands
    BY <1>1 DEF Hands
  <2>3. QED
    BY <1>1, <1>3, <2>1, <2>2, OwnClaims
<1>10. Record(c)'
  BY <1>3, <1>7 DEF Core, Record, Has
<1>11. \A g \in Fds : Descriptor(g)'
  BY <1>3 DEF Core, Descriptor
<1>12. QED
  BY <1>3, <1>4, <1>8, <1>9, <1>10, <1>11, CoreAround

\* Reading and handling go on with a cancelled timer and a fired registration.
LEMMA ServeKeepsCore ==
    ASSUME Shape, Core, NEW t \in Threads,
           ReadRequest(t) \/ AwaitBody(t) \/ TakeBody(t) \/ ReadFails(t) \/ Handle(t) \/ Rearm(t)
    PROVE  Core'
<1>1. PICK c \in Conns : cur[t] = c /\ pc[t] \in {"read", "body", "handle", "rearm"}
  BY DEF ReadRequest, AwaitBody, TakeBody, ReadFails, MayFail, Handle, HandlerRuns, Rearm, Shape, Busy
<1>2. PICK f \in Fds : f = fd[c] /\ owner[f] = c
  BY <1>1 DEF Core, Present, Has
<1>3. /\ status[c] = (IF pc[t] = "rearm" THEN "ENDED" ELSE "READING")
      /\ timer[c] = "cancelled" /\ Has(c) /\ reg[f].st = "fired"
      /\ reg[f].ptr = c
  BY <1>1, <1>2, ClientAssumption DEF Core, Present, Descriptor
<1>4. /\ UNCHANGED <<batch, cur, fd, timer, owner, sock>>
      /\ \A u \in Threads \ {t} : pc'[u] = pc[u]
      /\ \A d \in Conns \ {c} : status'[d] = status[d] /\ served'[d] = served[d]
      /\ ctlFailed \subseteq ctlFailed'
  BY <1>1 DEF ReadRequest, AwaitBody, TakeBody, ReadFails, Handle, HandlerRuns, Rearm, kernel,
     history, Shape, TypeOK
<1>5. \/ /\ pc[t] \in {"read", "body"} /\ pc'[t] \in {"body", "handle"}
         /\ UNCHANGED <<status, served, reg>>
      \/ /\ pc[t] \in {"read", "body"} /\ pc'[t] = "shutdown" /\ UNCHANGED <<served, reg>>
         /\ status'[c] = "freed"
      \/ /\ pc[t] = "handle" /\ pc'[t] = "rearm" /\ UNCHANGED reg
         /\ status'[c] = "ENDED" /\ served'[c] = served[c] + 1
      \/ /\ pc[t] = "rearm" /\ pc'[t] = "shutdown" /\ UNCHANGED <<status, served>>
         /\ reg' = [reg EXCEPT ![f] = [st |-> "armed", ptr |-> c]] \/ UNCHANGED reg
  <2>1. served[c] < 2
    <3>1. served[c] <= 1 /\ served[c] \in 0..2
      BY DEF Core, Record, Shape, TypeOK
    <3>2. QED
      BY <3>1
  <2>2. CASE ReadRequest(t) \/ AwaitBody(t) \/ TakeBody(t)
    BY <1>1, <2>2 DEF ReadRequest, AwaitBody, TakeBody, history, Shape, TypeOK
  <2>3. CASE ReadFails(t)
    BY <1>1, <2>3 DEF ReadFails, MayFail, Shape, TypeOK
  <2>4. CASE Handle(t)
    BY <1>1, <1>3, <2>1, <2>4 DEF Handle, HandlerRuns, kernel, Shape, TypeOK
  <2>5. CASE Rearm(t)
    BY <1>1, <1>2, <2>5 DEF Rearm, Shape, TypeOK
  <2>6. QED
    BY <2>2, <2>3, <2>4, <2>5
<1>6. \A g \in Fds : reg'[g] = reg[g] \/ (g = f /\ reg'[g] = [st |-> "armed", ptr |-> c])
  BY <1>5 DEF Shape, TypeOK
<1>7. /\ \A d \in Conns \ {c} : Same(d) /\ \A u \in Threads : Stays(u, d)
      /\ \A d \in Conns \ {c}, g \in Fds : owner'[g] = d => owner[g] = d
      /\ \A u \in Threads : pc'[u] \in {"wait", "exit"} => batch'[u] = {}
  <2>1. \A g \in Fds : reg'[g] = reg[g] \/ owner[g] = c
    BY <1>2, <1>6
  <2>2. pc[t] \in Busy /\ cur'[t] \in {c, NoConn} /\ pc'[t] \notin {"wait", "exit"}
    BY <1>1, <1>4, <1>5 DEF Busy
  <2>3. QED
    BY <1>1, <1>4, <2>1, <2>2, OthersKept
<1>8. \A u \in Threads : c \notin batch[u] /\ (u # t /\ cur[u] = c => pc[u] \notin Busy)
  <2>1. \A u \in Threads : c \notin batch[u] /\ (u # t /\ cur[u] = c => pc[u] \notin Hands)
    BY <1>1, HolderAlone DEF Hands
  <2>2. \A u \in Threads : u # t /\ cur[u] = c => pc[u] \notin Closing
    BY <1>1 DEF Core, Alone, Owning, Closing
  <2>3. QED
    BY <2>1, <2>2 DEF Busy, Closing, Hands
<1>9. \A u \in Threads : Present(u, c)'
  <2>1. Present(t, c)'
    BY <1>1, <1>2, <1>3, <1>4, <1>5, <1>8 DEF Present, Has
  <2>2. \A u \in Threads \ {t} : Present(u, c)'
    BY <1>4, <1>8 DEF Present, Busy
  <2>3. QED
    BY <2>1, <2>2
<1>10. \A u, w \in Threads : Alone(u, w, c)'
  <2>1. pc[t] \in Hands /\ pc[t] \in Closing
    BY <1>1 DEF Hands, Closing
  <2>2. QED
    BY <1>1, <1>4, <2>1, OwnClaims
<1>11. Record(c)'
  BY <1>2, <1>3, <1>4, <1>5 DEF Core, Record, Has, Shape, TypeOK
<1>12. \A g \in Fds : Descriptor(g)'
  BY <1>2, <1>4, <1>6, ClientAssumption DEF Core, Descriptor
<1>13. QED
  BY <1>4, <1>7, <1>9, <1>10, <1>11, <1>12, CoreAround

\* closeClientConnection acts on the thread's own descriptor.
LEMMA CloseKeepsCore ==
    ASSUME Shape, Core, NEW t \in Threads, ShutdownConn(t) \/ CloseConn(t)
    PROVE  Core'
<1>1. PICK c \in Conns : cur[t] = c /\ pc[t] \in {"shutdown", "close"}
  BY DEF ShutdownConn, CloseConn, Shape, Busy
<1>2. PICK f \in Fds : f = fd[c] /\ owner[f] = c
  BY <1>1 DEF Core, Present, Has
<1>3. status[c] \in {"ENDED", "freed"} /\ timer[c] = "cancelled" /\ Has(c)
  BY <1>1 DEF Core, Present
<1>4. /\ UNCHANGED <<batch, fd, timer, status, served, ctlFailed>>
      /\ \A u \in Threads \ {t} : pc'[u] = pc[u] /\ cur'[u] = cur[u]
      /\ \/ /\ pc'[t] = "close" /\ cur'[t] = c /\ UNCHANGED <<sock, owner, reg>>
         \/ /\ pc'[t] = "next" /\ cur'[t] = NoConn
            /\ sock' = [sock EXCEPT ![c] = "closed"]
            /\ owner' = [owner EXCEPT ![f] = NoConn]
            /\ reg' = [reg EXCEPT ![f] = NoReg]
  BY <1>1, <1>2, ClientAssumption DEF ShutdownConn, CloseConn, CloseFd, history, Shape, TypeOK
<1>5. /\ \A g \in Fds : owner'[g] = owner[g] \/ (owner[g] = c /\ owner'[g] = NoConn)
      /\ \A g \in Fds : reg'[g] = reg[g] \/ (g = f /\ reg'[g] = NoReg)
      /\ \A d \in Conns : sock'[d] = sock[d] \/ sock'[d] = "closed"
  BY <1>2, <1>4 DEF Shape, TypeOK
<1>6. /\ \A d \in Conns \ {c} : Same(d) /\ \A u \in Threads : Stays(u, d)
      /\ \A d \in Conns \ {c}, g \in Fds : owner'[g] = d => owner[g] = d
      /\ \A u \in Threads : pc'[u] \in {"wait", "exit"} => batch'[u] = {}
  <2>1. pc[t] \in Busy /\ cur'[t] \in {c, NoConn} /\ pc'[t] \notin {"wait", "exit"}
    BY <1>1, <1>4 DEF Busy
  <2>2. \A g \in Fds : reg'[g] = reg[g] \/ owner[g] = c
    BY <1>2, <1>5
  <2>3. QED
    BY <1>1, <1>4, <1>5, <2>1, <2>2, OthersKept
<1>7. \A u \in Threads : u # t /\ cur[u] = c => pc[u] \notin Closing
  BY <1>1 DEF Core, Alone, Owning, Closing
<1>8. \A u \in Threads : Present(u, c)'
  <2>1. CASE pc'[t] = "close"
    BY <1>1, <1>4, <2>1 DEF Core, Present, EventOf, Has
  <2>2. CASE pc'[t] = "next"
    <3>1. cur'[t] = NoConn /\ owner'[f] = NoConn
      BY <1>2, <1>4, <2>2 DEF Shape, TypeOK
    <3>2. ~Has(c)'
      BY <1>2, <1>4, <3>1, ClientAssumption DEF Has
    <3>3. EventOf(c) => EventOf(c)'
      BY <1>3, <1>4, <3>2 DEF EventOf
    <3>4. Present(t, c)'
      BY <1>4, <3>1, <3>3, ClientAssumption DEF Core, Present
    <3>5. \A u \in Threads \ {t} : Present(u, c)'
      BY <1>4, <1>7, <3>3 DEF Core, Present, Closing
    <3>6. QED
      BY <3>4, <3>5
  <2>3. QED
    BY <1>4, <2>1, <2>2
<1>9. \A u, w \in Threads : Alone(u, w, c)'
  <2>1. pc'[t] \notin Hands /\ pc[t] \in Closing
    BY <1>1, <1>4 DEF Hands, Closing
  <2>2. QED
    BY <1>1, <1>4, <2>1, OwnClaims
<1>10. Record(c)'
  BY <1>2, <1>3, <1>4, <1>5, ClientAssumption DEF Core, Record, Has, NoReg, Shape, TypeOK
<1>11. \A g \in Fds : Descriptor(g)'
  <2>1. \A g \in Fds \ {f} : owner'[g] = owner[g] /\ reg'[g] = reg[g]
    BY <1>4 DEF Shape, TypeOK
  <2>2. \/ owner'[f] = owner[f] /\ reg'[f] = reg[f]
        \/ owner'[f] = NoConn /\ reg'[f].st = "none"
    BY <1>4 DEF NoReg, Shape, TypeOK
  <2>3. QED
    BY <1>4, <2>1, <2>2 DEF Core, Descriptor
<1>12. QED
  BY <1>4, <1>5, <1>6, <1>8, <1>9, <1>10, <1>11, CoreAround

\* epoll reports an armed registration once, to one thread.
LEMMA WaitKeepsCore ==
    ASSUME Shape, Core, NEW t \in Threads, EpollWait(t), raced' = {}
    PROVE  Core'
<1>1. PICK taken \in SUBSET DeliverableFds, listening \in BOOLEAN :
         Reported(t, taken, listening)
  BY DEF EpollWait, Reported
<1> DEFINE moved == {reg[f].ptr : f \in taken}
<1>2. /\ pc[t] = "wait" /\ batch[t] = {} /\ batch'[t] \subseteq moved \cup {Listen}
      /\ pc'[t] \in {"next", "exit"} /\ (pc'[t] = "exit" => batch'[t] = {})
      /\ \A u \in Threads \ {t} : pc'[u] = pc[u] /\ batch'[u] = batch[u]
      /\ UNCHANGED <<sock, owner, fd, status, timer, cur, served, ctlFailed>>
  <2>1. pc[t] = "wait" /\ UNCHANGED <<sock, owner, fd, status, timer, cur, served, ctlFailed>>
    BY DEF EpollWait
  <2>2. batch[t] = {}
    BY <2>1 DEF Core
  <2>3. \/ /\ \E L \in SUBSET {Listen} : batch' = [batch EXCEPT ![t] = moved \cup L]
           /\ pc' = [pc EXCEPT ![t] = "next"]
        \/ pc' = [pc EXCEPT ![t] = "exit"] /\ batch' = batch
    BY <1>1 DEF Reported
  <2> HIDE DEF moved
  <2>4. QED
    BY <2>1, <2>2, <2>3 DEF Shape, TypeOK
<1>3. \A f \in Fds : /\ f \in taken => reg'[f].st = "fired" /\ reg'[f].ptr = reg[f].ptr
                     /\ f \notin taken => reg'[f] = reg[f]
  BY <1>1 DEF Reported, OneShot, Shape, TypeOK
<1>4. ASSUME NEW c \in moved
      PROVE  /\ c \in Conns /\ Has(c) /\ fd[c] \in taken /\ reg[fd[c]].st = "armed"
             /\ ~TimerRunning(c)
  <2>1. PICK f \in taken : c = reg[f].ptr
    BY <1>4
  <2>2. f \in Fds /\ reg[f].st = "armed" /\ owner[f] # NoConn
    BY <2>1 DEF DeliverableFds, Deliverable
  <2>3. c = owner[f] /\ fd[c] = f
    BY <2>1, <2>2 DEF Core, Descriptor
  <2>4. c \in Conns
    BY <2>2, <2>3 DEF Shape, TypeOK
  <2>5. ~TimerRunning(c)
    BY <1>1, <1>4, <2>4 DEF Reported
  <2>6. QED
    BY <2>1, <2>2, <2>3, <2>4, <2>5 DEF Has
<1>5. moved \in SUBSET Conns
  BY <1>4
<1>6. \A d \in Conns : Has(d) /\ fd[d] \in taken => d \in moved
  <2> SUFFICES ASSUME NEW d \in Conns, Has(d), fd[d] \in taken PROVE d \in moved
    OBVIOUS
  <2>1. reg[fd[d]].ptr = d
    BY DEF Has, DeliverableFds, Deliverable, Core, Descriptor
  <2>2. QED
    BY <2>1
<1> HIDE DEF moved
<1>7. \A d \in Conns : Has(d)' <=> Has(d)
  BY <1>2 DEF Has
<1>8. \A d \in Conns \ moved : Same(d)
  BY <1>2, <1>3, <1>6, <1>7 DEF Same, Has
<1>9. \A d \in Conns \ moved, u \in Threads : Stays(u, d)
  BY <1>2, ClientAssumption DEF Stays, Busy
<1>10. ASSUME NEW c \in moved
       PROVE  /\ \A u \in Threads : Present(u, c)'
              /\ \A u, w \in Threads : Alone(u, w, c)'
              /\ Record(c)'
  <2>1. /\ c \in Conns /\ Has(c) /\ fd[c] \in Fds /\ reg[fd[c]].st = "armed"
        /\ reg'[fd[c]].st = "fired" /\ Has(c)'
    BY <1>3, <1>4, <1>7, <1>10 DEF Has
  <2>2. \/ status[c] = "READING" /\ timer[c] = "armed"
        \/ status[c] = "ENDED" /\ timer[c] = "cancelled"
    BY <1>4, <1>10, <2>1 DEF Core, Record, TimerRunning
  <2>3. EventOf(c)'
    BY <1>2, <2>1, <2>2 DEF EventOf
  <2>4. \A u \in Threads : c \notin batch[u] /\ (cur[u] = c => pc[u] \notin Hands \cup {"look"})
    <3> SUFFICES ASSUME NEW u \in Threads
                 PROVE  c \notin batch[u] /\ (cur[u] = c => pc[u] \notin Hands \cup {"look"})
      OBVIOUS
    <3>1. Present(u, c)
      BY <2>1 DEF Core
    <3>2. ~EventOf(c)
      BY <2>1 DEF EventOf
    <3>3. QED
      BY <2>1, <3>1, <3>2 DEF Present, Hands
  <2>5. \A u \in Threads : Present(u, c)'
    <3>1. Present(t, c)'
      BY <1>2, <2>3 DEF Present
    <3>2. \A u \in Threads \ {t} : Present(u, c)'
      BY <1>2, <2>1, <2>4, <1>7 DEF Core, Present, Hands
    <3>3. QED
      BY <3>1, <3>2
  <2>6. \A u, w \in Threads : Alone(u, w, c)'
    BY <1>2, <2>1, <2>4 DEF Core, Alone, Holding, Owning, Hands, Closing
  <2>7. Record(c)'
    BY <1>2, <2>1 DEF Core, Record, Has
  <2>8. QED
    BY <2>5, <2>6, <2>7
<1>11. \A f \in Fds : Descriptor(f)'
  BY <1>2, <1>3 DEF Core, Descriptor, DeliverableFds, Deliverable
<1>12. \A u \in Threads : pc'[u] \in {"wait", "exit"} => batch'[u] = {}
  BY <1>2 DEF Core
<1>13. QED
  BY <1>2, <1>5, <1>8, <1>9, <1>10, <1>11, <1>12, CoreByParts

\* An event of a closed listening socket ends the process, and with it all.
LEMMA StrayEndsAll ==
    ASSUME Shape, Core, NEW t \in Threads, StrayListenEvent(t)
    PROVE  Gone'
<1>1. \A u \in Threads, c \in Conns : c \in batch[u] => status[c] \in {"READING", "ENDED"}
  BY DEF Core, Present, EventOf
<1>2. \A c \in Conns : served[c] <= 1
  BY DEF Core, Record
<1>3. QED
  BY <1>1, <1>2 DEF StrayListenEvent, Gone

-----------------------------------------------------------------------------
(* The invariant. *)

\* While no handler has raced its own event, who may reach what is kept.
LEMMA CoreNext ==
    ASSUME Shape, Core \/ Gone, [Next]_vars, raced' = {}
    PROVE  Core' \/ Gone'
<1>1. CASE Core
  <2>1. CASE CloseServer \/ (\E c \in Conns : Connect(c) \/ PeerData(c)) \/ UNCHANGED vars
    BY <1>1, <2>1, PeersKeepCore
  <2>2. ASSUME NEW c \in Conns, Timer(c) PROVE Core'
    BY <1>1, <2>2, TimerFiresKeepsCore, TimerHandlerKeepsCore DEF Timer
  <2>3. ASSUME NEW t \in Threads, Thread(t) PROVE Core' \/ Gone'
    BY <1>1, <2>3, WaitKeepsCore, LoopKeepsCore, StrayEndsAll, AcceptKeepsCore, AddKeepsCore,
       LookKeepsCore, ServeKeepsCore, CloseKeepsCore DEF Thread
  <2>4. QED
    BY <2>1, <2>2, <2>3 DEF Next
<1>2. CASE Gone
  <2>1. \A t \in Threads : ~Thread(t)
    BY <1>2 DEF Gone, Thread, EpollWait, NextEvent, StrayListenEvent, Accept, AcceptStops,
       FcntlFails, Add, AddFails, LookReading, LookEnded, ReadRequest, AwaitBody, TakeBody,
       ReadFails, MayFail, Handle, HandlerRuns, Rearm, ShutdownConn, CloseConn
  <2>2. \A c \in Conns : ~Timer(c) /\ ~Connect(c)
    BY <1>2 DEF Gone, Timer, TimerFires, TimerShutdown, TimerClose, TimerFree, Connect
  <2>3. ~CloseServer
    BY <1>2 DEF Gone, CloseServer
  <2>4. (\E c \in Conns : PeerData(c)) \/ UNCHANGED vars
    BY <2>1, <2>2, <2>3 DEF Next
  <2>5. UNCHANGED <<serverOpen, pc, timer, served, reg, batch, status>>
    BY <2>4 DEF PeerData, vars, kernel, process, history
  <2>6. QED
    BY <1>2, <2>5 DEF Gone
<1>3. QED
  BY <1>1, <1>2

\* A response that is written now goes to the socket of its connection.
LEMMA DeliveredNext ==
    ASSUME Shape, Core \/ Gone, misdelivered = {}, [Next]_vars
    PROVE  misdelivered' = {}
<1>1. ASSUME NEW t \in Threads, Handle(t) PROVE misdelivered' = {}
  <2>1. PICK c \in Conns : cur[t] = c /\ pc[t] = "handle"
    BY <1>1 DEF Handle, HandlerRuns, Shape, Busy
  <2>2. Core
    BY <2>1 DEF Gone
  <2>3. owner[fd[c]] = c
    BY <2>1, <2>2 DEF Core, Present, Has
  <2>4. QED
    BY <1>1, <2>1, <2>3 DEF Handle, HandlerRuns
<1>2. CASE ~\E t \in Threads : Handle(t)
  BY <1>2 DEF Next, Timer, TimerFires, TimerShutdown, TimerClose, TimerFree, Connect, PeerData,
     CloseServer, Thread, EpollWait, NextEvent, StrayListenEvent, Accept, AcceptStops,
     FcntlFails, Add, AddFails, LookReading, LookEnded, ReadRequest, AwaitBody, TakeBody,
     ReadFails, Rearm, ShutdownConn, CloseConn, vars, history
<1>3. QED
  BY <1>1, <1>2

\* What a step touches is there: no step of an undisturbed server commits a
\* fault other than following the number of its own closed socket.
LEMMA FaultlessNext ==
    ASSUME Shape, Core \/ Gone, faults \subseteq {"wild_pointer"}, [Next]_vars, Undisturbed'
    PROVE  faults' \subseteq {"wild_pointer"}
<1>1. ASSUME NEW c \in Conns, Timer(c) PROVE faults' \subseteq {"wild_pointer"}
  <2>1. timer[c] # "free" \/ status[c] # "freed"
    <3>1. ctlFailed = {} \/ timer[c] # "free"
      BY <1>1 DEF Timer, TimerFires, TimerShutdown, TimerClose, TimerFree, history, Undisturbed
    <3>2. QED
      BY <3>1 DEF Core, Record, Gone
  <2>2. QED
    BY <1>1, <2>1 DEF Timer, TimerFires, TimerShutdown, TimerClose, TimerFree, Faulting,
       FreeFault, history
<1>2. ASSUME NEW t \in Threads, Thread(t) PROVE faults' \subseteq {"wild_pointer"}
  <2>1. Core
    BY <1>2 DEF Gone, Thread, EpollWait, NextEvent, StrayListenEvent, Accept, AcceptStops,
       FcntlFails, Add, AddFails, LookReading, LookEnded, ReadRequest, AwaitBody, TakeBody,
       ReadFails, MayFail, Handle, HandlerRuns, Rearm, ShutdownConn, CloseConn
  <2>2. CASE AddFails(t)
    BY <2>2 DEF AddFails, Undisturbed
  <2>3. CASE LookReading(t) \/ LookEnded(t)
    <3>1. PICK c \in Conns : cur[t] = c /\ pc[t] = "look"
      BY <2>3 DEF LookReading, LookEnded, Shape, Busy
    <3>2. EventOf(c)
      BY <2>1, <3>1 DEF Core, Present
    <3>3. QED
      BY <2>3, <3>1, <3>2 DEF LookReading, LookEnded, Faulting, UseFault, FreeFault,
         TimerReleased, EventOf
  <2>4. CASE ReadFails(t) \/ Handle(t)
    <3>1. PICK c \in Conns : cur[t] = c /\ pc[t] \in {"read", "body", "handle"}
      BY <2>4 DEF ReadFails, MayFail, Handle, HandlerRuns, Shape, Busy
    <3>2. status[c] = "READING"
      BY <2>1, <3>1 DEF Core, Present
    <3>3. QED
      BY <2>4, <3>1, <3>2 DEF ReadFails, Handle, HandlerRuns, Faulting, UseFault, FreeFault
  <2>5. CASE EpollWait(t) \/ NextEvent(t) \/ StrayListenEvent(t) \/ Accept(t) \/ AcceptStops(t)
             \/ FcntlFails(t) \/ Add(t) \/ ReadRequest(t) \/ AwaitBody(t) \/ TakeBody(t) \/ Rearm(t)
             \/ ShutdownConn(t) \/ CloseConn(t)
    BY <2>5 DEF EpollWait, NextEvent, StrayListenEvent, Faulting, Accept, AcceptStops,
       FcntlFails, Add, ReadRequest, AwaitBody, TakeBody, Rearm, ShutdownConn, CloseConn, history
  <2>6. QED
    BY <1>2, <2>2, <2>3, <2>4, <2>5 DEF Thread
<1>3. CASE CloseServer \/ (\E c \in Conns : Connect(c) \/ PeerData(c)) \/ UNCHANGED vars
  BY <1>3 DEF CloseServer, Connect, PeerData, vars, history
<1>4. QED
  BY <1>1, <1>2, <1>3 DEF Next

\* Neither set of disturbances ever shrinks.
LEMMA DisturbancesStay ==
    ASSUME [Next]_vars
    PROVE  raced \subseteq raced' /\ ctlFailed \subseteq ctlFailed'
<1>1. ASSUME NEW c \in Conns, Timer(c)
      PROVE  raced \subseteq raced' /\ ctlFailed \subseteq ctlFailed'
  BY <1>1 DEF Timer, TimerFires, TimerShutdown, TimerClose, TimerFree, history
<1>2. ASSUME NEW t \in Threads, Thread(t)
      PROVE  raced \subseteq raced' /\ ctlFailed \subseteq ctlFailed'
  <2>1. CASE AddFails(t) \/ LookReading(t) \/ LookEnded(t) \/ ReadFails(t) \/ Handle(t)
             \/ Rearm(t) \/ ShutdownConn(t) \/ CloseConn(t)
    BY <2>1 DEF AddFails, LookReading, LookEnded, ReadFails, Handle, HandlerRuns, Rearm,
       ShutdownConn, CloseConn, history
  <2>2. CASE EpollWait(t) \/ NextEvent(t) \/ StrayListenEvent(t) \/ Accept(t) \/ AcceptStops(t)
             \/ FcntlFails(t) \/ Add(t) \/ ReadRequest(t) \/ AwaitBody(t) \/ TakeBody(t)
    BY <2>2 DEF EpollWait, NextEvent, StrayListenEvent, Accept, AcceptStops, FcntlFails, Add,
       ReadRequest, AwaitBody, TakeBody, history
  <2>3. QED
    BY <1>2, <2>1, <2>2 DEF Thread
<1>3. CASE CloseServer \/ (\E c \in Conns : Connect(c) \/ PeerData(c)) \/ UNCHANGED vars
  BY <1>3 DEF CloseServer, Connect, PeerData, vars, history
<1>4. QED
  BY <1>1, <1>2, <1>3 DEF Next

\* Before the first connection everything is in place.
LEMMA InitIInv == Init => IInv
<1> SUFFICES ASSUME Init PROVE IInv
  OBVIOUS
<1>1. Shape
  <2>1. NoReg \in [st : {"none", "armed", "fired"}, ptr : Conns \cup {NoConn}]
    BY DEF NoReg
  <2>2. TypeOK
    <3>1. /\ 0 \in 0..MaxSends /\ 0 \in 0..MaxFailures /\ 0 \in 0..2
          /\ {} \in SUBSET (Conns \cup {Listen})
      BY ClientAssumption
    <3>2. /\ reg \in [Fds -> [st : {"none", "armed", "fired"}, ptr : Conns \cup {NoConn}]]
          /\ sends \in [Conns -> 0..MaxSends] /\ served \in [Conns -> 0..2]
          /\ failures \in 0..MaxFailures
          /\ batch \in [Threads -> SUBSET (Conns \cup {Listen})]
      BY <2>1, <3>1 DEF Init
    <3>3. QED
      BY <3>2 DEF Init, TypeOK
  <2>3. \A f \in Fds : reg[f].st = "none"
    BY DEF Init, NoReg
  <2>4. \A t \in Threads : pc[t] \notin Busy
    BY DEF Init, Busy
  <2>5. QED
    BY <2>2, <2>3, <2>4 DEF Shape
<1>2. Core
  BY ClientAssumption DEF Init, Core, Present, Record, Descriptor, Alone, Holding, Owning,
     Has, NoReg, Hands, Closing
<1>3. misdelivered = {} /\ faults = {}
  BY DEF Init
<1>4. QED
  BY <1>1, <1>2, <1>3 DEF IInv

\* Every step keeps the invariant.
LEMMA NextIInv == IInv /\ [Next]_vars => IInv'
<1> SUFFICES ASSUME IInv, [Next]_vars PROVE IInv'
  OBVIOUS
<1>1. Shape /\ Shape'
  BY ShapeNext DEF IInv
<1>2. raced \subseteq raced' /\ ctlFailed \subseteq ctlFailed'
  BY DisturbancesStay
<1>3. ASSUME raced' = {} PROVE misdelivered' = {} /\ (Core' \/ Gone')
  <2>1. raced = {} /\ misdelivered = {} /\ (Core \/ Gone)
    BY <1>2, <1>3 DEF IInv
  <2>2. QED
    BY <1>1, <1>3, <2>1, CoreNext, DeliveredNext
<1>4. ASSUME Undisturbed' PROVE faults' \subseteq {"wild_pointer"}
  <2>1. Undisturbed
    BY <1>2, <1>4 DEF Undisturbed
  <2>2. (Core \/ Gone) /\ faults \subseteq {"wild_pointer"}
    BY <2>1 DEF IInv, Undisturbed
  <2>3. QED
    BY <1>1, <1>4, <2>2, FaultlessNext
<1>5. QED
  BY <1>1, <1>3, <1>4 DEF IInv

\* The invariant holds throughout, whatever number of threads serve however
\* many connections over however few descriptors.
THEOREM ClientInvariant == Spec => []IInv
<1>1. QED
  BY InitIInv, NextIInv, PTL DEF Spec

\* The types hold even in a run where the timer races the threads.
THEOREM ClientTypeOK == Spec => []TypeOK
<1>1. IInv => TypeOK
  BY DEF IInv, Shape
<1>2. QED
  BY <1>1, ClientInvariant, PTL

\* No record or timer is touched after it is gone, unless a timer's handler
\* overlapped an event of its record or epoll_ctl failed (src/client.c).
THEOREM ClientMemorySafe == Spec => []MemorySafeUnlessRaced
<1>1. IInv => MemorySafeUnlessRaced
  BY DEF IInv, MemorySafeUnlessRaced
<1>2. QED
  BY <1>1, ClientInvariant, PTL

\* One request per connection is read and handled.
THEOREM ClientServedOnce == Spec => []ServedOnce
<1>1. IInv => ServedOnce
  BY DEF IInv, ServedOnce, Core, Record, Gone
<1>2. QED
  BY <1>1, ClientInvariant, PTL

\* A response is written to the socket of the request it answers, although
\* descriptors are closed and reused by other threads meanwhile.
THEOREM ClientResponseToItsClient == Spec => []ResponseToItsClient
<1>1. IInv => ResponseToItsClient
  BY DEF IInv, ResponseToItsClient
<1>2. QED
  BY <1>1, ClientInvariant, PTL

\* No step shuts or closes the socket of a connection other than its own, as
\* long as no timer's handler has overlapped an event of its record.
THEOREM ClientHangsUpOnItsOwn == Spec => HangsUpOnItsOwn
<1> DEFINE Shuts(c) == \/ timer[c] = "shutdown" /\ timer'[c] = "close"
                       \/ \E t \in Threads : cur[t] = c /\ pc[t] = "shutdown" /\ pc'[t] = "close"
                       \/ sock[c] = "backlog"
           Closes(c) == \/ timer[c] = "close" /\ timer'[c] = "free"
                        \/ \E t \in Threads : cur[t] = c /\ pc[t] = "close" /\ pc'[t] = "next"
                        \/ "wild_pointer" \in faults'
           Own == \A c \in Conns : /\ ~shut[c] /\ shut'[c] => Shuts(c)
                                   /\ sock[c] = "open" /\ sock'[c] # "open" => Closes(c)
<1>1. ASSUME IInv, Next, raced = {} PROVE Own
  <2>1. Shape /\ (Core \/ Gone)
    BY <1>1 DEF IInv
  <2>2. ASSUME NEW t \in Threads, ShutdownConn(t) \/ CloseConn(t) PROVE Own
    <3>1. PICK c \in Conns : cur[t] = c /\ pc[t] \in {"shutdown", "close"}
      BY <2>1, <2>2 DEF ShutdownConn, CloseConn, Shape, Busy
    <3>2. fd[c] \in Fds /\ owner[fd[c]] = c
      BY <2>1, <3>1 DEF Core, Present, Has, Gone
    <3>3. CASE ShutdownConn(t)
      BY <2>1, <3>1, <3>2, <3>3, ClientAssumption DEF ShutdownConn, ShutdownFd, Shape, TypeOK
    <3>4. CASE CloseConn(t)
      BY <2>1, <3>1, <3>2, <3>4, ClientAssumption DEF CloseConn, CloseFd, Shape, TypeOK
    <3>5. QED
      BY <2>2, <3>3, <3>4
  <2>3. ASSUME NEW c \in Conns, TimerShutdown(c) \/ TimerClose(c) PROVE Own
    <3>1. timer[c] \in {"shutdown", "close"}
      BY <2>3 DEF TimerShutdown, TimerClose
    <3>2. fd[c] \in Fds /\ owner[fd[c]] = c
      BY <2>1, <3>1 DEF Core, Record, Has, Gone
    <3>3. CASE TimerShutdown(c)
      BY <2>1, <3>2, <3>3, ClientAssumption DEF TimerShutdown, ShutdownFd, Shape, TypeOK
    <3>4. CASE TimerClose(c)
      BY <2>1, <3>2, <3>4, ClientAssumption DEF TimerClose, CloseFd, Shape, TypeOK
    <3>5. QED
      BY <2>3, <3>3, <3>4
  <2>4. ASSUME NEW t \in Threads, FcntlFails(t) \/ Accept(t) \/ StrayListenEvent(t) PROVE Own
    BY <2>1, <2>4 DEF FcntlFails, Accept, StrayListenEvent, Backlog, Faulting, Shape, TypeOK
  <2>5. CASE CloseServer \/ \E c \in Conns : Connect(c)
    BY <2>1, <2>5 DEF CloseServer, Connect, Shape, TypeOK
  <2>6. CASE UNCHANGED <<shut, sock>>
    BY <2>6
  <2>7. QED
    BY <1>1, <2>2, <2>3, <2>4, <2>5, <2>6 DEF Next, Timer, TimerFires, TimerFree, PeerData,
       Thread, EpollWait, NextEvent, AcceptStops, Add, AddFails, LookReading, LookEnded,
       ReadRequest, AwaitBody, TakeBody, ReadFails, Handle, HandlerRuns, Rearm, kernel, history
<1>2. IInv /\ [Next]_vars => [raced = {} => Own]_vars
  BY <1>1
<1>3. QED
  BY <1>2, ClientInvariant, PTL DEF Spec, HangsUpOnItsOwn

\* Every event in a batch, and every one still to come, has a live record.
THEOREM ClientEventsLeadToLiveRecords == Spec => []EventsLeadToLiveRecords
<1>1. ASSUME IInv, raced = {}, NEW f \in Fds, reg[f].st = "armed"
      PROVE  status[reg[f].ptr] \in {"READING", "ENDED"}
  <2>1. Core \/ Gone
    BY <1>1 DEF IInv
  <2>2. Core /\ owner[f] # NoConn /\ reg[f].ptr = owner[f] /\ fd[owner[f]] = f
    BY <1>1, <2>1 DEF Core, Descriptor, Gone, NoReg
  <2>3. owner[f] \in Conns
    BY <1>1, <2>2 DEF IInv, Shape, TypeOK
  <2>4. QED
    BY <1>1, <2>2, <2>3 DEF Core, Record, Has
<1>2. ASSUME IInv, raced = {}, NEW t \in Threads, NEW c \in Conns, c \in batch[t]
      PROVE  status[c] \in {"READING", "ENDED"}
  <2>1. Core \/ Gone
    BY <1>2 DEF IInv
  <2>2. QED
    BY <1>2, <2>1 DEF Core, Present, EventOf, Gone
<1>3. IInv => EventsLeadToLiveRecords
  BY <1>1, <1>2 DEF EventsLeadToLiveRecords
<1>4. QED
  BY <1>3, ClientInvariant, PTL
=============================================================================
