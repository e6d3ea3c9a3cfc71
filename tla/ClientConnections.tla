-------------------------- MODULE ClientConnections --------------------------
(***************************************************************************)
(* The life of a client connection in the Linux server (src/client.c): a   *)
(* pool of threads waits on one epoll descriptor; a thread accepts a       *)
(* connection, arms a 30 s accept timer and registers the socket as        *)
(* one-shot; the thread that gets its event cancels the timer, reads the   *)
(* request, runs the handler, re-arms the registration so that a later     *)
(* event frees the status record, and closes.  The timer's handler runs on *)
(* a concurrent dispatch queue, beside the threads.                        *)
(*                                                                         *)
(* A connection `c` also names its http_status_t.  Descriptors are         *)
(* numbers the kernel reuses, so reads, writes, epoll_ctl and close act on *)
(* whatever connection owns the number at that moment.  A memory fault     *)
(* (use after free, double free, over-release) is recorded in `faults`; a  *)
(* process that survives it goes on with the stale contents, one that does *)
(* not takes no further step, which every safety property allows for.      *)
(***************************************************************************)
EXTENDS Naturals, FiniteSets

CONSTANTS Conns,        \* connection attempts by clients
          Threads,      \* threads in clientAcceptEventHandler
          Fds,          \* descriptor numbers the process may hold for clients
          MaxEvents,    \* server->maxEvents
          MaxSends,     \* bound: times a peer makes its socket readable
          MaxFailures,  \* bound: accept/fcntl/epoll_ctl calls that fail
          NoFd, NoConn, Listen

ASSUME ClientAssumption ==
    /\ MaxEvents \in Nat \ {0} /\ MaxSends \in Nat /\ MaxFailures \in Nat
    /\ NoFd \notin Fds /\ NoConn \notin Conns /\ Listen \notin Conns

VARIABLES
    \* the kernel
    serverOpen,   \* server->socket >= 0
    edge,         \* the listening socket is on epoll's ready list (EPOLLET)
    sock,         \* [Conns -> "idle" | "backlog" | "open" | "closed"]
    readable,     \* [Conns -> BOOLEAN], data or end-of-stream at the socket
    shut,         \* [Conns -> BOOLEAN], shutdown() was called on it
    sends,        \* [Conns -> 0..MaxSends]
    owner,        \* [Fds -> Conns \cup {NoConn}], the open socket of a number
    reg,          \* [Fds -> [st, ptr]], the epoll registration
    \* the process
    fd,           \* [Conns -> Fds \cup {NoFd}], status->client.socket
    status,       \* [Conns -> "none" | "READING" | "ENDED" | "freed"]
    timer,        \* [Conns -> state of the accept timer and of its handler]
    pc, batch, cur, \* each thread: where it is, events left, event in hand
    \* history
    served,       \* [Conns -> 0..2], times the handler ran for it
    misdelivered, \* connections whose response went to another's socket
    raced,        \* timer handlers that overlapped an event of their status
    ctlFailed,    \* connections whose epoll_ctl failed
    acceptLost,   \* an accept loop broke off with connections still queued
    failures, faults

kernel  == <<serverOpen, edge, sock, readable, shut, sends, owner, reg>>
process == <<fd, status, timer, pc, batch, cur>>
history == <<served, misdelivered, raced, ctlFailed, acceptLost, failures, faults>>
vars    == <<kernel, process, history>>

NoReg == [st |-> "none", ptr |-> NoConn]

TypeOK ==
    /\ serverOpen \in BOOLEAN /\ edge \in BOOLEAN
    /\ sock \in [Conns -> {"idle", "backlog", "open", "closed"}]
    /\ readable \in [Conns -> BOOLEAN] /\ shut \in [Conns -> BOOLEAN]
    /\ sends \in [Conns -> 0..MaxSends]
    /\ owner \in [Fds -> Conns \cup {NoConn}]
    /\ reg \in [Fds -> [st : {"none", "armed", "fired"}, ptr : Conns \cup {NoConn}]]
    /\ fd \in [Conns -> Fds \cup {NoFd}]
    /\ status \in [Conns -> {"none", "READING", "ENDED", "freed"}]
    /\ timer \in [Conns -> {"none", "armed", "cancelled",
                            "shutdown", "close", "free", "done"}]
    /\ pc \in [Threads -> {"wait", "next", "accept", "add", "look", "read", "body",
                           "handle", "rearm", "shutdown", "close", "exit"}]
    /\ batch \in [Threads -> SUBSET (Conns \cup {Listen})]
    /\ cur \in [Threads -> Conns \cup {NoConn}]
    /\ served \in [Conns -> 0..2]
    /\ misdelivered \subseteq Conns /\ raced \subseteq Conns /\ ctlFailed \subseteq Conns
    /\ acceptLost \in BOOLEAN /\ failures \in 0..MaxFailures
    /\ faults \subseteq {"use_after_free", "double_free", "over_release", "wild_pointer"}

Init ==
    /\ serverOpen = TRUE /\ edge = FALSE
    /\ sock = [c \in Conns |-> "idle"]
    /\ readable = [c \in Conns |-> FALSE] /\ shut = [c \in Conns |-> FALSE]
    /\ sends = [c \in Conns |-> 0]
    /\ owner = [f \in Fds |-> NoConn] /\ reg = [f \in Fds |-> NoReg]
    /\ fd = [c \in Conns |-> NoFd]
    /\ status = [c \in Conns |-> "none"] /\ timer = [c \in Conns |-> "none"]
    /\ pc = [t \in Threads |-> "wait"] /\ batch = [t \in Threads |-> {}]
    /\ cur = [t \in Threads |-> NoConn]
    /\ served = [c \in Conns |-> 0] /\ misdelivered = {} /\ raced = {} /\ ctlFailed = {}
    /\ acceptLost = FALSE /\ failures = 0 /\ faults = {}

-----------------------------------------------------------------------------
(* The kernel's part of the calls the code makes. *)

Backlog == {c \in Conns : sock[c] = "backlog"}
FreeFds == {f \in Fds : owner[f] = NoConn}

\* epoll_wait reports a registered socket that is readable or hung up.
Deliverable(f) ==
    /\ reg[f].st = "armed"
    /\ owner[f] # NoConn
    /\ readable[owner[f]] \/ shut[owner[f]]

DeliverableFds == {f \in Fds : Deliverable(f)}

\* Faulty variant: the registration lacks EPOLLONESHOT.
OneShotMissing(taken) == reg' = reg

\* EPOLLONESHOT: a reported registration is disabled until it is re-armed.
OneShot(taken) ==
    reg' = [f \in Fds |-> IF f \in taken THEN [reg[f] EXCEPT !.st = "fired"] ELSE reg[f]]

ShutdownFd(f) ==
    shut' = IF f \in Fds /\ owner[f] # NoConn THEN [shut EXCEPT ![owner[f]] = TRUE] ELSE shut

\* close() drops the socket behind the number and its epoll registration.
CloseFd(f) ==
    IF f \in Fds /\ owner[f] # NoConn
    THEN /\ sock' = [sock EXCEPT ![owner[f]] = "closed"]
         /\ owner' = [owner EXCEPT ![f] = NoConn]
         /\ reg' = [reg EXCEPT ![f] = NoReg]
    ELSE UNCHANGED <<sock, owner, reg>>

-----------------------------------------------------------------------------
(* Memory: what a step does to the status record and the timer object. *)

\* The faults a step commits, if any.
Faulting(found) == faults' = faults \cup found

FreeFault(c) == IF status[c] = "freed" THEN {"double_free"} ELSE {}
UseFault(c)  == IF status[c] = "freed" THEN {"use_after_free"} ELSE {}

\* The handler has called dispatch_release, or a thread has.
TimerReleased(c) == timer[c] \in {"cancelled", "shutdown", "close", "free", "done"}
TimerRunning(c)  == timer[c] \in {"shutdown", "close", "free"}

\* Some thread holds the status pointer before it has cancelled the timer.
Held(c) == \E t \in Threads :
              c \in batch[t] \/ (cur[t] = c /\ pc[t] \in {"add", "look"})

-----------------------------------------------------------------------------
(* Peers and the owner of the server. *)

\* A client's connection reaches the listen queue; epoll sees a new edge.
Connect(c) ==
    /\ serverOpen /\ sock[c] = "idle"
    /\ sock' = [sock EXCEPT ![c] = "backlog"]
    /\ edge' = TRUE
    /\ UNCHANGED <<serverOpen, readable, shut, sends, owner, reg, process, history>>

\* A client sends a request, more data, or closes its side.
PeerData(c) ==
    /\ sock[c] \in {"backlog", "open"} /\ ~readable[c] /\ sends[c] < MaxSends
    /\ readable' = [readable EXCEPT ![c] = TRUE]
    /\ sends' = [sends EXCEPT ![c] = @ + 1]
    /\ UNCHANGED <<serverOpen, edge, sock, shut, owner, reg, process, history>>

\* server->close: the listening socket goes, and with it its queue.
CloseServer ==
    /\ serverOpen
    /\ serverOpen' = FALSE /\ edge' = FALSE
    /\ sock' = [c \in Conns |-> IF sock[c] = "backlog" THEN "closed" ELSE sock[c]]
    /\ UNCHANGED <<readable, shut, sends, owner, reg, process, history>>

-----------------------------------------------------------------------------
(* A thread of clientAcceptEventHandler. *)

\* epoll_wait returns up to maxEvents events; a thread that wakes after the
\* server has closed leaves its loop with the events it was given.
EpollWait(t) ==
    /\ pc[t] = "wait"
    /\ \E taken \in SUBSET DeliverableFds, listening \in BOOLEAN :
         LET events == {reg[f].ptr : f \in taken} \cup (IF listening THEN {Listen} ELSE {}) IN
         /\ listening => edge
         /\ Cardinality(taken) + (IF listening THEN 1 ELSE 0) \in 1..MaxEvents
         /\ OneShot(taken)
         /\ edge' = (edge /\ ~listening)
         /\ raced' = raced \cup {c \in Conns : c \in events /\ TimerRunning(c)}
         /\ IF serverOpen
            THEN /\ batch' = [batch EXCEPT ![t] = events]
                 /\ pc' = [pc EXCEPT ![t] = "next"]
            ELSE pc' = [pc EXCEPT ![t] = "exit"] /\ batch' = batch
    /\ UNCHANGED <<serverOpen, sock, readable, shut, sends, owner, fd, status, timer, cur,
                   served, misdelivered, ctlFailed, acceptLost, failures, faults>>

\* The for loop over the events of a batch, in any order.
NextEvent(t) ==
    /\ pc[t] = "next"
    /\ \/ /\ batch[t] = {}
          /\ pc' = [pc EXCEPT ![t] = "wait"] /\ UNCHANGED <<batch, cur>>
       \/ /\ Listen \in batch[t] /\ serverOpen
          /\ pc' = [pc EXCEPT ![t] = "accept"]
          /\ batch' = [batch EXCEPT ![t] = @ \ {Listen}] /\ UNCHANGED cur
       \/ \E c \in batch[t] \cap Conns :
            /\ pc' = [pc EXCEPT ![t] = "look"]
            /\ cur' = [cur EXCEPT ![t] = c]
            /\ batch' = [batch EXCEPT ![t] = @ \ {c}]
    /\ UNCHANGED <<kernel, fd, status, timer, history>>

\* The server closed after the loop began: server->socket is -1 and no longer
\* equals the event's number, which is then followed as a status pointer: a
\* small number is no address, the process is gone and its sockets with it.
StrayListenEvent(t) ==
    /\ pc[t] = "next" /\ Listen \in batch[t] /\ ~serverOpen
    /\ Faulting({"wild_pointer"})
    /\ pc' = [u \in Threads |-> "exit"]
    /\ timer' = [c \in Conns |-> "none"]
    /\ sock' = [c \in Conns |-> IF sock[c] = "open" THEN "closed" ELSE sock[c]]
    /\ owner' = [f \in Fds |-> NoConn] /\ reg' = [f \in Fds |-> NoReg]
    /\ UNCHANGED <<serverOpen, edge, readable, shut, sends, fd, status, batch, cur,
                   served, misdelivered, raced, ctlFailed, acceptLost, failures>>

\* accept() succeeds: a status record and a running timer, before the ADD.
Accept(t) ==
    /\ pc[t] = "accept" /\ serverOpen
    /\ \E c \in Backlog, f \in FreeFds :
         /\ sock' = [sock EXCEPT ![c] = "open"]
         /\ owner' = [owner EXCEPT ![f] = c]
         /\ fd' = [fd EXCEPT ![c] = f]
         /\ status' = [status EXCEPT ![c] = "READING"]
         /\ timer' = [timer EXCEPT ![c] = "armed"]
         /\ cur' = [cur EXCEPT ![t] = c]
    /\ pc' = [pc EXCEPT ![t] = "add"]
    /\ UNCHANGED <<serverOpen, edge, readable, shut, sends, reg, batch, history>>

\* Any accept() error ends the loop, EAGAIN or not: nothing left to accept, no
\* descriptor left, the server closed, or another failure of the call.
AcceptStops(t) ==
    /\ pc[t] = "accept"
    /\ \/ /\ Backlog = {} \/ ~serverOpen
          /\ UNCHANGED <<acceptLost, failures>>
       \/ /\ Backlog # {} /\ FreeFds = {}
          /\ acceptLost' = TRUE /\ UNCHANGED failures
       \/ /\ Backlog # {} /\ failures < MaxFailures
          /\ acceptLost' = TRUE /\ failures' = failures + 1
    /\ pc' = [pc EXCEPT ![t] = "next"]
    /\ UNCHANGED <<kernel, fd, status, timer, batch, cur,
                   served, misdelivered, raced, ctlFailed, faults>>

\* fcntl() fails on the accepted socket: it is closed, and the loop ends too.
FcntlFails(t) ==
    /\ pc[t] = "accept" /\ serverOpen /\ FreeFds # {} /\ failures < MaxFailures
    /\ \E c \in Backlog :
         /\ sock' = [sock EXCEPT ![c] = "closed"]
         /\ shut' = [shut EXCEPT ![c] = TRUE]
         /\ acceptLost' = (acceptLost \/ Backlog # {c})
    /\ failures' = failures + 1
    /\ pc' = [pc EXCEPT ![t] = "next"]
    /\ UNCHANGED <<serverOpen, edge, readable, sends, owner, reg, fd, status, timer,
                   batch, cur, served, misdelivered, raced, ctlFailed, faults>>

\* Faulty variant: one accept() per event, as if the socket were level-triggered.
AddAndLeave(t) ==
    LET c == cur[t] f == fd[c] IN
    /\ pc[t] = "add" /\ owner[f] # NoConn /\ reg[f].st = "none"
    /\ reg' = [reg EXCEPT ![f] = [st |-> "armed", ptr |-> c]]
    /\ pc' = [pc EXCEPT ![t] = "next"]
    /\ cur' = [cur EXCEPT ![t] = NoConn]
    /\ UNCHANGED <<serverOpen, edge, sock, readable, shut, sends, owner,
                   fd, status, timer, batch, history>>

\* epoll_ctl(ADD) on the client's number.
Add(t) ==
    LET c == cur[t] f == fd[c] IN
    /\ pc[t] = "add" /\ owner[f] # NoConn /\ reg[f].st = "none"
    /\ reg' = [reg EXCEPT ![f] = [st |-> "armed", ptr |-> c]]
    /\ pc' = [pc EXCEPT ![t] = "accept"]
    /\ cur' = [cur EXCEPT ![t] = NoConn]
    /\ UNCHANGED <<serverOpen, edge, sock, readable, shut, sends, owner,
                   fd, status, timer, batch, history>>

\* ADD fails: the status record is freed and its timer left armed.
AddFails(t) ==
    LET c == cur[t] f == fd[c] IN
    /\ pc[t] = "add"
    /\ \/ (owner[f] = NoConn \/ reg[f].st # "none") /\ UNCHANGED failures
       \/ /\ owner[f] # NoConn /\ reg[f].st = "none"
          /\ failures < MaxFailures /\ failures' = failures + 1
    /\ Faulting(FreeFault(c))
    /\ status' = [status EXCEPT ![c] = "freed"]
    /\ ctlFailed' = ctlFailed \cup {c}
    /\ pc' = [pc EXCEPT ![t] = "accept"]
    /\ cur' = [cur EXCEPT ![t] = NoConn]
    /\ UNCHANGED <<kernel, fd, timer, batch, served, misdelivered, raced, acceptLost>>

\* Faulty variant: the timer is left running while the request is served.
LookWithoutCancel(t) ==
    /\ pc[t] = "look" /\ status[cur[t]] \in {"READING", "freed"}
    /\ Faulting(UseFault(cur[t]))
    /\ pc' = [pc EXCEPT ![t] = "read"]
    /\ UNCHANGED <<kernel, fd, status, timer, batch, cur,
                   served, misdelivered, raced, ctlFailed, acceptLost, failures>>

\* An event's status is READING: cancel and release the timer, then read.
LookReading(t) ==
    LET c == cur[t] IN
    /\ pc[t] = "look" /\ status[c] \in {"READING", "freed"}
    /\ Faulting(UseFault(c) \cup IF TimerReleased(c) THEN {"over_release"} ELSE {})
    /\ timer' = [timer EXCEPT ![c] = IF @ = "armed" THEN "cancelled" ELSE @]
    /\ pc' = [pc EXCEPT ![t] = "read"]
    /\ UNCHANGED <<kernel, fd, status, batch, cur,
                   served, misdelivered, raced, ctlFailed, acceptLost, failures>>

\* An event's status is ENDED: its request is over, the event frees the record.
LookEnded(t) ==
    LET c == cur[t] IN
    /\ pc[t] = "look" /\ status[c] \in {"ENDED", "freed"}
    /\ Faulting(UseFault(c) \cup FreeFault(c))
    /\ status' = [status EXCEPT ![c] = "freed"]
    /\ pc' = [pc EXCEPT ![t] = "next"]
    /\ cur' = [cur EXCEPT ![t] = NoConn]
    /\ UNCHANGED <<kernel, fd, timer, batch,
                   served, misdelivered, raced, ctlFailed, acceptLost, failures>>

\* buildRequest takes what the socket behind the number has to give.
ReadFrom(f) ==
    readable' = IF owner[f] = NoConn THEN readable ELSE [readable EXCEPT ![owner[f]] = FALSE]

\* A read() of the number does not give EAGAIN: bytes, or the stream's end.
Arrived(f) == owner[f] # NoConn /\ (readable[owner[f]] \/ shut[owner[f]])

\* buildRequest produces a request: the headers (for which it has a deadline of
\* its own), and the body if it came along or none is announced.
ReadRequest(t) ==
    /\ pc[t] = "read" /\ owner[fd[cur[t]]] # NoConn
    /\ ReadFrom(fd[cur[t]])
    /\ pc' = [pc EXCEPT ![t] = "handle"]
    /\ UNCHANGED <<serverOpen, edge, sock, shut, sends, owner, reg,
                   fd, status, timer, batch, cur, history>>

\* The headers came alone and announce a body.
AwaitBody(t) ==
    /\ pc[t] = "read" /\ owner[fd[cur[t]]] # NoConn
    /\ ReadFrom(fd[cur[t]])
    /\ pc' = [pc EXCEPT ![t] = "body"]
    /\ UNCHANGED <<serverOpen, edge, sock, shut, sends, owner, reg,
                   fd, status, timer, batch, cur, history>>

\* buildRequest asks for the body until read() gives something, however long
\* that takes: nothing else ends its loop.
TakeBody(t) ==
    /\ pc[t] = "body" /\ Arrived(fd[cur[t]])
    /\ ReadFrom(fd[cur[t]])
    /\ pc' = [pc EXCEPT ![t] = "handle"]
    /\ UNCHANGED <<serverOpen, edge, sock, shut, sends, owner, reg,
                   fd, status, timer, batch, cur, history>>

\* Where buildRequest gives up: over the headers, or over a body too large,
\* which it only says once it has got some of it.
MayFail(t) == pc[t] = "read" \/ (pc[t] = "body" /\ Arrived(fd[cur[t]]))

\* Faulty variant: the error path forgets to close the connection.
ReadFailsUnclosed(t) ==
    LET c == cur[t] IN
    /\ MayFail(t)
    /\ ReadFrom(fd[c])
    /\ Faulting(FreeFault(c))
    /\ status' = [status EXCEPT ![c] = "freed"]
    /\ pc' = [pc EXCEPT ![t] = "next"]
    /\ cur' = [cur EXCEPT ![t] = NoConn]
    /\ UNCHANGED <<serverOpen, edge, sock, shut, sends, owner, reg, fd, timer, batch,
                   served, misdelivered, raced, ctlFailed, acceptLost, failures>>

\* buildRequest gives up (closed, malformed, too long, 30 s): method is NULL and
\* the record is freed before the connection is closed.
ReadFails(t) ==
    LET c == cur[t] IN
    /\ MayFail(t)
    /\ ReadFrom(fd[c])
    /\ Faulting(FreeFault(c))
    /\ status' = [status EXCEPT ![c] = "freed"]
    /\ pc' = [pc EXCEPT ![t] = "shutdown"]
    /\ UNCHANGED <<serverOpen, edge, sock, shut, sends, owner, reg, fd, timer, batch, cur,
                   served, misdelivered, raced, ctlFailed, acceptLost, failures>>

\* The handler writes its response to the number and reqStatus to the record.
HandlerRuns(t) ==
    LET c == cur[t] o == owner[fd[c]] IN
    /\ pc[t] = "handle"
    /\ served' = [served EXCEPT ![c] = IF @ < 2 THEN @ + 1 ELSE @]
    /\ misdelivered' = IF o \notin {c, NoConn} THEN misdelivered \cup {c} ELSE misdelivered
    /\ Faulting(UseFault(c))
    /\ pc' = [pc EXCEPT ![t] = "rearm"]
    /\ UNCHANGED <<kernel, fd, timer, batch, cur, raced, ctlFailed, acceptLost, failures>>

\* Faulty variant: the registration is armed again before ENDED is written.
HandleNotEnded(t) == HandlerRuns(t) /\ UNCHANGED status

\* Faulty variant: the record is freed here, and armed again all the same.
HandleFreesStatus(t) == HandlerRuns(t) /\ status' = [status EXCEPT ![cur[t]] = "freed"]

\* baseRouter->handler runs and writes the response to the number; then
\* status->reqStatus = ENDED, before the registration is armed again.
Handle(t) ==
    /\ HandlerRuns(t)
    /\ status' = [status EXCEPT ![cur[t]] = IF @ = "freed" THEN @ ELSE "ENDED"]

\* epoll_ctl(MOD) with this thread's status pointer; its failure changes no
\* more than whether the registration is armed.
Rearm(t) ==
    LET c == cur[t] f == fd[c] IN
    /\ pc[t] = "rearm"
    /\ \/ /\ reg[f].st # "none"
          /\ reg' = [reg EXCEPT ![f] = [st |-> "armed", ptr |-> c]]
          /\ UNCHANGED <<ctlFailed, failures>>
       \/ /\ reg[f].st = "none"
          /\ ctlFailed' = ctlFailed \cup {c} /\ UNCHANGED <<reg, failures>>
       \/ /\ reg[f].st # "none" /\ failures < MaxFailures
          /\ failures' = failures + 1
          /\ ctlFailed' = ctlFailed \cup {c} /\ UNCHANGED reg
    /\ pc' = [pc EXCEPT ![t] = "shutdown"]
    /\ UNCHANGED <<serverOpen, edge, sock, readable, shut, sends, owner,
                   fd, status, timer, batch, cur, served, misdelivered, raced, acceptLost, faults>>

\* closeClientConnection, its two calls: another thread may run between them.
ShutdownConn(t) ==
    /\ pc[t] = "shutdown"
    /\ ShutdownFd(fd[cur[t]])
    /\ pc' = [pc EXCEPT ![t] = "close"]
    /\ UNCHANGED <<serverOpen, edge, sock, readable, sends, owner, reg,
                   fd, status, timer, batch, cur, history>>

CloseConn(t) ==
    /\ pc[t] = "close"
    /\ CloseFd(fd[cur[t]])
    /\ pc' = [pc EXCEPT ![t] = "next"]
    /\ cur' = [cur EXCEPT ![t] = NoConn]
    /\ UNCHANGED <<serverOpen, edge, readable, shut, sends, fd, status, timer, batch, history>>

-----------------------------------------------------------------------------
(* The accept timer's handler, on the server's concurrent queue. *)

\* The deadline passes before anyone cancelled it: cancel and release.
TimerFires(c) ==
    /\ timer[c] = "armed"
    /\ timer' = [timer EXCEPT ![c] = "shutdown"]
    /\ raced' = IF Held(c) THEN raced \cup {c} ELSE raced
    /\ UNCHANGED <<kernel, fd, status, pc, batch, cur,
                   served, misdelivered, ctlFailed, acceptLost, failures, faults>>

\* shutdown() makes the socket hang up, which is itself an event to report.
TimerShutdown(c) ==
    /\ timer[c] = "shutdown"
    /\ ShutdownFd(fd[c])
    /\ timer' = [timer EXCEPT ![c] = "close"]
    /\ UNCHANGED <<serverOpen, edge, sock, readable, sends, owner, reg,
                   fd, status, pc, batch, cur, history>>

TimerClose(c) ==
    /\ timer[c] = "close"
    /\ CloseFd(fd[c])
    /\ timer' = [timer EXCEPT ![c] = "free"]
    /\ UNCHANGED <<serverOpen, edge, readable, shut, sends,
                   fd, status, pc, batch, cur, history>>

TimerFree(c) ==
    /\ timer[c] = "free"
    /\ Faulting(FreeFault(c))
    /\ status' = [status EXCEPT ![c] = "freed"]
    /\ timer' = [timer EXCEPT ![c] = "done"]
    /\ UNCHANGED <<kernel, fd, pc, batch, cur,
                   served, misdelivered, raced, ctlFailed, acceptLost, failures>>

-----------------------------------------------------------------------------
Thread(t) ==
    \/ EpollWait(t) \/ NextEvent(t) \/ StrayListenEvent(t)
    \/ Accept(t) \/ AcceptStops(t) \/ FcntlFails(t) \/ Add(t) \/ AddFails(t)
    \/ LookReading(t) \/ LookEnded(t) \/ ReadRequest(t) \/ AwaitBody(t) \/ TakeBody(t)
    \/ ReadFails(t)
    \/ Handle(t) \/ Rearm(t) \/ ShutdownConn(t) \/ CloseConn(t)

Timer(c) == TimerFires(c) \/ TimerShutdown(c) \/ TimerClose(c) \/ TimerFree(c)

Next ==
    \/ \E c \in Conns : Connect(c) \/ PeerData(c) \/ Timer(c)
    \/ CloseServer
    \/ \E t \in Threads : Thread(t)

Spec == Init /\ [][Next]_vars

\* The scheduler runs every thread, and libdispatch every timer that is due.
Fairness ==
    /\ \A t \in Threads : WF_vars(Thread(t))
    /\ \A c \in Conns : WF_vars(Timer(c))

FairSpec == Spec /\ Fairness

-----------------------------------------------------------------------------
(* Properties. *)

Undisturbed == raced = {} /\ ctlFailed = {}

\* client.c frees, releases and follows the status record and the timer from
\* two threads of control: unless a timer's handler overlapped an event of its
\* own record, or epoll_ctl failed, none of them is touched after it is gone.
MemorySafeUnlessRaced ==
    faults \subseteq {"wild_pointer"} \/ ~Undisturbed

\* EPOLLONESHOT, the cancelled timer and ENDED written before the re-arming
\* keep a connection's request from being read and handled twice: only a
\* timer's handler that overlaps an event of its record can undo that.
ServedOnce ==
    raced = {} => \A c \in Conns : served[c] <= 1

\* A response goes to the socket it was made for, although the number is
\* closed and reused: only an overlapping timer can close it too early.
ResponseToItsClient ==
    misdelivered # {} => raced # {}

\* A number is shut down and closed for the connection it was taken for, not
\* for one that got the number since: by the thread that serves it or by its
\* timer, unless the process goes (or fcntl failed on what was just accepted).
HangsUpOnItsOwn ==
    [][raced = {} => \A c \in Conns :
         /\ ~shut[c] /\ shut'[c] =>
              \/ timer[c] = "shutdown" /\ timer'[c] = "close"
              \/ \E t \in Threads : cur[t] = c /\ pc[t] = "shutdown" /\ pc'[t] = "close"
              \/ sock[c] = "backlog"
         /\ sock[c] = "open" /\ sock'[c] # "open" =>
              \/ timer[c] = "close" /\ timer'[c] = "free"
              \/ \E t \in Threads : cur[t] = c /\ pc[t] = "close" /\ pc'[t] = "next"
              \/ "wild_pointer" \in faults']_vars

\* Whoever holds a status pointer before the timer is cancelled holds a live
\* record, and no event that epoll may still report leads to a freed one,
\* not even after an epoll_ctl that failed.
EventsLeadToLiveRecords ==
    raced = {} =>
        /\ \A f \in Fds : reg[f].st = "armed" => status[reg[f].ptr] \in {"READING", "ENDED"}
        /\ \A t \in Threads, c \in Conns :
              c \in batch[t] => status[c] \in {"READING", "ENDED"}

\* Every accepted connection is closed in the end: by its handler, by a failed
\* read, or by its timer, even when every thread is held up over another
\* connection or has left after server->close.  One that stays open for ever is
\* one whose own client announced a body and never sends it.
EveryConnectionCloses ==
    \A c \in Conns :
        <>[](sock[c] = "open" /\ faults = {}) =>
            \E t \in Threads : <>[](cur[t] = c /\ pc[t] = "body")

\* A connection in the listen queue is accepted (or reset by server->close)
\* unless an accept loop broke off early, or a client that withholds its body
\* holds up a thread for ever: one is enough even when others are free, since
\* it may have the listening socket's only event in its batch.
QueuedConnectionsAreAccepted ==
    \A c \in Conns :
        <>[](sock[c] = "backlog" /\ ~acceptLost /\ faults = {}) =>
            \E t \in Threads : <>[](pc[t] = "body")

\* What test/express-mock-system-calls.c:75 expects of a failing accept(): the
\* request is answered all the same, so the connection is not forgotten.
AcceptFailureIsSurvived ==
    \A c \in Conns : (sock[c] = "backlog") ~> (sock[c] # "backlog" \/ faults # {})

=============================================================================
