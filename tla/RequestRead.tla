---------------------------- MODULE RequestRead ----------------------------
(***************************************************************************)
(* Reading a request: the loop at the start of buildRequest, src/request.c. *)
(* The socket does not block; the client sends when it likes, so that the   *)
(* reads cut the request anywhere.  Of its bytes only the number matters:   *)
(* the headers end after the first header bytes, contentLength bytes follow.*)
(***************************************************************************)
EXTENDS Integers, FiniteSetsExt

CONSTANTS HeaderSizes,     \* sizes of the headers that clients send
          ContentLengths,  \* lengths that Content-Length may announce, 0 for none
          Capacity,        \* MAX_REQUEST_SIZE
          Timeout          \* READ_TIMEOUT_SECS; the clock stops there

ASSUME ReadAssumption ==
    /\ HeaderSizes \subseteq Nat \ {0} /\ ContentLengths \subseteq Nat
    /\ Capacity \in Nat \ {0} /\ Timeout \in Nat \ {0}

VARIABLES
    header, contentLength,  \* what this client sends
    wellFormed,             \* whether the parser can make sense of the headers
    sent,                   \* bytes sent so far
    open,                   \* the client has not closed its side
    clock,                  \* seconds since buildRequest began
    pc,                     \* "headers", "body": the two read loops;
                            \* "built", "refused": how buildRequest ended
    size,                   \* rawRequestSize
    taken,                  \* history: bytes read, those of the body's read too
    cuts                    \* history: where in the request the reads ended

readVars == <<header, contentLength, wellFormed, sent, open, clock, pc, size, taken, cuts>>

client == <<header, contentLength, wellFormed>>
Whole  == header + contentLength

ReadTypes ==
    /\ header \in HeaderSizes /\ contentLength \in ContentLengths /\ wellFormed \in BOOLEAN
    /\ taken \in 0..sent /\ sent \in 0..Whole /\ open \in BOOLEAN
    /\ clock \in 0..Timeout
    /\ pc \in {"headers", "body", "built", "refused"}
    /\ size \in 0..taken /\ size <= Capacity
    /\ cuts \subseteq 1..Whole

ReadInit ==
    /\ header \in HeaderSizes /\ contentLength \in ContentLengths /\ wellFormed \in BOOLEAN
    /\ sent = 0 /\ open = TRUE /\ clock = 0
    /\ pc = "headers" /\ size = 0 /\ taken = 0 /\ cuts = {}

-----------------------------------------------------------------------------
(* The client and the clock. *)

Send ==
    /\ open /\ sent < Whole
    /\ sent' \in sent+1..Whole
    /\ UNCHANGED <<client, open, clock, pc, size, taken, cuts>>

Close ==
    /\ open /\ open' = FALSE
    /\ UNCHANGED <<client, sent, clock, pc, size, taken, cuts>>

Tick ==
    /\ clock < Timeout /\ clock' = clock + 1
    /\ UNCHANGED <<client, sent, open, pc, size, taken, cuts>>

-----------------------------------------------------------------------------
(* buildRequest. *)

\* What read() returns, if it is not -1: 0 for no room or a closed connection.
Room      == Capacity - size
Readable  == sent > taken \/ ~open \/ Room = 0

ReadBytes == Min({sent - taken, Room})

Take(n) ==
    /\ taken' = taken + n
    /\ cuts'  = IF n = 0 THEN cuts ELSE cuts \cup {taken + n}

\* The check behind the loop, with the length announced.
Finished == IF contentLength <= Capacity - header THEN "built" ELSE "refused"

\* Faulty variant: a body is never waited for.
NeverAwaited(readBytes) == FALSE

\* Faulty variant: it is waited for whenever it is announced.
AlwaysAwaited(readBytes) == contentLength # 0

\* The test for whether the body is still to come: parseBytes, which counts from
\* the start of the request, against the bytes of the last read.
BodyAwaited(readBytes) == contentLength # 0 /\ header = readBytes

\* phr_parse_request on what has been read.  Malformed headers may be found out
\* at any byte, at the last one at the latest.
Parsed(readBytes) ==
    IF size + readBytes < header
      THEN IF size + readBytes = Capacity THEN "refused" ELSE "headers"
      ELSE IF BodyAwaited(readBytes) THEN "body" ELSE Finished

ReadHeaders ==
    /\ pc = "headers" /\ ReadBytes > 0
    /\ Take(ReadBytes) /\ size' = size + ReadBytes
    /\ \/ wellFormed /\ pc' = Parsed(ReadBytes)
       \/ ~wellFormed /\ pc' = "refused"
       \/ ~wellFormed /\ size' < header /\ pc' = Parsed(ReadBytes)
    /\ UNCHANGED <<client, sent, open, clock>>

\* Faulty variant: without the deadline.
ReadFailsLate ==
    /\ pc = "headers" /\ ReadBytes = 0 /\ ~open
    /\ pc' = "refused"
    /\ UNCHANGED <<client, sent, open, clock, size, taken, cuts>>

\* The client has closed; or the deadline, looked at whenever read() finds
\* nothing, has passed.
ReadFails ==
    /\ pc = "headers" /\ ReadBytes = 0
    /\ ~open \/ clock = Timeout
    /\ pc' = "refused"
    /\ UNCHANGED <<client, sent, open, clock, size, taken, cuts>>

\* One read that does not fail is all of the body; it is not counted in size.
ReadBody ==
    /\ pc = "body" /\ Readable
    /\ Take(ReadBytes)
    /\ pc' = Finished
    /\ UNCHANGED <<client, sent, open, clock, size>>

-----------------------------------------------------------------------------
Server == ReadHeaders \/ ReadFails \/ ReadBody

ReadNext == Send \/ Close \/ Tick \/ Server

\* The thread runs and time passes; the client promises nothing.
ReadSpec == ReadInit /\ [][ReadNext]_readVars /\ WF_readVars(Server) /\ WF_readVars(Tick)

-----------------------------------------------------------------------------
(* Properties. *)

\* However slowly the headers come, reading them ends, although the deadline is
\* looked at only when read() finds nothing.
HeadersEnd == pc = "headers" ~> pc # "headers"

\* The last read took bytes of the body, and is as long as the headers by chance.
Mistaken == pc = "body" /\ size > header /\ size - header \in cuts

\* A request that has been sent whole is handed on or refused, and not waited
\* for any longer: unless a read that ended in the body is taken for the headers.
SentIsHandled == sent = Whole ~> pc \in {"built", "refused"} \/ Mistaken

\* Handlers get the body whole, if no read ended within the headers or within
\* the body, and the client does not give up: the body may come together with
\* the headers or at any time after them.
WholeUnlessCut ==
    pc = "built" /\ cuts \subseteq {header, Whole} /\ (open \/ sent = Whole) => taken = Whole

=============================================================================
