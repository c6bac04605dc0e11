----------------------------- MODULE StreamProxy -----------------------------
(***************************************************************************)
(* One proxied request of the streaming server: answerConn and the         *)
(* ContentReader of streamproxy.cpp, run by the connection's thread, and   *)
(* the CurlFetch of curlfetch.cpp, whose thread transfers the remote       *)
(* resource.  They share the fetcher's fields under curlmutex and exchange *)
(* data through a BufXChange without a limit, closed by an empty buffer.   *)
(*                                                                         *)
(* The remote resource is Size units of data.  A buffer is a pair <<a, b>> *)
(* standing for units a+1..b of the resource, empty when a = b: its offset *)
(* and its contents in one.                                                *)
(***************************************************************************)
EXTENDS BufXChange

CONSTANTS
  Conn, Curl,   \* the connection's thread and the transfer's thread
  Size,         \* units in the resource
  Offsets,      \* the first units that a client's range header may ask for
  HeadSize,     \* headbuf: units kept back at the start of the transfer
  MaxUnits,     \* bound on one network read and on one contentRead
  Lengths,      \* whether the remote server may send content-length
  ErrorCodes,   \* which network errors may happen
  MaxErrors,    \* bound on the network errors
  MayAbort      \* TRUE if the client may close the connection

ASSUME ProxyAssumption ==
  /\ Clients = {Curl} /\ Workers = {Conn} /\ Curl # Conn
  /\ High = 0 /\ ~ PutTimed
  /\ Size \in Nat /\ Offsets \subseteq 0 .. Size
  /\ HeadSize \in Nat \ {0} /\ MaxUnits \in Nat \ {0}
  /\ Lengths \subseteq BOOLEAN /\ MayAbort \in BOOLEAN
  /\ ErrorCodes \subseteq {"retry", "fatal"} /\ MaxErrors \in Nat

VARIABLES
  cpc,        \* where the curl thread is, "none" if there is none
  range,      \* the range set on the curl handle
  rpos,       \* units of the resource received so far
  head,       \* units in headbuf
  cur,        \* the buffer that the write callback is sending
  count,      \* fetch_data_count
  code,       \* curl_code
  done,       \* curldone
  aborting,   \* aborting
  headersOk,  \* headers_ok
  errors      \* number of network errors (bound)

VARIABLES
  mpc,        \* where the connection's thread is
  offset,     \* the offset that the client asked for
  known,      \* TRUE if content-length is known
  delivered,  \* the units that contentRead returned to MHD: pos is its length
  copied,     \* the units copied by the current call: totcnt is its length
  want,       \* the size of the buffer that MHD gives to contentRead
  abuf,       \* the buffer contentRead works on
  eos,        \* normalEOS
  reply,      \* the status of the response
  outcome,    \* the last result of contentRead
  uninit,     \* TRUE if a FetchStatus was used that was not set (history)
  spoiled     \* TRUE once a retry discarded units or misplaced a range (history)

cvars  == <<cpc, range, rpos, head, cur, count, code, done, aborting, headersOk, errors>>
request == <<offset, known>>
reader == <<request, delivered, copied, want, abuf, eos, reply, outcome, uninit, spoiled>>
pvars  == <<xvars, cvars, mpc, reader>>

Results == {Yes, No, Waits}
Units(b) == b[2] - b[1]
Empty    == <<0, 0>>

PInit ==
  /\ XInit
  /\ cpc = "none" /\ range = 0 /\ rpos = 0 /\ head = 0 /\ cur = Empty /\ count = 0
  /\ code = "ok" /\ done = FALSE /\ aborting = FALSE /\ headersOk = FALSE /\ errors = 0
  /\ mpc = "first" /\ delivered = <<>> /\ copied = <<>> /\ want = 0 /\ abuf = Empty /\ eos = FALSE
  /\ reply = 0 /\ outcome = "none" /\ uninit = FALSE
  /\ spoiled = FALSE /\ offset = 0 /\ known = FALSE

\* The write callback holds curlmutex while it puts its buffers.
MutexFree == cpc # "write"

-----------------------------------------------------------------------------
\* The curl thread.  CurlFetch::start() creates it; the range stays set on the
\* curl handle when a later start has offset 0.
StartFetch(from) ==
  /\ cpc' = "connect"
  /\ range' = IF from > 0 THEN from ELSE range
  /\ rpos' = range'
  /\ UNCHANGED <<head, cur, count, code, done, aborting, headersOk, errors>>

\* The end of the response headers.
HeadersEnd ==
  /\ cpc = "connect"
  /\ headersOk' = TRUE /\ cpc' = "data"
  /\ UNCHANGED <<xvars, range, rpos, head, cur, count, code, done, aborting, errors,
                 mpc, reader>>

\* curlWriteCB(), the first units: kept in headbuf.
KeepHead ==
  /\ cpc = "data" /\ count = 0 /\ head < HeadSize
  /\ \E n \in 1 .. MaxUnits : /\ rpos + n <= Size
                              /\ rpos' = rpos + n /\ head' = head + n
  /\ UNCHANGED <<xvars, cpc, range, cur, count, code, done, aborting, headersOk,
                 errors, mpc, reader>>

\* Mutant of SendHead: headbuf is dropped.
SendHeadDropped ==
  /\ cpc = "data" /\ head > 0 /\ ~ (count = 0 /\ head < HeadSize)
  /\ \E n \in 1 .. MaxUnits : /\ rpos + n <= Size
                              /\ cur' = <<rpos, rpos + n>> /\ rpos' = rpos + n
  /\ count' = count + head /\ head' = 0
  /\ cpc' = "write"
  /\ UNCHANGED <<xvars, range, code, done, aborting, headersOk, errors, mpc, reader>>

\* curlWriteCB() with data that comes after: headbuf goes first.
SendHead ==
  /\ cpc = "data" /\ head > 0 /\ ~ (count = 0 /\ head < HeadSize)
  /\ \E n \in 1 .. MaxUnits : /\ rpos + n <= Size
                              /\ cur' = <<rpos, rpos + n>> /\ rpos' = rpos + n
  /\ Put(Curl, <<rpos - head, rpos>>, FALSE, Yes)
  /\ count' = count + head /\ head' = 0
  /\ cpc' = "write"
  /\ UNCHANGED <<range, code, done, aborting, headersOk, errors, mpc, reader>>

SendRest ==
  /\ cpc = "write"
  /\ Put(Curl, cur, FALSE, Yes)
  /\ count' = count + Units(cur)
  /\ cur' = Empty
  /\ cpc' = "data"
  /\ UNCHANGED <<range, rpos, head, code, done, aborting, headersOk, errors, mpc, reader>>

SendData ==
  /\ cpc = "data" /\ head = 0 /\ count > 0
  /\ \E n \in 1 .. MaxUnits : /\ rpos + n <= Size
                              /\ rpos' = rpos + n
                              /\ Put(Curl, <<rpos, rpos + n>>, FALSE, Yes)
                              /\ count' = count + n
  /\ UNCHANGED <<cpc, range, head, cur, code, done, aborting, headersOk, errors, mpc,
                 reader>>

\* curl_easy_perform() returns: the transfer is complete or failed.
Perform ==
  /\ \/ /\ cpc = "data" /\ rpos = Size
        /\ code' = "ok"
        /\ UNCHANGED errors
     \/ /\ cpc \in {"connect", "data"} /\ errors < MaxErrors
        /\ code' \in ErrorCodes
        /\ errors' = errors + 1
  /\ cpc' = "finish"
  /\ UNCHANGED <<xvars, range, rpos, head, cur, count, done, aborting, headersOk, mpc,
                 reader>>

\* The worker locks curlmutex: it leaves at once when the reader is being
\* deleted, else it flushes headbuf and the fetch is done.
Finish ==
  /\ cpc = "finish"
  /\ \/ /\ aborting
        /\ cpc' = "exited"
        /\ UNCHANGED <<xvars, head, count, done>>
     \/ /\ ~ aborting /\ head > 0
        /\ Put(Curl, <<rpos - head, rpos>>, FALSE, Yes)
        /\ count' = count + head /\ head' = 0
        /\ done' = TRUE /\ cpc' = IF code = "ok" THEN "eos" ELSE "term"
     \/ /\ ~ aborting /\ head = 0
        /\ done' = TRUE /\ cpc' = IF code = "ok" THEN "eos" ELSE "term"
        /\ UNCHANGED <<xvars, head, count>>
  /\ UNCHANGED <<range, rpos, cur, code, aborting, headersOk, errors, mpc, reader>>

GoCurl(where) ==
  /\ cpc' = where
  /\ UNCHANGED <<range, rpos, head, cur, count, code, done, aborting, headersOk, errors,
                 mpc, reader>>

\* The empty buffer that marks the end of the data.
PutEos ==
  /\ cpc = "eos"
  /\ \E r \in {Yes, No} : Put(Curl, <<Size, Size>>, FALSE, r)
  /\ GoCurl("drain")

\* waitIdle(), then setTerminate(): the thread is finished.
Drain ==
  /\ cpc = "drain"
  /\ \E r \in Results : /\ WaitIdle(Curl, r) \/ WaitIdleWake(Curl, r)
                        /\ GoCurl(IF r = Waits THEN "drain" ELSE "term")

\* Mutant of Term: the reader is not woken.
TermSilent == cpc = "term" /\ UNCHANGED xvars /\ GoCurl("exited")

Term == cpc = "term" /\ SetTerminate /\ GoCurl("exited")

CurlStep == \/ HeadersEnd \/ KeepHead \/ SendHead \/ SendRest \/ SendData
            \/ Perform \/ Finish \/ PutEos \/ Drain \/ Term

-----------------------------------------------------------------------------
\* The connection's thread.

\* answerConn(), first call: create the reader and start the fetch.
AnswerFirst ==
  /\ mpc = "first"
  /\ offset' \in Offsets /\ known' \in Lengths
  /\ StartFetch(offset')
  /\ mpc' = "headers"
  /\ UNCHANGED <<xvars, delivered, copied, want, abuf, eos, reply, outcome, uninit, spoiled>>

\* answerConn(), second call: waitForHeaders() returns when there is data or the
\* fetch is done, here because of an error; the reader is then never deleted.
\* The status is curl_http_code, which is 200 until a transfer succeeds.
HeadersFailed ==
  /\ mpc = "headers" /\ MutexFree /\ done /\ ~ headersOk
  /\ reply' = 200
  /\ mpc' = "failed"
  /\ UNCHANGED <<xvars, cvars, request, delivered, copied, want, abuf, eos, outcome, uninit, spoiled>>

HeadersGot ==
  /\ mpc = "headers" /\ MutexFree
  /\ done \/ count + head > 0
  /\ headersOk
  /\ reply' = 200
  /\ mpc' = "serve"
  /\ UNCHANGED <<xvars, cvars, request, delivered, copied, want, abuf, eos, outcome, uninit, spoiled>>

\* MHD asks for data, unless it has all that content-length announced.
ReadCall ==
  /\ mpc = "serve" /\ outcome = "none"
  /\ known => Len(delivered) < Size - offset
  /\ \/ /\ ~ eos
        /\ want' \in 1 .. MaxUnits
        /\ mpc' = "read"
        /\ UNCHANGED outcome
     \/ /\ eos
        /\ outcome' = "eos"
        /\ UNCHANGED <<want, mpc>>
  /\ UNCHANGED <<xvars, cvars, request, delivered, copied, abuf, eos, reply, uninit, spoiled>>

\* contentRead() returns what it copied.
ReadReturns == /\ delivered' = delivered \o copied
               /\ copied' = <<>>
               /\ mpc' = "serve"

\* contentRead() with the result r of take(): the empty buffer ends the stream,
\* now or at the next call.
TakeResult(r) ==
  \/ /\ r = Waits
     /\ UNCHANGED <<mpc, reader>>
  \/ /\ r = Yes /\ Units(Head(queue)) = 0
     /\ eos' = TRUE
     /\ outcome' = IF copied = <<>> THEN "eos" ELSE "none"
     /\ ReadReturns
     /\ UNCHANGED <<request, want, abuf, reply, uninit, spoiled>>
  \/ /\ r = Yes /\ Units(Head(queue)) > 0
     /\ abuf' = Head(queue)
     /\ mpc' = "copy"
     /\ UNCHANGED <<request, delivered, copied, want, eos, reply, outcome, uninit, spoiled>>
  \/ /\ r = No
     /\ mpc' = "takefailed"
     /\ UNCHANGED reader

TakeNext ==
  /\ mpc = "read"
  /\ \E r \in Results : (Take(Conn, r) \/ TakeWake(Conn, r)) /\ TakeResult(r)
  /\ UNCHANGED cvars

TakeLate ==
  /\ mpc = "read" /\ TakeTimeout(Conn) /\ TakeResult(No)
  /\ UNCHANGED cvars

\* The units that fit are copied.
Copy ==
  /\ mpc = "copy"
  /\ LET free == want - Len(copied)
         n    == IF free < Units(abuf) THEN free ELSE Units(abuf)
     IN  /\ copied' = copied \o [k \in 1 .. n |-> abuf[1] + k]
         /\ abuf' = <<abuf[1] + n, abuf[2]>>
  /\ mpc' = "putback"
  /\ UNCHANGED <<xvars, cvars, request, delivered, want, eos, reply, outcome, uninit, spoiled>>

\* What is left of the buffer goes back to the head of the queue, a buffer that
\* was used up to the recycling queue; the loop goes on until want is reached.
PutBack ==
  /\ mpc = "putback"
  /\ \/ Units(abuf) = 0 /\ Recycle(Conn, Empty)
     \/ Units(abuf) > 0 /\ \E r \in {Yes, No} : Untake(Conn, abuf, r)
  /\ abuf' = Empty
  /\ \/ /\ Len(copied) < want /\ mpc' = "read" /\ UNCHANGED <<delivered, copied>>
     \/ /\ Len(copied) >= want /\ ReadReturns
  /\ UNCHANGED <<cvars, request, want, eos, reply, outcome, uninit, spoiled>>

\* take() failed: fetchDone() sets the status only if the fetch is done.
TakeFailed ==
  /\ mpc = "takefailed" /\ MutexFree
  /\ \E c \in {"ok", "retry", "fatal"} :
       /\ done => c = code
       /\ \/ /\ c = "retry"
             /\ mpc' = "reset"
             /\ UNCHANGED <<copied, outcome>>
          \/ /\ c # "retry"
             /\ outcome' = "error"
             /\ copied' = <<>>
             /\ mpc' = "serve"
  /\ uninit' = (uninit \/ ~ done)
  /\ UNCHANGED <<xvars, cvars, request, delivered, want, abuf, eos, reply, spoiled>>

\* CurlFetch::reset(): join the worker, then forget its transfer.
ResetFetch ==
  /\ mpc = "reset" /\ cpc = "exited"
  /\ Reset
  /\ cpc' = "none" /\ done' = FALSE /\ code' = "ok" /\ count' = 0
  /\ mpc' = "restart"
  /\ UNCHANGED <<range, rpos, head, cur, aborting, headersOk, errors, reader>>

\* The fetch starts again at pos + totcnt, and contentRead() returns 0: MHD
\* ignores what was copied.
Restart ==
  /\ mpc = "restart"
  /\ StartFetch(Len(delivered) + Len(copied))
  /\ spoiled' = (spoiled \/ copied # <<>> \/ offset > 0)
  /\ copied' = <<>> /\ mpc' = "serve"
  /\ UNCHANGED <<xvars, request, delivered, want, abuf, eos, reply, outcome, uninit>>

\* MHD is finished with the response, or the client is gone: ~ContentReader().
Delete ==
  /\ mpc = "serve"
  /\ \/ outcome # "none"
     \/ known /\ Len(delivered) >= Size - offset
     \/ MayAbort
  /\ aborting' = TRUE
  /\ mpc' = "polling"
  /\ UNCHANGED <<xvars, cpc, range, rpos, head, cur, count, code, done, headersOk,
                 errors, reader>>

\* Its loop on fetchDone() ends; then ~CurlFetch() terminates the queue...
PollDone ==
  /\ mpc = "polling" /\ MutexFree /\ done
  /\ SetTerminate
  /\ mpc' = "joining"
  /\ UNCHANGED <<cvars, reader>>

\* ... and joins the worker.
JoinWorker ==
  /\ mpc = "joining" /\ cpc = "exited"
  /\ cpc' = "none"
  /\ mpc' = "closed"
  /\ UNCHANGED <<xvars, range, rpos, head, cur, count, code, done, aborting, headersOk,
                 errors, reader>>

ConnStep == \/ AnswerFirst \/ HeadersFailed \/ HeadersGot \/ ReadCall \/ TakeNext
            \/ Copy \/ PutBack \/ TakeFailed \/ ResetFetch \/ Restart \/ Delete
            \/ PollDone \/ JoinWorker

-----------------------------------------------------------------------------
PNext ==
  \/ CurlStep
  \/ ConnStep
  \/ TakeLate
  \/ XWakeup /\ UNCHANGED <<cvars, mpc, reader>>

PSpec == PInit /\ [][PNext]_pvars

\* The network delivers or fails, MHD goes on asking for data, and each thread
\* runs; a take timeout needs no fairness.
PFairSpec == PSpec /\ WF_pvars(CurlStep) /\ WF_pvars(ConnStep)

-----------------------------------------------------------------------------
\* Properties.

Buffers == (0 .. Size) \X (0 .. Size)

\* The variables of the fetcher and of the reader have their types; a buffer
\* holds units of the resource; contentRead() stays within MHD's buffer.
PTypeOK ==
  /\ queue \in Seq(Buffers) /\ rqueue \in Seq(Buffers)
  /\ cpc \in {"none", "connect", "data", "write", "finish", "eos", "drain", "term", "exited"}
  /\ mpc \in {"first", "headers", "failed", "serve", "read", "copy", "putback",
              "takefailed", "reset", "restart", "polling", "joining", "closed"}
  /\ {range, rpos, head, count, offset} \subseteq 0 .. Size
  /\ cur \in Buffers /\ abuf \in Buffers
  /\ {code} \subseteq {"ok", "retry", "fatal"} /\ outcome \in {"none", "eos", "error"}
  /\ {done, aborting, headersOk, eos, uninit, spoiled, known} \subseteq BOOLEAN
  /\ delivered \in Seq(1 .. Size) /\ copied \in Seq(1 .. Size)
  /\ Len(copied) <= want
  /\ errors \in 0 .. MaxErrors /\ want \in 0 .. MaxUnits /\ reply \in {0, 200}

\* The client gets the units it asked for, in order, each once and none left
\* out, whatever the sizes of the network reads and of MHD's buffers.
InOrder == \A k \in 1 .. Len(delivered) : delivered[k] = offset + k

\* A transfer that failed is retried at the right place: unless contentRead()
\* threw units away or the request had a range, the client sees no difference.
RetryInOrder == spoiled \/ InOrder

\* END_OF_STREAM is returned only when everything was delivered, except after a
\* retry that lost units.
EosComplete == outcome = "eos" => spoiled \/ Len(delivered) = Size - offset

\* contentRead() decides to retry or to fail with a status that was set.
CodeInitialised == ~ uninit

\* Every request ends.  One whose headers arrive ends with its reader deleted and
\* its worker joined; only one that fails before them is answered with both kept.
RequestEnds ==
  /\ <>(mpc \in {"closed", "failed"})
  /\ headersOk ~> (mpc = "closed" /\ cpc = "none")

\* The invariant behind these.  First, what the two threads are doing at a time.
Transferring == cpc \in {"connect", "data", "write", "finish"}
Leaving == mpc \in {"polling", "joining", "closed"}
Phases ==
  /\ cpc = "none" <=> mpc \in {"first", "restart", "closed"}
  /\ aborting <=> Leaving
  /\ ok \/ done
  /\ done => ~ Transferring /\ mpc \notin {"first", "restart"}
  /\ cpc \in {"eos", "drain", "term"} => done
  /\ mpc \in {"first", "restart"} => queue = <<>> /\ count = 0
  /\ mpc = "first" => range = 0 /\ delivered = <<>> /\ ~ spoiled
  /\ eos \/ outcome # "none" => mpc = "serve" \/ Leaving
  /\ outcome = "eos" => eos
  /\ mpc \notin {"read", "copy", "putback", "takefailed", "reset", "restart"} => copied = <<>>

\* The units before Sent are in the queue, or were.
Sent == IF cpc = "write" THEN cur[1] ELSE rpos - head
Transfer ==
  /\ IF cpc = "write" THEN head = 0 /\ cur[1] < cur[2] /\ cur[2] = rpos ELSE cur = Empty
  /\ head = 0 \/ Transferring \/ aborting
  /\ count <= Sent
  /\ cpc = "finish" /\ code = "ok" => rpos = Size
  /\ cpc = "eos" => rpos = Size
  /\ spoiled \/ range <= offset + Len(delivered)

\* A queue without a gap, up to end.  The end marker is the only empty buffer.
Chain(q, end) ==
  \A i \in 1 .. Len(q) :
    /\ q[i][1] < q[i][2] \/ q[i] = <<Size, Size>>
    /\ q[i][2] = IF i = Len(q) THEN end ELSE q[i + 1][1]
First(q, end) == IF q = <<>> THEN end ELSE q[1][1]

\* contentRead() goes on at unit p, as far as the client can tell.
Place(p) ==
  /\ Len(delivered) + Len(copied) <= p
  /\ spoiled \/ p = offset + Len(delivered) + Len(copied)
Holding == mpc \in {"copy", "putback"}
Reading == ok /\ ~ eos /\ outcome = "none" /\ (Holding \/ mpc \in {"headers", "serve", "read"})
Positions ==
  /\ Len(delivered) + Len(copied) <= Size
  /\ Holding => Place(abuf[1]) /\ abuf[1] <= abuf[2]
  /\ Reading => /\ Chain(queue, Sent)
                /\ IF Holding THEN abuf[2] = First(queue, Sent) ELSE Place(First(queue, Sent))
  /\ eos => spoiled \/ offset + Len(delivered) = Size
Ordered ==
  spoiled \/ /\ InOrder
             /\ \A k \in 1 .. Len(copied) : copied[k] = offset + Len(delivered) + k

PInv == PTypeOK /\ Phases /\ Transfer /\ Positions /\ Ordered
=============================================================================
