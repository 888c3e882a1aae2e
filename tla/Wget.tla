--------------------------------- MODULE Wget ---------------------------------
(***************************************************************************)
(* One thread of the download client (mtcp_lua_thread.c; mtcp_lua.c is the *)
(* same file): it makes Flows connections, at most Concurrency at a time,  *)
(* sends a request on each and reads the response.                         *)
(* No code of the repository sets flows and concurrency, so that they are  *)
(* 0: the constants are the values a caller of RunWgetMain would set.      *)
(*                                                                         *)
(* A step of the thread ends where the stack can interfere: after a call   *)
(* of mtcp_connect, mtcp_epoll_wait or mtcp_read, and after one event of   *)
(* the batch.  Data is counted in units.  The server answers only what it  *)
(* was asked, and chooses the lengths of its header and of its body.       *)
(*                                                                         *)
(* Sockets are registered without MTCP_EPOLLET, so they are level          *)
(* triggered: EpollWait may return what is still true again.               *)
(***************************************************************************)
EXTENDS Mtcp, FiniteSets

CONSTANTS
    Flows,          \* flows[core], the connections this thread makes
    Concurrency,    \* connections open at a time
    BufSize,        \* BUF_SIZE, what one mtcp_read returns at most
    HttpHeaderLen,  \* HTTP_HEADER_LEN, the part of it kept for the parser
    HeaderLens,     \* lengths of response headers
    FileLens,       \* values of Content-Length
    Failures,       \* connections and connect calls may fail
    Signals         \* SIGINT may come

ASSUME WgetAssumption ==
    /\ IsFiniteSet(Fds)
    /\ Flows \in Nat /\ Concurrency \in Nat
    /\ BufSize \in Nat \ {0} /\ HttpHeaderLen \in 1..BufSize
    /\ HeaderLens \subseteq Nat \ {0} /\ FileLens \subseteq Nat
    /\ Failures \in BOOLEAN /\ Signals \in BOOLEAN

VARIABLES
    pc,             \* where the thread is
    back,           \* where it goes when no further connection is to be made
    cur,            \* the id being connected or read
    fin,            \* the id whose download DownloadComplete reports
    batch,          \* events of the last mtcp_epoll_wait still to be handled
    ctx,            \* the counters of thread_context that the code tests
    wv,             \* wvars[sockid]
    quit,           \* done[core]
    response_size,  \* the size of the first response, for comparison
    interrupt,      \* the stack has seen a signal
    failed,         \* history: a connection or a connect call has failed
    asked,          \* history: the request reached the stack
    got             \* history: units read from the connection

threadVars == <<pc, back, cur, fin, batch, ctx, wv, quit, response_size>>
flagVars   == <<quit, response_size, interrupt>>
histVars   == <<failed, asked, got>>
vars       == <<threadVars, interrupt, histVars, netVars>>

WgetVars == [request_sent : BOOLEAN, headerset : BOOLEAN,
             header_len : Nat, file_len : Nat, recv : Nat]

ZeroVars == [request_sent |-> FALSE, headerset |-> FALSE,
             header_len |-> 0, file_len |-> 0, recv |-> 0]

\* The counters, the batch and the per-connection state have their types.
TypeOK ==
    /\ StackTypeOK(Fds, Fds)
    /\ pc \in {"loop", "fill", "add", "wait", "batch", "read", "report", "end", "aborted", "exited"}
    /\ back \in {"wait", "batch", "report"}
    /\ {cur, fin} \subseteq Fds \cup {None}
    /\ batch \subseteq Fds \X Kinds
    /\ ctx \in [started : 0..Flows, pending : -1..Concurrency, done : Nat]
    /\ wv \in [Fds -> WgetVars]
    /\ quit \in BOOLEAN /\ interrupt \in BOOLEAN /\ response_size \in Nat
    /\ failed \in BOOLEAN /\ asked \in [Fds -> BOOLEAN] /\ got \in [Fds -> Nat]

\* CreateContext and the start of RunWgetMain.  Without flows the thread ends.
Init ==
    /\ StackInit
    /\ pc = IF Flows = 0 THEN "end" ELSE "loop"
    /\ back = "wait" /\ cur = None /\ fin = None /\ batch = {}
    /\ ctx = [started |-> 0, pending |-> 0, done |-> 0]
    /\ wv = [f \in Fds |-> ZeroVars]
    /\ quit = FALSE /\ interrupt = FALSE /\ response_size = 0
    /\ failed = FALSE /\ asked = [f \in Fds |-> FALSE] /\ got = [f \in Fds |-> 0]

-----------------------------------------------------------------------------
(* Making connections: the loop of RunWgetMain and that of CloseConnection. *)

LoopTest ==
    /\ pc = "loop"
    /\ IF quit THEN pc' = "end" /\ UNCHANGED back
               ELSE pc' = "fill" /\ back' = "wait"
    /\ UNCHANGED <<cur, fin, batch, ctx, wv, flagVars, histVars, netVars>>

WantsConnection == ctx.pending < Concurrency /\ ctx.started < Flows

Filled ==
    /\ pc = "fill" /\ ~WantsConnection
    /\ pc' = back
    /\ UNCHANGED <<back, cur, fin, batch, ctx, wv, flagVars, histVars, netVars>>

\* Mutant: the variables of the id's last connection are not cleared.
FreshVarsKept(f) == wv[f]

FreshVars(f) == ZeroVars

\* mtcp_socket and mtcp_connect, which answers EINPROGRESS.
CreateConnection(f) ==
    /\ pc = "fill" /\ WantsConnection
    /\ mtcp_socket(f, f, "syn")
    /\ wv' = [wv EXCEPT ![f] = FreshVars(f)]
    /\ asked' = [asked EXCEPT ![f] = FALSE]
    /\ got' = [got EXCEPT ![f] = 0]
    /\ cur' = f /\ pc' = "add"
    /\ UNCHANGED <<back, fin, batch, ctx, flagVars, failed>>

\* CreateConnection returns -1, and with it the loop ends.
GiveUp == quit' = TRUE /\ failed' = TRUE /\ pc' = back

\* mtcp_socket fails: no id is free, or for a reason of its own.
SocketFails ==
    /\ pc = "fill" /\ WantsConnection
    /\ Failures \/ \A f \in Fds : st[f] # "free"
    /\ GiveUp
    /\ UNCHANGED <<back, cur, fin, batch, ctx, wv, response_size, interrupt, asked, got, netVars>>

\* The record of id f is cleared before anything is done with f.
Cleared(f) ==
    /\ Failures /\ pc = "fill" /\ WantsConnection
    /\ wv' = [wv EXCEPT ![f] = FreshVars(f)]
    /\ asked' = [asked EXCEPT ![f] = FALSE]
    /\ got' = [got EXCEPT ![f] = 0]
    /\ UNCHANGED <<back, cur, fin, batch, ctx, response_size, interrupt>>

\* mtcp_connect fails at once: the id is closed again, and is as free as before.
ConnectFails(f) ==
    /\ st[f] = "free"
    /\ Cleared(f)
    /\ GiveUp
    /\ UNCHANGED netVars

\* mtcp_setsock_nonblock fails: exit(-1).
NonblockFails(f) ==
    /\ mtcp_socket(f, f, "idle")
    /\ Cleared(f)
    /\ pc' = "exited" /\ failed' = TRUE
    /\ UNCHANGED quit

\* Mutant: a new connection is not counted as pending.
AddUncounted ==
    /\ pc = "add"
    /\ ctx' = [ctx EXCEPT !.started = @ + 1]
    /\ mtcp_epoll_register(cur, "out", cur)
    /\ pc' = "fill" /\ cur' = None
    /\ UNCHANGED <<back, fin, batch, wv, flagVars, histVars, st, own, rx, eof>>

AddConnection ==
    /\ pc = "add"
    /\ ctx' = [ctx EXCEPT !.started = @ + 1, !.pending = @ + 1]
    /\ mtcp_epoll_register(cur, "out", cur)
    /\ pc' = "fill" /\ cur' = None
    /\ UNCHANGED <<back, fin, batch, wv, flagVars, histVars, st, own, rx, eof>>

-----------------------------------------------------------------------------
(***************************************************************************)
(* CloseConnection(f).  f may be free already, or in use by a later        *)
(* connection: the events of a batch are copies.  The assertion ends the   *)
(* process; otherwise the thread makes the connections there is room for   *)
(* and then goes to next.                                                  *)
(***************************************************************************)
\* Mutant: a connection that has ended stays counted as pending.
CountDone == [ctx EXCEPT !.done = @ + 1]

CountClosed == [ctx EXCEPT !.pending = @ - 1, !.done = @ + 1]

CloseConnection(f, next) ==
    /\ mtcp_close(f)
    /\ ctx' = CountClosed
    /\ pc' = IF ctx'.pending < 0 THEN "aborted" ELSE "fill"
    /\ back' = next
    /\ cur' = None
    /\ UNCHANGED <<flagVars, failed, asked>>

-----------------------------------------------------------------------------
(* Waiting for events and handling them. *)

\* What is still true of the registered ids.
LevelReady ==
    {<<f, "err">> : f \in {g \in Fds : reg[g] # "off" /\ st[g] = "failed"}}
        \cup UNION {PendingOn(f, reg[f]) : f \in Fds}

\* Raised events are returned; of those that are true without having been
\* raised again, as many as the stack likes.
EpollWait ==
    /\ pc = "wait"
    /\ \E still \in SUBSET LevelReady : batch' = ready \cup still
    /\ batch' # {}
    /\ ready' = {}
    /\ pc' = "batch"
    /\ UNCHANGED <<back, cur, fin, ctx, wv, flagVars, histVars, st, own, rx, eof, reg, ptr>>

\* Mutant: the wait is repeated after EINTR.
EpollRetried ==
    /\ pc = "wait" /\ interrupt
    /\ UNCHANGED vars

\* mtcp_epoll_wait fails with EINTR.
EpollInterrupted ==
    /\ pc = "wait" /\ interrupt
    /\ quit' = TRUE
    /\ pc' = "end"
    /\ UNCHANGED <<back, cur, fin, batch, ctx, wv, response_size, interrupt, histVars, netVars>>

ErrorEvent(f) ==
    /\ pc = "batch" /\ <<f, "err">> \in batch
    /\ batch' = batch \ {<<f, "err">>}
    /\ CloseConnection(f, "batch")
    /\ UNCHANGED <<fin, wv, got>>

ReadEvent(f) ==
    /\ pc = "batch" /\ <<f, "in">> \in batch
    /\ batch' = batch \ {<<f, "in">>}
    /\ cur' = f /\ pc' = "read"
    /\ UNCHANGED <<back, fin, ctx, wv, flagVars, histVars, netVars>>

\* MOD fails on an id that is not registered.  mtcp_write fails on one that
\* is not connected; that is only logged.
SendHTTPRequest(f) ==
    /\ wv' = [wv EXCEPT ![f] = [ZeroVars EXCEPT !.request_sent = TRUE]]
    /\ asked' = [asked EXCEPT ![f] = st[f] = "est"]
    /\ IF reg[f] = "off" THEN UNCHANGED epollVars ELSE mtcp_epoll_register(f, "in", f)

WriteEvent(f) ==
    /\ pc = "batch" /\ <<f, "out">> \in batch
    /\ batch' = batch \ {<<f, "out">>}
    /\ IF wv[f].request_sent THEN UNCHANGED <<wv, asked, epollVars>> ELSE SendHTTPRequest(f)
    /\ UNCHANGED <<pc, back, cur, fin, ctx, flagVars, failed, got, st, own, rx, eof>>

\* Mutant: the thread goes on until more connections have ended than it makes.
BatchDoneLate ==
    /\ pc = "batch" /\ batch = {}
    /\ pc' = IF ctx.done > Flows THEN "end" ELSE "loop"
    /\ UNCHANGED <<back, cur, fin, batch, ctx, wv, flagVars, histVars, netVars>>

BatchDone ==
    /\ pc = "batch" /\ batch = {}
    /\ pc' = IF ctx.done >= Flows THEN "end" ELSE "loop"
    /\ UNCHANGED <<back, cur, fin, batch, ctx, wv, flagVars, histVars, netVars>>

-----------------------------------------------------------------------------
(***************************************************************************)
(* HandleReadEvent, one call of mtcp_read a step.  The first read of a     *)
(* connection must hold the whole header: if not, the connection is        *)
(* dropped, so the parser never sees a second part.                        *)
(***************************************************************************)
Least(a, b) == IF a < b THEN a ELSE b

HasData(f) == Readable(f) /\ rx[f] > 0

ReadLen == Least(rx[cur], BufSize)

\* What the parser sees of a first read.
Kept == Least(ReadLen, HttpHeaderLen)

Complete(w) == w.headerset /\ w.recv >= w.header_len + w.file_len

\* Mutant: the kept part of the first read is counted again.
CountFirstTwice(h) == wv[cur].recv + ReadLen + (Kept - h)

\* The part before and in the header, then what is left behind it.
CountFirst(h) == wv[cur].recv + (ReadLen - (Kept - h)) + (Kept - h)

Took ==
    /\ rx' = [rx EXCEPT ![cur] = @ - ReadLen]
    /\ got' = [got EXCEPT ![cur] = @ + ReadLen]

\* The call returns data and the loop reads on.
ReadOn ==
    /\ Took
    /\ UNCHANGED <<pc, back, cur, fin, batch, ctx, flagVars, failed, asked, st, own, eof, epollVars>>

\* The call returns data and the connection is closed.
ReadLast(next) ==
    /\ got' = [got EXCEPT ![cur] = @ + ReadLen]
    /\ CloseConnection(cur, next)
    /\ fin' = IF next = "report" THEN cur ELSE fin
    /\ UNCHANGED batch

Reading == pc = "read" /\ HasData(cur)

\* rd is now the length behind the header: 0 ends the loop like a close.
ReadHeader(h, n) ==
    /\ Reading /\ ~wv[cur].headerset /\ h <= Kept
    /\ wv' = [wv EXCEPT ![cur] = [@ EXCEPT !.headerset = TRUE, !.header_len = h,
                                           !.file_len = n, !.recv = CountFirst(h)]]
    /\ IF Complete(wv'[cur]) THEN ReadLast("report")
       ELSE IF Kept = h THEN ReadLast("batch") ELSE ReadOn

ReadBadHeader ==
    /\ Reading /\ ~wv[cur].headerset /\ \E h \in HeaderLens : h > Kept
    /\ wv' = [wv EXCEPT ![cur].recv = @ + ReadLen]
    /\ ReadLast("batch")

ReadBody ==
    /\ Reading /\ wv[cur].headerset
    /\ wv' = [wv EXCEPT ![cur].recv = @ + ReadLen]
    /\ IF Complete(wv'[cur]) THEN ReadLast("report") ELSE ReadOn

ReadAgain ==
    /\ pc = "read" /\ ~HasData(cur) /\ AtEnd(cur) = "again"
    /\ pc' = "batch" /\ cur' = None
    /\ UNCHANGED <<back, fin, batch, ctx, wv, flagVars, histVars, netVars>>

\* Mutant: every end of the stream is taken for a complete download.
ReadEndReportsAll ==
    /\ pc = "read" /\ ~HasData(cur) /\ AtEnd(cur) # "again"
    /\ IF AtEnd(cur) = "zero"
       THEN CloseConnection(cur, "report") /\ fin' = cur
       ELSE CloseConnection(cur, "batch") /\ UNCHANGED fin
    /\ UNCHANGED <<batch, wv, got>>

\* End of the stream before the end of the response, or an error.
ReadEnd ==
    /\ pc = "read" /\ ~HasData(cur) /\ AtEnd(cur) # "again"
    /\ IF AtEnd(cur) = "zero" /\ Complete(wv[cur])
       THEN CloseConnection(cur, "report") /\ fin' = cur
       ELSE CloseConnection(cur, "batch") /\ UNCHANGED fin
    /\ UNCHANGED <<batch, wv, got>>

\* The end of DownloadComplete, after CloseConnection: wvars is read again.
Report ==
    /\ pc = "report"
    /\ response_size' = IF response_size = 0 THEN wv[fin].recv ELSE response_size
    /\ pc' = "batch" /\ fin' = None
    /\ UNCHANGED <<back, cur, batch, ctx, wv, quit, interrupt, histVars, netVars>>

-----------------------------------------------------------------------------
(* The environment. *)

SignalHandler ==
    /\ Signals /\ ~interrupt
    /\ interrupt' = TRUE /\ quit' = TRUE
    /\ UNCHANGED <<pc, back, cur, fin, batch, ctx, wv, response_size, histVars, netVars>>

Network(f) ==
    /\ \/ Established(f) /\ UNCHANGED failed
       \/ Failures /\ Broken(f) /\ failed' = TRUE
       \/ asked[f] /\ (DataArrives(f) \/ FinArrives(f)) /\ UNCHANGED failed
    /\ UNCHANGED <<threadVars, interrupt, asked, got>>

ThreadStep ==
    \/ LoopTest \/ Filled \/ SocketFails \/ AddConnection
    \/ EpollWait \/ EpollInterrupted \/ BatchDone
    \/ ReadBadHeader \/ ReadBody \/ ReadAgain \/ ReadEnd \/ Report
    \/ \E f \in Fds : \/ CreateConnection(f) \/ ConnectFails(f) \/ NonblockFails(f)
                      \/ ErrorEvent(f) \/ ReadEvent(f) \/ WriteEvent(f)
    \/ \E h \in HeaderLens, n \in FileLens : ReadHeader(h, n)

Next == ThreadStep \/ SignalHandler \/ \E f \in Fds : Network(f)

Spec == Init /\ [][Next]_vars

\* The thread runs, connections are established or fail, the server answers.
FairSpec == Spec /\ WF_vars(ThreadStep) /\ \A f \in Fds : WF_vars(Network(f))

-----------------------------------------------------------------------------
(* Properties. *)

Open == {f \in Fds : st[f] # "free"}

\* The length of a response counted in two pieces by HandleReadEvent, with
\* the part of a long first read that the parser does not keep, is what was
\* read from this connection, whichever connections used the id before.
RecvCountsBytes == \A f \in Open : wv[f].recv = got[f]

\* Failures and stale events included, the thread never waits for a
\* connection that is gone: it counts as pending at most what is open.
CountedIsOpen == ctx.pending <= Cardinality(Open)

\* Until something fails the counter is exact: no connection is closed twice
\* or forgotten, so the limit on concurrency holds for the connections too.
PendingIsOpen ==
    ~failed => ctx.pending = Cardinality(Open \ (IF pc = "add" THEN {cur} ELSE {}))

\* Until something fails a connection marked request_sent has got its request
\* into the stack; otherwise it would wait for an answer for ever.
RequestWritten == ~failed => \A f \in Open : wv[f].request_sent => asked[f]

\* The size that all responses are compared with is that of a complete one,
\* though DownloadComplete reads it after CloseConnection may have given the
\* id, and its record, to a new connection.
FirstSizeIsWhole == [][response_size' # response_size => Complete(wv[fin])]_vars

\* If nothing fails every flow ends, and with it the thread.
ThreadEnds == <>(failed \/ interrupt \/ (pc = "end" /\ ctx.done = Flows))

\* After SIGINT the thread leaves its loop wherever it was.
SignalEnds == interrupt ~> (pc \in {"end", "aborted", "exited"})

\* assert(ctx->pending >= 0): the counter would be below the number of
\* connections that were not closed yet, were each closed once.
AssertionHolds == pc # "aborted"
=============================================================================
