------------------------------ MODULE WgetProofs ------------------------------
(***************************************************************************)
(* Proofs that the download client counts responses and connections right, *)
(* for every number of ids and connections and all lengths, with failures, *)
(* signals and stale events.                                               *)
(*                                                                         *)
(* RecvCountsBytes is not inductive: SendHTTPRequest clears recv, which is *)
(* right only because nothing has been read before.  ConnInv says so.      *)
(* The count of pending connections rests on CountInv and, until something *)
(* fails, on EventsFresh: no event is about an earlier use of its id; and  *)
(* on Sound, because level triggering returns what is registered and true. *)
(***************************************************************************)
EXTENDS Wget, FiniteSetTheorems, TLAPS

DataTypeOK ==
    /\ st \in [Fds -> {"free", "idle", "syn", "est", "failed"}]
    /\ rx \in [Fds -> Nat]
    /\ wv \in [Fds -> WgetVars]
    /\ asked \in [Fds -> BOOLEAN]
    /\ got \in [Fds -> Nat]

\* Data comes only after the request, and the request is sent only once.
ConnInv ==
    \A f \in Fds :
        /\ st[f] = "free" => rx[f] = 0
        /\ st[f] # "free" =>
             /\ wv[f].recv = got[f]
             /\ asked[f] => wv[f].request_sent
             /\ rx[f] > 0 \/ got[f] > 0 => asked[f]

DataInv == DataTypeOK /\ ConnInv

ReadsId == back \in {"wait", "batch", "report"} /\ (pc = "read" => cur \in Fds)

dataVars == <<st, rx, wv, asked, got>>

\* A record of WgetVars and its updates.
LEMMA Records ==
    /\ ZeroVars \in WgetVars /\ ZeroVars.recv = 0 /\ ~ZeroVars.request_sent
    /\ [ZeroVars EXCEPT !.request_sent = TRUE] \in WgetVars
    /\ [ZeroVars EXCEPT !.request_sent = TRUE].recv = 0
    /\ [ZeroVars EXCEPT !.request_sent = TRUE].request_sent
    /\ \A w \in WgetVars : w.recv \in Nat /\ w.request_sent \in BOOLEAN
BY DEF WgetVars, ZeroVars

\* mtcp_close frees the id and empties its buffer, whoever holds it.
LEMMA CloseKeeps ==
    ASSUME DataInv, NEW f \in Fds, mtcp_close(f), UNCHANGED asked,
           wv' \in [Fds -> WgetVars], got' \in [Fds -> Nat],
           \A g \in Fds \ {f} : wv'[g] = wv[g] /\ got'[g] = got[g]
    PROVE  DataInv'
BY DEF DataInv, DataTypeOK, ConnInv, mtcp_close

\* A read that moves n units from the buffer into recv.
LEMMA TakeKeeps ==
    ASSUME DataInv, NEW f \in Fds, NEW n \in Nat, n <= rx[f], 0 < n,
           UNCHANGED <<st, asked>>,
           rx' = [rx EXCEPT ![f] = @ - n], got' = [got EXCEPT ![f] = @ + n],
           wv' \in [Fds -> WgetVars],
           wv'[f].recv = wv[f].recv + n, wv'[f].request_sent = wv[f].request_sent,
           \A g \in Fds \ {f} : wv'[g] = wv[g]
    PROVE  DataInv'
<1>1. rx' \in [Fds -> Nat] /\ got' \in [Fds -> Nat]
  BY DEF DataInv, DataTypeOK
<1>2. DataTypeOK'
  BY <1>1 DEF DataInv, DataTypeOK
<1>3. ASSUME NEW g \in Fds
      PROVE  /\ st'[g] = "free" => rx'[g] = 0
             /\ st'[g] # "free" =>
                  /\ wv'[g].recv = got'[g]
                  /\ asked'[g] => wv'[g].request_sent
                  /\ rx'[g] > 0 \/ got'[g] > 0 => asked'[g]
  <2>1. CASE g = f
    BY <2>1 DEF DataInv, DataTypeOK, ConnInv
  <2>2. CASE g # f
    BY <2>2 DEF DataInv, DataTypeOK, ConnInv
  <2> QED BY <2>1, <2>2
<1> QED BY <1>2, <1>3 DEF DataInv, ConnInv

\* What a read returns is not empty and was in the buffer; the two pieces of
\* a first read add up to it.
LEMMA ReadPieces ==
    ASSUME DataInv, cur \in Fds, rx[cur] > 0
    PROVE  /\ ReadLen \in Nat /\ 0 < ReadLen /\ ReadLen <= rx[cur]
           /\ Kept \in Nat
           /\ \A h \in HeaderLens : CountFirst(h) = wv[cur].recv + ReadLen
<1>1. rx[cur] \in Nat /\ BufSize \in Nat \ {0} /\ HttpHeaderLen \in Nat
  BY WgetAssumption DEF DataInv, DataTypeOK
<1>2. ReadLen \in Nat /\ 0 < ReadLen /\ ReadLen <= rx[cur]
  BY <1>1 DEF ReadLen, Least
<1>3. Kept \in Nat
  BY <1>1, <1>2 DEF Kept, Least
<1>4. wv[cur].recv \in Nat /\ HeaderLens \subseteq Nat
  BY Records, WgetAssumption DEF DataInv, DataTypeOK
<1> QED BY <1>2, <1>3, <1>4 DEF CountFirst

\* A read keeps the invariant whether the connection stays or is closed.
LEMMA ReadKeeps ==
    ASSUME DataInv, ReadsId, Reading,
           ReadOn \/ \E n \in {"batch", "report"} : ReadLast(n),
           NEW w \in WgetVars, wv' = [wv EXCEPT ![cur] = w],
           w.recv = wv[cur].recv + ReadLen, w.request_sent = wv[cur].request_sent
    PROVE  DataInv'
<1>1. cur \in Fds /\ rx[cur] > 0
  BY DEF Reading, HasData, ReadsId
<1>2. ReadLen \in Nat /\ 0 < ReadLen /\ ReadLen <= rx[cur]
  BY <1>1, ReadPieces
<1>3. /\ wv' \in [Fds -> WgetVars] /\ wv'[cur] = w
      /\ \A g \in Fds \ {cur} : wv'[g] = wv[g]
  BY <1>1 DEF DataInv, DataTypeOK
<1>4. CASE ReadOn
  <2>1. /\ UNCHANGED <<st, asked>>
        /\ rx' = [rx EXCEPT ![cur] = @ - ReadLen]
        /\ got' = [got EXCEPT ![cur] = @ + ReadLen]
    BY <1>4 DEF ReadOn, Took
  <2> QED BY <1>1, <1>2, <1>3, <2>1, TakeKeeps
<1>5. ASSUME NEW n, ReadLast(n) PROVE DataInv'
  <2>1. mtcp_close(cur) /\ UNCHANGED asked /\ got' = [got EXCEPT ![cur] = @ + ReadLen]
    BY <1>5 DEF ReadLast, CloseConnection
  <2>2. got' \in [Fds -> Nat] /\ \A g \in Fds \ {cur} : got'[g] = got[g]
    BY <1>1, <1>2, <2>1 DEF DataInv, DataTypeOK
  <2> QED BY <1>1, <1>3, <2>1, <2>2, CloseKeeps
<1> QED BY <1>4, <1>5

\* The three kinds of read that return data.
LEMMA DataReads ==
    ASSUME DataInv, ReadsId,
           ReadBadHeader \/ ReadBody \/ \E h \in HeaderLens, n \in FileLens : ReadHeader(h, n)
    PROVE  DataInv'
<1>1. Reading /\ cur \in Fds /\ rx[cur] > 0
  BY DEF ReadBadHeader, ReadBody, ReadHeader, Reading, HasData, ReadsId
<1>2. /\ ReadLen \in Nat /\ wv[cur] \in WgetVars /\ wv[cur].recv \in Nat
      /\ \A h \in HeaderLens : CountFirst(h) = wv[cur].recv + ReadLen
  BY <1>1, ReadPieces, Records DEF DataInv, DataTypeOK
<1>3. CASE ReadBadHeader \/ ReadBody
  <2> DEFINE w == [wv[cur] EXCEPT !.recv = @ + ReadLen]
  <2>1. wv' = [wv EXCEPT ![cur] = w]
    BY <1>3 DEF ReadBadHeader, ReadBody
  <2>2. /\ w \in WgetVars /\ w.recv = wv[cur].recv + ReadLen
        /\ w.request_sent = wv[cur].request_sent
    BY <1>2 DEF WgetVars
  <2>3. \/ ReadOn
        \/ \E n \in {"batch", "report"} : ReadLast(n)
    BY <1>3 DEF ReadBadHeader, ReadBody
  <2> HIDE DEF w
  <2> QED BY <1>1, <2>1, <2>2, <2>3, ReadKeeps
<1>4. ASSUME NEW h \in HeaderLens, NEW l \in FileLens, ReadHeader(h, l) PROVE DataInv'
  <2> DEFINE w == [wv[cur] EXCEPT !.headerset = TRUE, !.header_len = h,
                                  !.file_len = l, !.recv = CountFirst(h)]
  <2>1. wv' = [wv EXCEPT ![cur] = w]
    BY <1>4 DEF ReadHeader
  <2>2. /\ w \in WgetVars /\ w.recv = wv[cur].recv + ReadLen
        /\ w.request_sent = wv[cur].request_sent
    <3>1. h \in Nat /\ l \in Nat /\ CountFirst(h) = wv[cur].recv + ReadLen /\ CountFirst(h) \in Nat
      BY <1>2, WgetAssumption
    <3> QED BY <1>2, <3>1 DEF WgetVars
  <2>3. \/ ReadOn
        \/ \E n \in {"batch", "report"} : ReadLast(n)
    BY <1>4 DEF ReadHeader
  <2> HIDE DEF w
  <2> QED BY <1>1, <2>1, <2>2, <2>3, ReadKeeps
<1> QED BY <1>3, <1>4

\* Every step of the thread.
LEMMA ThreadSteps ==
    ASSUME DataInv, ReadsId, ThreadStep
    PROVE  DataInv'
<1>1. CASE LoopTest \/ Filled \/ SocketFails \/ AddConnection \/ EpollWait \/ EpollInterrupted
           \/ BatchDone \/ ReadAgain \/ Report \/ \E f \in Fds : ReadEvent(f)
  <2>1. UNCHANGED dataVars
    BY <1>1 DEF LoopTest, Filled, SocketFails, GiveUp, AddConnection, EpollWait, EpollInterrupted,
                BatchDone, ReadAgain, Report, ReadEvent, dataVars, histVars, netVars
  <2> QED BY <2>1 DEF DataInv, DataTypeOK, ConnInv, dataVars
<1>2. ASSUME NEW f \in Fds, CreateConnection(f) PROVE DataInv'
  <2>1. /\ st[f] = "free" /\ st' = [st EXCEPT ![f] = "syn"] /\ rx' = rx
        /\ wv' = [wv EXCEPT ![f] = ZeroVars]
        /\ asked' = [asked EXCEPT ![f] = FALSE] /\ got' = [got EXCEPT ![f] = 0]
    BY <1>2 DEF CreateConnection, mtcp_socket, FreshVars
  <2> QED BY <2>1, Records DEF DataInv, DataTypeOK, ConnInv
<1>6. ASSUME NEW f \in Fds, ConnectFails(f) \/ NonblockFails(f) PROVE DataInv'
  <2>1. /\ st[f] = "free" /\ rx' = rx
        /\ st' = st \/ st' = [st EXCEPT ![f] = "idle"]
        /\ wv' = [wv EXCEPT ![f] = ZeroVars]
        /\ asked' = [asked EXCEPT ![f] = FALSE] /\ got' = [got EXCEPT ![f] = 0]
    BY <1>6 DEF ConnectFails, NonblockFails, Cleared, mtcp_socket, FreshVars, netVars
  <2> QED BY <2>1, Records DEF DataInv, DataTypeOK, ConnInv
<1>3. ASSUME NEW f \in Fds, ErrorEvent(f) PROVE DataInv'
  <2>1. mtcp_close(f) /\ UNCHANGED <<asked, wv, got>>
    BY <1>3 DEF ErrorEvent, CloseConnection
  <2> QED BY <2>1, CloseKeeps DEF DataInv, DataTypeOK
<1>4. ASSUME NEW f \in Fds, WriteEvent(f) PROVE DataInv'
  <2>1. CASE wv[f].request_sent
    <3>1. UNCHANGED dataVars
      BY <1>4, <2>1 DEF WriteEvent, dataVars
    <3> QED BY <3>1 DEF DataInv, DataTypeOK, ConnInv, dataVars
  <2>2. CASE ~wv[f].request_sent
    <3> DEFINE w == [ZeroVars EXCEPT !.request_sent = TRUE]
    <3>1. /\ UNCHANGED <<st, rx, got>> /\ wv' = [wv EXCEPT ![f] = w]
          /\ asked' = [asked EXCEPT ![f] = st[f] = "est"]
      BY <1>4, <2>2 DEF WriteEvent, SendHTTPRequest
    <3>2. w \in WgetVars /\ w.recv = 0 /\ w.request_sent
      BY Records
    <3>3. st[f] # "free" => got[f] = 0 /\ rx[f] = 0
      BY <2>2 DEF DataInv, DataTypeOK, ConnInv
    <3> HIDE DEF w
    <3>4. DataTypeOK'
      BY <3>1, <3>2 DEF DataInv, DataTypeOK
    <3>5. ConnInv'
      BY <3>1, <3>2, <3>3 DEF DataInv, DataTypeOK, ConnInv
    <3> QED BY <3>4, <3>5 DEF DataInv
  <2> QED BY <2>1, <2>2
<1>5. CASE ReadEnd
  <2>1. cur \in Fds
    BY <1>5 DEF ReadEnd, ReadsId
  <2>2. mtcp_close(cur) /\ UNCHANGED <<asked, wv, got>>
    BY <1>5 DEF ReadEnd, CloseConnection
  <2> QED BY <2>1, <2>2, CloseKeeps DEF DataInv, DataTypeOK
<1> QED BY <1>1, <1>2, <1>3, <1>4, <1>5, <1>6, DataReads DEF ThreadStep

\* The steps of the network add data only to connections that were asked.
LEMMA NetworkSteps ==
    ASSUME DataInv, NEW f \in Fds, Network(f)
    PROVE  DataInv'
<1>1. UNCHANGED <<wv, asked, got>>
  BY DEF Network, threadVars, histVars
<1>2. CASE Established(f) \/ Broken(f)
  BY <1>1, <1>2 DEF Established, Broken, DataInv, DataTypeOK, ConnInv
<1>3. CASE asked[f] /\ DataArrives(f)
  BY <1>1, <1>3 DEF DataArrives, DataInv, DataTypeOK, ConnInv
<1>4. CASE FinArrives(f)
  BY <1>1, <1>4 DEF FinArrives, DataInv, DataTypeOK, ConnInv
<1> QED BY <1>2, <1>3, <1>4 DEF Network

\* HandleReadEvent always reads an id.
LEMMA ReadsIdStep == ASSUME ReadsId, Next PROVE ReadsId'
<1> USE DEF ReadsId
<1>1. CASE ThreadStep
  <2>1. CASE LoopTest \/ Filled \/ SocketFails \/ AddConnection
    BY <2>1 DEF LoopTest, Filled, SocketFails, GiveUp, AddConnection
  <2>2. CASE EpollWait \/ EpollInterrupted \/ BatchDone \/ ReadAgain \/ Report
    BY <2>2 DEF EpollWait, EpollInterrupted, BatchDone, ReadAgain, Report
  <2>3. CASE ReadBadHeader
    BY <2>3 DEF ReadBadHeader, ReadLast, CloseConnection
  <2>4. CASE ReadBody
    BY <2>4 DEF ReadBody, ReadOn, ReadLast, CloseConnection
  <2>5. CASE ReadEnd
    BY <2>5 DEF ReadEnd, CloseConnection
  <2>6. ASSUME NEW h \in HeaderLens, NEW n \in FileLens, ReadHeader(h, n) PROVE ReadsId'
    BY <2>6 DEF ReadHeader, ReadOn, ReadLast, CloseConnection
  <2>7. ASSUME NEW f \in Fds,
               \/ CreateConnection(f) \/ ConnectFails(f) \/ NonblockFails(f)
               \/ ErrorEvent(f) \/ ReadEvent(f) \/ WriteEvent(f)
        PROVE  ReadsId'
    BY <2>7 DEF CreateConnection, ConnectFails, NonblockFails, Cleared, GiveUp, ErrorEvent, ReadEvent, WriteEvent, CloseConnection
  <2> QED BY <1>1, <2>1, <2>2, <2>3, <2>4, <2>5, <2>6, <2>7 DEF ThreadStep
<1>2. CASE SignalHandler
  BY <1>2 DEF SignalHandler
<1>3. ASSUME NEW f \in Fds, Network(f) PROVE ReadsId'
  BY <1>3 DEF Network, threadVars
<1> QED BY <1>1, <1>2, <1>3 DEF Next

\* Every step.
LEMMA DataStep ==
    ASSUME DataInv, ReadsId, [Next]_vars PROVE DataInv' /\ ReadsId'
<1>1. CASE Next
  <2>1. ASSUME SignalHandler PROVE DataInv'
    BY <2>1 DEF SignalHandler, histVars, netVars, DataInv, DataTypeOK, ConnInv
  <2>2. DataInv'
    BY <1>1, <2>1, ThreadSteps, NetworkSteps DEF Next
  <2> QED BY <1>1, <2>2, ReadsIdStep
<1>2. CASE UNCHANGED vars
  BY <1>2 DEF vars, threadVars, histVars, netVars, DataInv, DataTypeOK, ConnInv, ReadsId
<1> QED BY <1>1, <1>2

\* What HandleReadEvent adds up in recv is what it has read from the
\* connection, for every number of ids, all lengths and all orders of events.
THEOREM RecvExact == Spec => []RecvCountsBytes
<1>1. Init => DataInv /\ ReadsId
  BY Records DEF Init, StackInit, DataInv, DataTypeOK, ConnInv, ReadsId
<1>2. DataInv /\ ReadsId /\ [Next]_vars => DataInv' /\ ReadsId'
  BY DataStep
<1>3. DataInv => RecvCountsBytes
  BY DEF DataInv, ConnInv, RecvCountsBytes, Open
<1> QED BY <1>1, <1>2, <1>3, PTL DEF Spec

-----------------------------------------------------------------------------
(***************************************************************************)
(* The counters.  A connection is open before AddConnection counts it, so  *)
(* the count must leave room for it (CountInv).                            *)
(***************************************************************************)
LoopType ==
    /\ ctx \in [started : Int, pending : Int, done : Int]
    /\ reg \in [Fds -> {"off", "in", "out"}]
    /\ ready \in SUBSET (Fds \X Kinds)
    /\ batch \in SUBSET (Fds \X Kinds)
    /\ pc = "add" => cur \in Fds /\ st[cur] # "free"

CountInv == ctx.pending + (IF pc = "add" THEN 1 ELSE 0) <= Cardinality(Open)

loopVars == <<pc, cur, batch, ctx, st, reg, ready>>

\* The set of open connections is finite, and what opening and closing do to it.
LEMMA OpenFinite == IsFiniteSet(Open) /\ Cardinality(Open) \in Nat
<1>1. IsFiniteSet(Open)
  BY WgetAssumption, FS_Subset DEF Open
<1> QED BY <1>1, FS_CardinalityType

\* mtcp_close takes at most one connection away.
LEMMA CloseOpen ==
    ASSUME DataTypeOK, NEW f \in Fds, mtcp_close(f)
    PROVE  /\ Open' = Open \ {f}
           /\ Cardinality(Open') = IF f \in Open THEN Cardinality(Open) - 1 ELSE Cardinality(Open)
<1>1. Open' = Open \ {f}
  BY DEF mtcp_close, DataTypeOK, Open
<1> QED BY <1>1, OpenFinite, FS_RemoveElement

\* A new id is one more.
LEMMA SocketOpen ==
    ASSUME DataTypeOK, NEW f \in Fds, NEW state, state # "free", mtcp_socket(f, f, state)
    PROVE  /\ Open' = Open \cup {f} /\ f \notin Open
           /\ Cardinality(Open') = Cardinality(Open) + 1
           /\ Cardinality(Open') \in Nat
<1>1. Open' = Open \cup {f} /\ f \notin Open
  BY DEF mtcp_socket, DataTypeOK, Open
<1>2. Cardinality(Open') = Cardinality(Open) + 1
  BY <1>1, OpenFinite, FS_AddElement
<1> QED BY <1>1, <1>2, OpenFinite

\* CloseConnection counts down by one and never continues with AddConnection.
LEMMA CloseCounts ==
    ASSUME DataTypeOK, LoopType, NEW f \in Fds, NEW n, CloseConnection(f, n),
           batch' \in SUBSET batch
    PROVE  /\ LoopType' /\ mtcp_close(f)
           /\ ctx'.pending = ctx.pending - 1 /\ pc' \in {"fill", "aborted"} /\ back' = n
<1>1. /\ mtcp_close(f) /\ ctx' = [ctx EXCEPT !.pending = @ - 1, !.done = @ + 1]
      /\ pc' \in {"fill", "aborted"} /\ back' = n
  BY DEF CloseConnection, CountClosed
<1>2. /\ ctx' \in [started : Int, pending : Int, done : Int]
      /\ ctx'.pending = ctx.pending - 1
  <2>1. ctx' = [ctx EXCEPT !.pending = @ - 1, !.done = @ + 1]
    BY <1>1
  <2>2. ctx \in [started : Int, pending : Int, done : Int]
    BY DEF LoopType
  <2>3. ctx.pending \in Int /\ ctx.done \in Int /\ ctx.pending - 1 \in Int /\ ctx.done + 1 \in Int
    BY <2>2
  <2> QED BY <2>1, <2>2, <2>3
<1>3. /\ reg' \in [Fds -> {"off", "in", "out"}]
      /\ ready' \in SUBSET (Fds \X Kinds)
  BY <1>1 DEF LoopType, mtcp_close, mtcp_epoll_deregister
<1> QED BY <1>1, <1>2, <1>3 DEF LoopType

\* The steps that close a connection, with the id they close.
Closes(f) ==
    /\ \E n \in {"batch", "report"} : CloseConnection(f, n)
    /\ batch' \in SUBSET batch
    /\ \/ ErrorEvent(f)
       \/ pc = "read" /\ cur = f /\ UNCHANGED batch

\* A step of the thread closes an id, opens one, counts one, or leaves the
\* connections and their number alone.
LEMMA ThreadKinds ==
    ASSUME ReadsId, ThreadStep
    PROVE  \/ \E f \in Fds : Closes(f)
           \/ \E f \in Fds : CreateConnection(f)
           \/ AddConnection
           \/ /\ pc # "add" /\ pc' # "add" /\ ctx' = ctx
              /\ st' = st \/ \E f \in Fds : NonblockFails(f)
<1>1. CASE LoopTest \/ Filled \/ SocketFails \/ EpollWait \/ EpollInterrupted \/ BatchDone
           \/ ReadAgain \/ Report
           \/ \E f \in Fds : ReadEvent(f) \/ WriteEvent(f) \/ ConnectFails(f) \/ NonblockFails(f)
  BY <1>1 DEF LoopTest, Filled, SocketFails, GiveUp, EpollWait, EpollInterrupted, BatchDone, ReadAgain,
              Report, ReadEvent, WriteEvent, ConnectFails, NonblockFails, Cleared, netVars, ReadsId
<1>2. ASSUME NEW f \in Fds, ErrorEvent(f) PROVE Closes(f)
  BY <1>2 DEF ErrorEvent, Closes
<1>3. CASE ReadEnd
  BY <1>3 DEF ReadEnd, Closes, ReadsId
<1>4. ASSUME Reading, ReadOn \/ \E n \in {"batch", "report"} : ReadLast(n)
      PROVE  \/ cur \in Fds /\ Closes(cur)
             \/ pc # "add" /\ pc' # "add" /\ UNCHANGED <<ctx, st>>
  BY <1>4 DEF Reading, ReadOn, ReadLast, Closes, ReadsId
<1>5. CASE ReadBadHeader \/ ReadBody \/ \E h \in HeaderLens, n \in FileLens : ReadHeader(h, n)
  <2>1. Reading /\ (ReadOn \/ \E n \in {"batch", "report"} : ReadLast(n))
    BY <1>5 DEF ReadBadHeader, ReadBody, ReadHeader
  <2> QED BY <1>4, <2>1
<1> QED BY <1>1, <1>2, <1>3, <1>5 DEF ThreadStep

\* A registration, and what it makes ready.
LEMMA RegisterType ==
    ASSUME LoopType, NEW f \in Fds, NEW kind \in {"in", "out"}, NEW p, mtcp_epoll_register(f, kind, p)
    PROVE  /\ reg' \in [Fds -> {"off", "in", "out"}]
           /\ ready' \in SUBSET (Fds \X Kinds)
<1>1. kind \in Kinds
  BY DEF Kinds
<1>2. PendingOn(f, kind) \in SUBSET (Fds \X Kinds)
  BY <1>1 DEF PendingOn
<1> QED BY <1>2 DEF LoopType, mtcp_epoll_register

\* What level triggering may add is about registered ids.
LEMMA LevelType ==
    ASSUME LoopType
    PROVE  \A e \in LevelReady : /\ e \in Fds \X Kinds
                                 /\ \/ e[2] = "err" /\ st[e[1]] = "failed"
                                    \/ e[2] = reg[e[1]] /\ e \in PendingOn(e[1], reg[e[1]])
<1> SUFFICES ASSUME NEW e \in LevelReady
             PROVE  /\ e \in Fds \X Kinds
                    /\ \/ e[2] = "err" /\ st[e[1]] = "failed"
                       \/ e[2] = reg[e[1]] /\ e \in PendingOn(e[1], reg[e[1]])
  OBVIOUS
<1>1. CASE e \in {<<f, "err">> : f \in {g \in Fds : reg[g] # "off" /\ st[g] = "failed"}}
  BY <1>1 DEF Kinds
<1>2. CASE e \notin {<<f, "err">> : f \in {g \in Fds : reg[g] # "off" /\ st[g] = "failed"}}
  <2>1. PICK f \in Fds : e \in PendingOn(f, reg[f])
    BY <1>2 DEF LevelReady
  <2>2. e = <<f, reg[f]>> /\ reg[f] \in Kinds
    BY <2>1 DEF PendingOn, Kinds
  <2> QED BY <2>1, <2>2
<1> QED BY <1>1, <1>2

\* Every step keeps the types.
LEMMA LoopTypeStep ==
    ASSUME DataInv, ReadsId, LoopType, [Next]_vars PROVE LoopType'
<1>1. ASSUME NEW f \in Fds, Closes(f) PROVE LoopType'
  BY <1>1, CloseCounts DEF Closes, DataInv
<1>2. ASSUME NEW f \in Fds, CreateConnection(f) PROVE LoopType'
  BY <1>2 DEF CreateConnection, mtcp_socket, LoopType, DataInv, DataTypeOK, epollVars
<1>14. ASSUME NEW f \in Fds, ConnectFails(f) \/ NonblockFails(f) PROVE LoopType'
  BY <1>14 DEF ConnectFails, NonblockFails, Cleared, GiveUp, mtcp_socket, LoopType, netVars, epollVars,
               ReadsId
<1>3. CASE AddConnection
  <2>1. /\ cur \in Fds /\ mtcp_epoll_register(cur, "out", cur)
        /\ pc' = "fill" /\ batch' = batch
        /\ ctx' = [ctx EXCEPT !.started = @ + 1, !.pending = @ + 1]
    BY <1>3 DEF AddConnection, LoopType
  <2>2. ctx' \in [started : Int, pending : Int, done : Int]
    <3>1. ctx.started + 1 \in Int /\ ctx.pending + 1 \in Int
      BY DEF LoopType
    <3> QED BY <2>1, <3>1 DEF LoopType
  <2> QED BY <2>1, <2>2, RegisterType DEF LoopType
<1>4. ASSUME NEW f \in Fds, WriteEvent(f) PROVE LoopType'
  <2>1. UNCHANGED <<pc, cur, ctx, st>> /\ batch' \in SUBSET batch
    BY <1>4 DEF WriteEvent
  <2>2. UNCHANGED epollVars \/ mtcp_epoll_register(f, "in", f)
    BY <1>4 DEF WriteEvent, SendHTTPRequest, epollVars
  <2> QED BY <2>1, <2>2, RegisterType DEF LoopType, epollVars
<1>5. CASE EpollWait
  <2>1. PICK still \in SUBSET LevelReady : batch' = ready \cup still
    BY <1>5 DEF EpollWait
  <2>2. batch' \in SUBSET (Fds \X Kinds)
    BY <2>1, LevelType DEF LoopType
  <2> QED BY <1>5, <2>2 DEF EpollWait, LoopType
<1>6. ASSUME pc' # "add", UNCHANGED <<ctx, st, reg, ready>>, batch' \in SUBSET batch PROVE LoopType'
  BY <1>6 DEF LoopType
<1>7. CASE LoopTest \/ Filled \/ SocketFails \/ EpollInterrupted \/ BatchDone
           \/ ReadAgain \/ Report \/ \E f \in Fds : ReadEvent(f)
  BY <1>6, <1>7 DEF LoopTest, Filled, SocketFails, GiveUp, EpollInterrupted, BatchDone, ReadAgain, Report,
                    ReadEvent, netVars, epollVars, ReadsId
<1>8. CASE ReadOn /\ pc = "read"
  BY <1>6, <1>8 DEF ReadOn, epollVars
<1>9. CASE ReadBadHeader \/ ReadBody \/ \E h \in HeaderLens, n \in FileLens : ReadHeader(h, n)
  <2>1. Reading /\ (ReadOn \/ \E n \in {"batch", "report"} : ReadLast(n))
    BY <1>9 DEF ReadBadHeader, ReadBody, ReadHeader
  <2> QED BY <1>1, <1>8, <2>1 DEF Reading, ReadLast, Closes, ReadsId
<1>10. CASE ReadEnd
  BY <1>1, <1>10 DEF ReadEnd, Closes, ReadsId
<1>11. ASSUME NEW f \in Fds, ErrorEvent(f) PROVE LoopType'
  BY <1>1, <1>11 DEF ErrorEvent, Closes
<1>12. ASSUME NEW f \in Fds, Network(f) PROVE LoopType'
  <2>1. UNCHANGED <<pc, cur, ctx, batch, reg>>
    BY <1>12 DEF Network, threadVars, Established, Broken, DataArrives, FinArrives
  <2>2. \A g \in Fds : st[g] # "free" => st'[g] # "free"
    BY <1>12 DEF Network, Established, Broken, DataArrives, FinArrives, DataInv, DataTypeOK
  <2>3. \E kind \in Kinds : Raise(f, kind)
    BY <1>12 DEF Network, Established, Broken, DataArrives, FinArrives, Kinds
  <2> QED BY <2>1, <2>2, <2>3 DEF LoopType, Raise
<1>13. CASE SignalHandler \/ UNCHANGED vars
  BY <1>13 DEF SignalHandler, vars, threadVars, netVars, epollVars, LoopType
<1> QED BY <1>2, <1>3, <1>4, <1>5, <1>7, <1>9, <1>10, <1>11, <1>12, <1>13, <1>14 DEF Next, ThreadStep

\* Every step keeps the count within the open connections.
LEMMA CountStep ==
    ASSUME DataInv, ReadsId, LoopType, CountInv, [Next]_vars PROVE CountInv'
<1>1. ctx.pending \in Int /\ Cardinality(Open) \in Nat
  BY OpenFinite DEF LoopType
<1>2. ASSUME NEW f \in Fds, Closes(f) PROVE CountInv'
  <2>1. ctx'.pending = ctx.pending - 1 /\ pc' # "add" /\ mtcp_close(f)
    BY <1>2, CloseCounts DEF Closes, DataInv
  <2>2. Cardinality(Open') >= Cardinality(Open) - 1
    BY <1>1, <2>1, CloseOpen DEF DataInv
  <2>3. Cardinality(Open') \in Int
    BY <1>1, <2>1, CloseOpen DEF DataInv
  <2> QED BY <1>1, <2>1, <2>2, <2>3 DEF CountInv
<1>3. ASSUME NEW f \in Fds, CreateConnection(f) PROVE CountInv'
  <2>1. ctx' = ctx /\ pc = "fill" /\ pc' = "add"
    BY <1>3 DEF CreateConnection
  <2> QED BY <1>1, <1>3, <2>1, SocketOpen DEF CreateConnection, CountInv, DataInv
<1>4. CASE AddConnection
  <2>1. ctx'.pending = ctx.pending + 1
    BY <1>4 DEF AddConnection, LoopType
  <2>2. Open' = Open /\ pc = "add" /\ pc' = "fill"
    BY <1>4 DEF AddConnection, Open
  <2> QED BY <1>1, <2>1, <2>2 DEF CountInv
<1>5. ASSUME pc # "add", pc' # "add", UNCHANGED <<ctx, st>> PROVE CountInv'
  BY <1>5 DEF CountInv, Open
<1>8. ASSUME NEW f \in Fds, NonblockFails(f) PROVE CountInv'
  <2>1. ctx' = ctx /\ pc = "fill" /\ pc' = "exited"
    BY <1>8 DEF NonblockFails, Cleared
  <2>2. Cardinality(Open') >= Cardinality(Open) /\ Cardinality(Open') \in Nat
    <3>1. Cardinality(Open') = Cardinality(Open) + 1 /\ Cardinality(Open') \in Nat
      BY <1>8, SocketOpen DEF NonblockFails, DataInv
    <3> QED BY <1>1, <3>1
  <2> QED BY <1>1, <2>1, <2>2 DEF CountInv
<1>6. ASSUME NEW f \in Fds, Network(f) PROVE CountInv'
  <2>1. UNCHANGED <<pc, ctx>>
    BY <1>6 DEF Network, threadVars
  <2>2. Open' = Open
    BY <1>6 DEF Network, Established, Broken, DataArrives, FinArrives, DataInv, DataTypeOK, Open
  <2> QED BY <2>1, <2>2 DEF CountInv
<1>7. CASE SignalHandler \/ UNCHANGED vars
  BY <1>7 DEF SignalHandler, vars, threadVars, netVars, CountInv, Open
<1> QED BY <1>2, <1>3, <1>4, <1>5, <1>6, <1>7, <1>8, ThreadKinds DEF Next

-----------------------------------------------------------------------------
(***************************************************************************)
(* Until something fails, events are about the connections they were made  *)
(* for: an id is not closed while a batch holds an event of it, because    *)
(* one batch holds one kind of event of an id.                             *)
(***************************************************************************)
\* Only established connections are registered for data.
Sound == \A f \in Fds : st[f] # "failed" /\ (reg[f] = "in" => st[f] = "est")

EventsFresh ==
    /\ \A e \in ready : reg[e[1]] = e[2] /\ st[e[1]] = "est"
    /\ \A e \in batch : /\ e[2] # "err" /\ st[e[1]] = "est"
                        /\ \A k \in Kinds : <<e[1], k>> \in batch => k = e[2]
    /\ pc = "read" => st[cur] = "est" /\ \A k \in Kinds : <<cur, k>> \notin batch

Exact == ctx.pending = Cardinality(Open \ (IF pc = "add" THEN {cur} ELSE {}))

Requested == \A f \in Open : wv[f].request_sent => asked[f]

Calm == EventsFresh /\ Sound /\ Exact /\ Requested

\* A closed id is one that is read, so no event of it is left.
LEMMA ClosesCalm ==
    ASSUME DataInv, LoopType, EventsFresh, Exact, NEW f \in Fds, Closes(f)
    PROVE  EventsFresh' /\ Exact'
<1>1. pc = "read" /\ cur = f /\ UNCHANGED batch
  BY DEF Closes, ErrorEvent, EventsFresh
<1>2. ctx'.pending = ctx.pending - 1 /\ pc' \in {"fill", "aborted"} /\ mtcp_close(f)
  BY CloseCounts DEF Closes, DataInv
<1>3. st[f] = "est" /\ \A k \in Kinds : <<f, k>> \notin batch
  BY <1>1 DEF EventsFresh
<1>4. /\ ready' = {e \in ready : e[1] # f}
      /\ reg' = [reg EXCEPT ![f] = "off"] /\ st' = [st EXCEPT ![f] = "free"]
  BY <1>2 DEF mtcp_close, mtcp_epoll_deregister
<1>5. \A e \in ready' : reg'[e[1]] = e[2] /\ st'[e[1]] = "est"
  BY <1>4 DEF EventsFresh, LoopType, DataInv, DataTypeOK
<1>6. \A e \in batch : e[1] # f
  <2> SUFFICES ASSUME NEW e \in batch, e[1] = f PROVE FALSE
    OBVIOUS
  <2>1. e = <<f, e[2]>> /\ e[2] \in Kinds
    BY DEF LoopType
  <2> QED BY <1>3, <2>1
<1>7. \A e \in batch' : st'[e[1]] = "est"
  BY <1>1, <1>4, <1>6 DEF EventsFresh, LoopType, DataInv, DataTypeOK
<1>8. EventsFresh'
  BY <1>1, <1>2, <1>5, <1>7 DEF EventsFresh
<1>9. Exact'
  <2>1. Open \ (IF pc = "add" THEN {cur} ELSE {}) = Open /\ f \in Open
    BY <1>1, <1>3 DEF Open
  <2>2. Open' \ (IF pc' = "add" THEN {cur'} ELSE {}) = Open'
    BY <1>2
  <2>3. Cardinality(Open') = Cardinality(Open) - 1
    BY <1>2, <2>1, CloseOpen DEF DataInv
  <2> QED BY <1>2, <2>1, <2>2, <2>3 DEF Exact
<1> QED BY <1>8, <1>9

\* A registration leaves the events of the new kind, and adds one only to an
\* established connection.
LEMMA RegisterFresh ==
    ASSUME LoopType, NEW f \in Fds, NEW kind \in {"in", "out"}, NEW p,
           mtcp_epoll_register(f, kind, p), kind = "in" => st[f] = "est",
           \A e \in ready : reg[e[1]] = e[2] /\ st[e[1]] = "est"
    PROVE  \A e \in ready' : reg'[e[1]] = e[2] /\ st[e[1]] = "est"
<1> SUFFICES ASSUME NEW e \in ready' PROVE reg'[e[1]] = e[2] /\ st[e[1]] = "est"
  OBVIOUS
<1>1. reg' = [reg EXCEPT ![f] = kind]
  BY DEF mtcp_epoll_register
<1>2. CASE e \in PendingOn(f, kind)
  BY <1>1, <1>2 DEF PendingOn, LoopType
<1>3. CASE e \in ready /\ (e[1] = f => e[2] \in {"err", kind})
  <2>1. reg[e[1]] = e[2] /\ st[e[1]] = "est" /\ e[1] \in Fds /\ reg[e[1]] # "err"
    BY <1>3 DEF LoopType
  <2> QED BY <1>1, <1>3, <2>1 DEF LoopType
<1> QED BY <1>2, <1>3 DEF mtcp_epoll_register

\* No step that is not a failure makes a connection unsound.
LEMMA SoundStep ==
    ASSUME DataInv, ReadsId, LoopType, EventsFresh, Sound, [Next]_vars, ~failed'
    PROVE  Sound'
<1> USE DEF LoopType, DataInv, DataTypeOK
<1>1. ASSUME NEW f \in Fds, mtcp_close(f) PROVE Sound'
  BY <1>1 DEF mtcp_close, mtcp_epoll_deregister, Sound
<1>2. ASSUME UNCHANGED <<st, reg>> PROVE Sound'
  BY <1>2 DEF Sound
<1>3. CASE LoopTest \/ Filled \/ EpollWait \/ EpollInterrupted \/ BatchDone \/ ReadAgain \/ Report
           \/ \E f \in Fds : ReadEvent(f)
  BY <1>2, <1>3 DEF LoopTest, Filled, EpollWait, EpollInterrupted, BatchDone, ReadAgain, Report,
                    ReadEvent, netVars, epollVars
<1>4. CASE SocketFails \/ \E f \in Fds : ConnectFails(f) \/ NonblockFails(f)
  BY <1>4 DEF SocketFails, ConnectFails, NonblockFails, GiveUp
<1>5. ASSUME NEW f \in Fds, CreateConnection(f) PROVE Sound'
  BY <1>5 DEF CreateConnection, mtcp_socket, epollVars, Sound
<1>6. CASE AddConnection
  BY <1>6 DEF AddConnection, mtcp_epoll_register, Sound
<1>7. ASSUME NEW f \in Fds, WriteEvent(f) PROVE Sound'
  <2>1. st' = st /\ st[f] = "est" /\ (UNCHANGED epollVars \/ mtcp_epoll_register(f, "in", f))
    BY <1>7 DEF WriteEvent, SendHTTPRequest, EventsFresh
  <2> QED BY <2>1 DEF mtcp_epoll_register, epollVars, Sound
<1>8. ASSUME NEW f \in Fds, ErrorEvent(f) PROVE Sound'
  BY <1>1, <1>8 DEF ErrorEvent, CloseConnection
<1>9. CASE ReadEnd
  BY <1>1, <1>9 DEF ReadEnd, CloseConnection, ReadsId
<1>10. CASE ReadBadHeader \/ ReadBody \/ \E h \in HeaderLens, n \in FileLens : ReadHeader(h, n)
  <2>1. cur \in Fds /\ (ReadOn \/ \E n \in {"batch", "report"} : ReadLast(n))
    BY <1>10 DEF ReadBadHeader, ReadBody, ReadHeader, Reading, ReadsId
  <2> QED BY <1>1, <1>2, <2>1 DEF ReadOn, ReadLast, CloseConnection, epollVars
<1>11. ASSUME NEW f \in Fds, Network(f) PROVE Sound'
  BY <1>11 DEF Network, Established, DataArrives, FinArrives, Sound
<1>12. CASE SignalHandler \/ UNCHANGED vars
  BY <1>2, <1>12 DEF SignalHandler, vars, netVars, epollVars
<1> QED BY <1>3, <1>4, <1>5, <1>6, <1>7, <1>8, <1>9, <1>10, <1>11, <1>12 DEF Next, ThreadStep

\* The other steps of the thread.
LEMMA ThreadCalm ==
    ASSUME DataInv, ReadsId, LoopType, EventsFresh, Sound, Exact, ThreadStep, ~failed'
    PROVE  EventsFresh' /\ Exact'
<1>1. ASSUME NEW f \in Fds, Closes(f) PROVE EventsFresh' /\ Exact'
  BY <1>1, ClosesCalm
<1>2. ASSUME NEW f \in Fds, CreateConnection(f) PROVE EventsFresh' /\ Exact'
  <2>1. /\ st[f] = "free" /\ st' = [st EXCEPT ![f] = "syn"] /\ UNCHANGED <<reg, ready, batch, ctx>>
        /\ pc = "fill" /\ pc' = "add" /\ cur' = f
    BY <1>2 DEF CreateConnection, mtcp_socket, epollVars
  <2>2. EventsFresh'
    BY <2>1 DEF EventsFresh, LoopType, DataInv, DataTypeOK
  <2>3. Open' \ {f} = Open
    BY <1>2, SocketOpen DEF CreateConnection, DataInv
  <2> QED BY <2>1, <2>2, <2>3 DEF Exact
<1>3. CASE AddConnection
  <2>1. /\ cur \in Fds /\ mtcp_epoll_register(cur, "out", cur) /\ UNCHANGED <<batch, st>>
        /\ pc = "add" /\ pc' = "fill" /\ ctx'.pending = ctx.pending + 1
    BY <1>3 DEF AddConnection, LoopType
  <2>2. \A e \in ready' : reg'[e[1]] = e[2] /\ st[e[1]] = "est"
    BY <2>1, RegisterFresh DEF EventsFresh
  <2>3. EventsFresh'
    BY <2>1, <2>2 DEF EventsFresh
  <2>4. Open' = Open /\ cur \in Open
    BY <2>1 DEF Open, LoopType
  <2>5. Cardinality(Open \ {cur}) = Cardinality(Open) - 1 /\ Cardinality(Open) \in Nat
    BY <2>4, OpenFinite, FS_RemoveElement
  <2>6. ctx.pending = Cardinality(Open \ {cur})
    BY <2>1 DEF Exact
  <2>7. ctx'.pending = Cardinality(Open)
    BY <2>1, <2>5, <2>6
  <2> QED BY <2>1, <2>3, <2>4, <2>7 DEF Exact
<1>4. ASSUME pc # "add", pc' # "add", UNCHANGED <<ctx, st>> PROVE Exact'
  BY <1>4 DEF Exact, Open
<1>5. CASE EpollWait
  <2>1. /\ ready' = {} /\ UNCHANGED <<ctx, st>> /\ pc = "wait" /\ pc' = "batch"
        /\ batch' \subseteq ready \cup LevelReady
    BY <1>5 DEF EpollWait
  <2>2. \A e \in LevelReady : e[1] \in Fds /\ e[2] = reg[e[1]] /\ st[e[1]] = "est"
    BY LevelType DEF Sound, PendingOn
  <2>3. \A e \in batch' : /\ e[2] # "err" /\ st[e[1]] = "est" /\ e[2] = reg[e[1]]
    BY <2>1, <2>2 DEF EventsFresh, LoopType
  <2> QED BY <1>4, <2>1, <2>3 DEF EventsFresh
<1>6. ASSUME NEW f \in Fds, ReadEvent(f) PROVE EventsFresh' /\ Exact'
  <2>1. /\ <<f, "in">> \in batch /\ batch' = batch \ {<<f, "in">>} /\ cur' = f
        /\ pc = "batch" /\ pc' = "read" /\ UNCHANGED <<ctx, st, reg, ready>>
    BY <1>6 DEF ReadEvent, netVars, epollVars
  <2>2. st[f] = "est" /\ \A k \in Kinds : <<f, k>> \notin batch'
    BY <2>1 DEF EventsFresh
  <2> QED BY <1>4, <2>1, <2>2 DEF EventsFresh
<1>7. ASSUME NEW f \in Fds, WriteEvent(f) PROVE EventsFresh' /\ Exact'
  <2>1. /\ <<f, "out">> \in batch /\ batch' \in SUBSET batch
        /\ pc = "batch" /\ UNCHANGED <<pc, ctx, st>>
    BY <1>7 DEF WriteEvent
  <2>2. st[f] = "est"
    BY <2>1 DEF EventsFresh
  <2>3. UNCHANGED epollVars \/ mtcp_epoll_register(f, "in", f)
    BY <1>7 DEF WriteEvent, SendHTTPRequest, epollVars
  <2>4. \A e \in ready' : reg'[e[1]] = e[2] /\ st[e[1]] = "est"
    BY <2>2, <2>3, RegisterFresh DEF EventsFresh, epollVars
  <2> QED BY <1>4, <2>1, <2>4 DEF EventsFresh
<1>8. ASSUME pc # "add", pc' \notin {"add", "read"}, UNCHANGED <<ctx, st, reg, ready, batch>>
      PROVE  EventsFresh' /\ Exact'
  BY <1>4, <1>8 DEF EventsFresh
<1>9. CASE LoopTest \/ Filled \/ EpollInterrupted \/ BatchDone \/ ReadAgain \/ Report
  BY <1>8, <1>9 DEF LoopTest, Filled, EpollInterrupted, BatchDone, ReadAgain, Report,
                    netVars, epollVars, ReadsId
<1>10. CASE ReadOn /\ pc = "read"
  <2>1. UNCHANGED <<pc, cur, ctx, st, reg, ready, batch>>
    BY <1>10 DEF ReadOn, epollVars
  <2> QED BY <1>4, <1>10, <2>1 DEF EventsFresh
<1>11. CASE ReadBadHeader \/ ReadBody \/ \E h \in HeaderLens, n \in FileLens : ReadHeader(h, n)
  <2>1. Reading /\ (ReadOn \/ \E n \in {"batch", "report"} : ReadLast(n))
    BY <1>11 DEF ReadBadHeader, ReadBody, ReadHeader
  <2> QED BY <1>1, <1>10, <2>1 DEF Reading, ReadLast, Closes, ReadsId
<1>12. CASE ReadEnd
  BY <1>1, <1>12 DEF ReadEnd, Closes, ReadsId
<1>13. ASSUME NEW f \in Fds, ErrorEvent(f) PROVE EventsFresh' /\ Exact'
  BY <1>1, <1>13 DEF ErrorEvent, Closes
<1>14. ~SocketFails /\ \A f \in Fds : ~ConnectFails(f) /\ ~NonblockFails(f)
  BY DEF SocketFails, ConnectFails, NonblockFails, GiveUp
<1> QED BY <1>2, <1>3, <1>5, <1>6, <1>7, <1>9, <1>11, <1>12, <1>13, <1>14 DEF ThreadStep

\* The network does not fail: it establishes connections and brings data.
LEMMA NetworkCalm ==
    ASSUME DataInv, ReadsId, LoopType, EventsFresh, Exact, NEW f \in Fds, Network(f), ~failed'
    PROVE  EventsFresh' /\ Exact'
<1>1. UNCHANGED <<pc, cur, ctx, batch, reg>>
  BY DEF Network, threadVars, Established, Broken, DataArrives, FinArrives
<1>2. Established(f) \/ DataArrives(f) \/ FinArrives(f)
  BY DEF Network
<1>3. /\ \A g \in Fds : st[g] = "est" => st'[g] = "est"
      /\ st'[f] = "est" /\ Open' = Open
  BY <1>2 DEF Established, DataArrives, FinArrives, DataInv, DataTypeOK, Open
<1>4. PICK kind \in {"in", "out"} : Raise(f, kind)
  BY <1>2 DEF Established, DataArrives, FinArrives
<1>5. ready' = IF reg[f] = kind THEN ready \cup {<<f, kind>>} ELSE ready
  BY <1>4 DEF Raise, LoopType
<1>6. \A e \in ready' : reg'[e[1]] = e[2] /\ st'[e[1]] = "est"
  BY <1>1, <1>3, <1>5 DEF EventsFresh, LoopType
<1>7. EventsFresh'
  <2>1. \A e \in batch : e[1] \in Fds
    BY DEF LoopType
  <2>2. pc = "read" => st'[cur] = "est"
    BY <1>3 DEF EventsFresh, ReadsId
  <2> QED BY <1>1, <1>3, <1>6, <2>1, <2>2 DEF EventsFresh
<1> QED BY <1>1, <1>3, <1>7 DEF Exact

\* A request is marked only when it is written.
LEMMA RequestStep ==
    ASSUME DataInv, ReadsId, LoopType, EventsFresh, Requested, ThreadStep
    PROVE  Requested'
<1>1. ASSUME UNCHANGED <<wv, asked, st>> PROVE Requested'
  BY <1>1 DEF Requested, Open
<1>2. CASE LoopTest \/ Filled \/ SocketFails \/ AddConnection \/ EpollWait \/ EpollInterrupted
           \/ BatchDone \/ ReadAgain \/ Report \/ \E f \in Fds : ReadEvent(f)
  BY <1>1, <1>2 DEF LoopTest, Filled, SocketFails, GiveUp, AddConnection, EpollWait, EpollInterrupted,
                    BatchDone, ReadAgain, Report, ReadEvent, histVars, netVars
<1>3. ASSUME NEW f \in Fds, CreateConnection(f) PROVE Requested'
  <2>1. /\ wv' = [wv EXCEPT ![f] = ZeroVars] /\ st' = [st EXCEPT ![f] = "syn"]
        /\ asked' = [asked EXCEPT ![f] = FALSE]
    BY <1>3 DEF CreateConnection, mtcp_socket, FreshVars
  <2> QED BY <2>1, Records DEF Requested, Open, DataInv, DataTypeOK
<1>10. ASSUME NEW f \in Fds, ConnectFails(f) \/ NonblockFails(f) PROVE Requested'
  <2>1. /\ wv' = [wv EXCEPT ![f] = ZeroVars] /\ st' \in {st, [st EXCEPT ![f] = "idle"]}
        /\ asked' = [asked EXCEPT ![f] = FALSE]
    BY <1>10 DEF ConnectFails, NonblockFails, Cleared, mtcp_socket, FreshVars, netVars
  <2> QED BY <2>1, Records DEF Requested, Open, DataInv, DataTypeOK
<1>4. ASSUME NEW f \in Fds, WriteEvent(f) PROVE Requested'
  <2>1. st[f] = "est" /\ st' = st
    BY <1>4 DEF WriteEvent, EventsFresh
  <2>2. CASE wv[f].request_sent
    BY <1>1, <1>4, <2>2 DEF WriteEvent
  <2>3. CASE ~wv[f].request_sent
    <3>1. /\ wv' = [wv EXCEPT ![f] = [ZeroVars EXCEPT !.request_sent = TRUE]]
          /\ asked' = [asked EXCEPT ![f] = TRUE]
      BY <1>4, <2>1, <2>3 DEF WriteEvent, SendHTTPRequest
    <3> QED BY <2>1, <3>1 DEF Requested, Open, DataInv, DataTypeOK
  <2> QED BY <2>2, <2>3
<1>5. ASSUME UNCHANGED asked, Open' \in SUBSET Open,
             \A g \in Fds : wv'[g].request_sent = wv[g].request_sent
      PROVE  Requested'
  BY <1>5 DEF Requested, Open
<1>6. ASSUME NEW f \in Fds, NEW n, CloseConnection(f, n) PROVE UNCHANGED asked /\ Open' \in SUBSET Open
  BY <1>6, CloseOpen DEF CloseConnection, DataInv
<1>7. CASE ReadEnd
  BY <1>5, <1>6, <1>7 DEF ReadEnd, ReadsId
<1>8. ASSUME NEW f \in Fds, ErrorEvent(f) PROVE Requested'
  BY <1>5, <1>6, <1>8 DEF ErrorEvent
<1>9. CASE ReadBadHeader \/ ReadBody \/ \E h \in HeaderLens, n \in FileLens : ReadHeader(h, n)
  <2>1. Reading /\ (ReadOn \/ \E n \in {"batch", "report"} : ReadLast(n)) /\ cur \in Fds
    BY <1>9 DEF ReadBadHeader, ReadBody, ReadHeader, Reading, ReadsId
  <2>2. UNCHANGED asked /\ Open' \in SUBSET Open
    BY <1>6, <2>1 DEF ReadOn, ReadLast, Open
  <2>3. \A g \in Fds : wv'[g].request_sent = wv[g].request_sent
    <3>1. wv \in [Fds -> WgetVars]
      BY DEF DataInv, DataTypeOK
    <3>2. CASE ReadBadHeader \/ ReadBody
      BY <2>1, <3>1, <3>2 DEF ReadBadHeader, ReadBody, WgetVars
    <3>3. ASSUME NEW h \in HeaderLens, NEW n \in FileLens, ReadHeader(h, n)
          PROVE  \A g \in Fds : wv'[g].request_sent = wv[g].request_sent
      BY <2>1, <3>1, <3>3 DEF ReadHeader, WgetVars
    <3> QED BY <1>9, <3>2, <3>3
  <2> QED BY <1>5, <2>2, <2>3
<1> QED BY <1>2, <1>3, <1>4, <1>7, <1>8, <1>9, <1>10 DEF ThreadStep

\* Failure is for ever.
LEMMA FailedStays == ASSUME failed, [Next]_vars PROVE failed'
<1>1. CASE UNCHANGED vars
  BY <1>1 DEF vars, histVars
<1>2. CASE SignalHandler
  BY <1>2 DEF SignalHandler, histVars
<1>3. ASSUME NEW f \in Fds, Network(f) PROVE failed'
  BY <1>3 DEF Network
<1>4. CASE LoopTest \/ Filled \/ SocketFails \/ AddConnection \/ EpollWait \/ EpollInterrupted
           \/ BatchDone \/ ReadAgain \/ Report
  BY <1>4 DEF LoopTest, Filled, SocketFails, GiveUp, AddConnection, EpollWait, EpollInterrupted,
              BatchDone, ReadAgain, Report, histVars
<1>5. ASSUME NEW f \in Fds,
             \/ CreateConnection(f) \/ ConnectFails(f) \/ NonblockFails(f)
             \/ ErrorEvent(f) \/ ReadEvent(f) \/ WriteEvent(f)
      PROVE  failed'
  BY <1>5 DEF CreateConnection, ConnectFails, NonblockFails, GiveUp, ErrorEvent, ReadEvent, WriteEvent, CloseConnection, histVars
<1>6. CASE ReadEnd
  BY <1>6 DEF ReadEnd, CloseConnection
<1>7. CASE ReadBadHeader \/ ReadBody \/ \E h \in HeaderLens, n \in FileLens : ReadHeader(h, n)
  <2>1. ReadOn \/ \E n \in {"batch", "report"} : ReadLast(n)
    BY <1>7 DEF ReadBadHeader, ReadBody, ReadHeader
  <2> QED BY <2>1 DEF ReadOn, ReadLast, CloseConnection
<1> QED BY <1>1, <1>2, <1>3, <1>4, <1>5, <1>6, <1>7 DEF Next, ThreadStep

CalmInv == ~failed => Calm

\* Every step keeps the three facts until something fails.
LEMMA CalmStep ==
    ASSUME DataInv, ReadsId, LoopType, CalmInv, [Next]_vars
    PROVE  CalmInv'
<1> SUFFICES ASSUME ~failed' PROVE Calm'
  BY DEF CalmInv
<1>1. EventsFresh /\ Sound /\ Exact /\ Requested
  BY FailedStays DEF CalmInv, Calm
<1>5. Sound'
  BY <1>1, SoundStep
<1>2. CASE ThreadStep
  BY <1>1, <1>2, <1>5, ThreadCalm, RequestStep DEF Calm
<1>3. ASSUME NEW f \in Fds, Network(f) PROVE Calm'
  <2>1. EventsFresh' /\ Exact'
    BY <1>1, <1>3, NetworkCalm
  <2>2. UNCHANGED <<wv, asked>> /\ Open' = Open
    BY <1>3 DEF Network, threadVars, Established, Broken, DataArrives, FinArrives,
                DataInv, DataTypeOK, Open
  <2> QED BY <1>1, <1>5, <2>1, <2>2 DEF Calm, Requested
<1>4. CASE SignalHandler \/ UNCHANGED vars
  <2>1. UNCHANGED <<pc, cur, batch, ctx, wv, asked, st, reg, ready>>
    BY <1>4 DEF SignalHandler, vars, threadVars, histVars, netVars, epollVars
  <2> QED BY <1>1, <1>5, <2>1 DEF Calm, EventsFresh, Exact, Requested, Open
<1> QED BY <1>2, <1>3, <1>4 DEF Next

-----------------------------------------------------------------------------
(***************************************************************************)
(* DownloadComplete reads the record after CloseConnection: between the    *)
(* two the id may have gone to a new connection, whose record is empty.    *)
(***************************************************************************)
Reporting == pc = "report" \/ (pc \in {"fill", "add"} /\ back = "report")

ReportInv == Reporting => fin \in Fds /\ (Complete(wv[fin]) \/ wv[fin].recv = 0)

LEMMA ReportStep ==
    ASSUME DataInv, ReadsId, ReportInv, [Next]_vars
    PROVE  ReportInv'
<1>1. ASSUME Reporting' => Reporting, UNCHANGED <<fin, wv>> PROVE ReportInv'
  BY <1>1 DEF ReportInv, Complete
<1>2. CASE LoopTest \/ Filled \/ SocketFails \/ AddConnection
  BY <1>1, <1>2 DEF LoopTest, Filled, SocketFails, GiveUp, AddConnection, Reporting, ReadsId
<1>3. ASSUME pc' \notin {"report", "fill", "add"} PROVE ReportInv'
  BY <1>3 DEF ReportInv, Reporting
<1>4. CASE EpollWait \/ EpollInterrupted \/ ReadAgain \/ Report
           \/ \E f \in Fds : ReadEvent(f) \/ WriteEvent(f)
  BY <1>3, <1>4 DEF EpollWait, EpollInterrupted, ReadAgain, Report, ReadEvent, WriteEvent
<1>5. CASE BatchDone
  BY <1>3, <1>5 DEF BatchDone
<1>6. ASSUME NEW f \in Fds, CreateConnection(f) \/ ConnectFails(f) \/ NonblockFails(f)
      PROVE  ReportInv'
  <2>1. /\ wv' = [wv EXCEPT ![f] = ZeroVars] /\ UNCHANGED <<fin, back>>
        /\ pc = "fill" /\ pc' \in {"add", "exited", back}
    BY <1>6 DEF CreateConnection, ConnectFails, NonblockFails, Cleared, GiveUp, FreshVars
  <2>2. Reporting' => Reporting
    BY <2>1 DEF Reporting, ReadsId
  <2>3. \A g \in Fds : wv'[g] = IF g = f THEN ZeroVars ELSE wv[g]
    BY <2>1 DEF DataInv, DataTypeOK
  <2> QED BY <2>1, <2>2, <2>3, Records DEF ReportInv, Complete
<1>7. ASSUME NEW f \in Fds, CloseConnection(f, "batch") PROVE ReportInv'
  BY <1>7 DEF CloseConnection, ReportInv, Reporting
<1>8. ASSUME NEW f \in Fds, ErrorEvent(f) PROVE ReportInv'
  BY <1>7, <1>8 DEF ErrorEvent
<1>9. CASE ReadEnd
  <2>1. cur \in Fds
    BY <1>9 DEF ReadEnd, ReadsId
  <2>2. CASE CloseConnection(cur, "batch")
    BY <1>7, <2>1, <2>2
  <2>3. CASE Complete(wv[cur]) /\ fin' = cur
    BY <1>9, <2>1, <2>3 DEF ReadEnd, ReportInv, Complete
  <2> QED BY <1>9, <2>2, <2>3 DEF ReadEnd
<1>10. CASE ReadBadHeader \/ ReadBody \/ \E h \in HeaderLens, n \in FileLens : ReadHeader(h, n)
  <2>1. pc = "read" /\ cur \in Fds
    BY <1>10 DEF ReadBadHeader, ReadBody, ReadHeader, Reading, ReadsId
  <2>2. CASE ReadOn
    BY <1>3, <2>1, <2>2 DEF ReadOn
  <2>3. CASE ReadLast("batch")
    BY <1>7, <2>1, <2>3 DEF ReadLast
  <2>4. CASE Complete(wv'[cur]) /\ ReadLast("report")
    <3>1. fin' = cur
      BY <2>4 DEF ReadLast
    <3> QED BY <2>1, <2>4, <3>1 DEF ReportInv, Complete
  <2>5. ReadOn \/ ReadLast("batch") \/ (Complete(wv'[cur]) /\ ReadLast("report"))
    BY <1>10 DEF ReadBadHeader, ReadBody, ReadHeader
  <2> QED BY <2>2, <2>3, <2>4, <2>5
<1>11. CASE SignalHandler \/ (\E f \in Fds : Network(f)) \/ UNCHANGED vars
  <2>1. UNCHANGED <<pc, back, fin, wv>>
    BY <1>11 DEF SignalHandler, Network, vars, threadVars
  <2> QED BY <1>1, <2>1 DEF Reporting
<1> QED BY <1>2, <1>4, <1>5, <1>6, <1>8, <1>9, <1>10, <1>11 DEF Next, ThreadStep

-----------------------------------------------------------------------------
ClientInv == DataInv /\ ReadsId /\ LoopType /\ CountInv /\ CalmInv /\ ReportInv

\* The invariant from which the other theorems follow.
THEOREM ClientInvariant == Spec => []ClientInv
<1>1. Init => ClientInv
  <2> SUFFICES ASSUME Init PROVE ClientInv
    OBVIOUS
  <2>1. DataInv /\ ReadsId
    BY Records DEF Init, StackInit, DataInv, DataTypeOK, ConnInv, ReadsId
  <2>2. pc \in {"end", "loop"} /\ batch = {} /\ ready = {} /\ reg = [f \in Fds |-> "off"]
        /\ ctx = [started |-> 0, pending |-> 0, done |-> 0]
        /\ wv = [f \in Fds |-> ZeroVars]
    BY DEF Init, StackInit
  <2>3. LoopType /\ ctx.pending = 0
    BY <2>2 DEF LoopType
  <2>4. Open = {} /\ Cardinality(Open) = 0
    <3>1. Open = {}
      BY DEF Init, StackInit, Open
    <3> QED BY <3>1, FS_EmptySet
  <2>6. Sound
    BY <2>2 DEF Sound, Init, StackInit
  <2>5. CountInv /\ EventsFresh /\ Exact /\ Requested /\ ReportInv
    <3>1. Open \ {} = Open
      BY <2>4
    <3> QED BY <2>2, <2>3, <2>4, <3>1
            DEF CountInv, EventsFresh, Exact, Requested, ReportInv, Reporting
  <2> QED BY <2>1, <2>3, <2>5, <2>6 DEF ClientInv, CalmInv, Calm
<1>2. ClientInv /\ [Next]_vars => ClientInv'
  <2> SUFFICES ASSUME ClientInv, [Next]_vars PROVE ClientInv'
    OBVIOUS
  <2>1. DataInv /\ ReadsId /\ LoopType /\ CountInv /\ CalmInv /\ ReportInv
    BY DEF ClientInv
  <2>2. DataInv' /\ ReadsId'
    BY <2>1, DataStep
  <2>3. LoopType' /\ CountInv' /\ CalmInv' /\ ReportInv'
    BY <2>1, LoopTypeStep, CountStep, CalmStep, ReportStep
  <2> QED BY <2>2, <2>3 DEF ClientInv
<1> QED BY <1>1, <1>2, PTL DEF Spec

\* CloseConnection and AddConnection keep the counter at or below the number
\* of open connections, with failures and stale events of a batch.
THEOREM CountIsOpen == Spec => []CountedIsOpen
<1>1. ClientInv => CountedIsOpen
  <2> SUFFICES ASSUME ClientInv PROVE CountedIsOpen
    OBVIOUS
  <2>1. ctx.pending \in Int /\ Cardinality(Open) \in Nat
    BY OpenFinite DEF ClientInv, LoopType
  <2> QED BY <2>1 DEF ClientInv, CountInv, CountedIsOpen
<1> QED BY <1>1, ClientInvariant, PTL

\* Until something fails the counter of pending connections is exact.
THEOREM CountIsExact == Spec => []PendingIsOpen
<1>1. ClientInv => PendingIsOpen
  BY DEF ClientInv, CalmInv, Calm, Exact, PendingIsOpen
<1> QED BY <1>1, ClientInvariant, PTL

\* Until something fails SendHTTPRequest marks a request that was written.
THEOREM RequestIsWritten == Spec => []RequestWritten
<1>1. ClientInv => RequestWritten
  BY DEF ClientInv, CalmInv, Calm, Requested, RequestWritten
<1> QED BY <1>1, ClientInvariant, PTL

\* DownloadComplete compares all responses with the size of a complete one.
THEOREM FirstIsWhole == Spec => FirstSizeIsWhole
<1>1. ClientInv /\ [Next]_vars => [response_size' # response_size => Complete(wv[fin])]_vars
  <2> SUFFICES ASSUME ClientInv, Next, response_size' # response_size PROVE Complete(wv[fin])
    BY DEF vars, threadVars
  <2>1. Report
    <3>1. ASSUME NEW f \in Fds, NEW n, CloseConnection(f, n) PROVE FALSE
      BY <3>1 DEF CloseConnection, flagVars
    <3>2. ~(LoopTest \/ Filled \/ SocketFails \/ AddConnection \/ EpollWait \/ EpollInterrupted
            \/ BatchDone \/ ReadAgain)
      BY DEF LoopTest, Filled, SocketFails, GiveUp, AddConnection, EpollWait, EpollInterrupted,
             BatchDone, ReadAgain, flagVars
    <3>3. \A f \in Fds : ~(\/ CreateConnection(f) \/ ConnectFails(f) \/ NonblockFails(f)
                           \/ ErrorEvent(f) \/ ReadEvent(f) \/ WriteEvent(f))
      BY <3>1 DEF CreateConnection, ConnectFails, NonblockFails, Cleared, ErrorEvent, ReadEvent, WriteEvent, flagVars
    <3>4. ~ReadEnd
      BY <3>1 DEF ReadEnd, ClientInv, ReadsId
    <3>5. ~(Reading /\ (ReadOn \/ \E n \in {"batch", "report"} : ReadLast(n)))
      BY <3>1 DEF Reading, ReadOn, ReadLast, flagVars, ClientInv, ReadsId
    <3>6. ~(ReadBadHeader \/ ReadBody \/ \E h \in HeaderLens, n \in FileLens : ReadHeader(h, n))
      BY <3>5 DEF ReadBadHeader, ReadBody, ReadHeader
    <3>7. ~SignalHandler /\ \A f \in Fds : ~Network(f)
      BY DEF SignalHandler, Network, threadVars
    <3> QED BY <3>2, <3>3, <3>4, <3>6, <3>7 DEF Next, ThreadStep
  <2>2. pc = "report" /\ response_size' = wv[fin].recv /\ response_size = 0
    BY <2>1 DEF Report
  <2> QED BY <2>2 DEF ClientInv, ReportInv, Reporting
<1> QED BY <1>1, ClientInvariant, PTL DEF Spec, FirstSizeIsWhole
=============================================================================
