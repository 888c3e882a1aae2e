---------------------------- MODULE MtcpLuaProofs ----------------------------
(***************************************************************************)
(* Proofs about MtcpLua for every number of coroutines, socket objects and *)
(* socket ids and every value of the timing constants.                     *)
(*                                                                         *)
(* The inductive invariant IInv is the type invariant with what makes it   *)
(* inductive: an event whose handler is a socket handler points to an      *)
(* object whose vm_ctx is set, and only registered ids are ready.  Flag    *)
(* and tree of the timers agree as long as nothing has gone wrong.         *)
(***************************************************************************)
EXTENDS MtcpLua, MsecProofs, SequenceTheorems

FlagOK == fault = "none" => FlagMatchesTree

TimerInv == TimerTypeOK /\ FlagOK

ReadyOK ==
    /\ \A e \in ready : reg[e[1]] # "off"
    /\ \A f \in Fds : reg[f] # "off" => ptr[f] \in Co

StackInv == StackTypeOK(Socks, Co) /\ ReadyOK

EventOK ==
    \A c \in Co :
        /\ handler[c] \in {"connect", "recv"} => data[c] \in Socks /\ vm[data[c]] \in Co
        /\ co[c] \in {"conn_arm", "recv_arm"} => handler[c] \in {"connect", "recv"}
        /\ c \in tree => handler[c] # "NULL"

IInv == TimerInv /\ CoTypeOK /\ SockTypeOK /\ StackInv /\ LoopTypeOK /\ EventOK

-----------------------------------------------------------------------------
(* The operators of EventTimer. *)

\* The key event_add_timer computes is a msec_t.
LEMMA NewKeyType ==
    ASSUME now \in Nat, NEW t \in Nat PROVE NewKey(t) \in 0 .. KeyMod - 1
BY KeyType, KeyModAssumption DEF NewKey, current_msec

\* event_add_timer leaves the event armed and keeps flag and tree together.
LEMMA AddTimer ==
    ASSUME TimerInv, fault = "none", NEW e \in Co, NEW t \in Nat, event_add_timer(e, t),
           UNCHANGED now, timedout' \in [Co -> BOOLEAN]
    PROVE  TimerInv' /\ tree' = tree \cup {e}
<1> USE DEF TimerInv, FlagOK, TimerTypeOK, FlagMatchesTree, Co
<1>1. CASE KeepsTimer(e, t)
  BY <1>1 DEF event_add_timer, KeepsTimer
<1>2. CASE ~KeepsTimer(e, t)
  BY <1>2, NewKeyType DEF event_add_timer
<1> QED BY <1>1, <1>2

\* event_del_timer leaves the event disarmed and keeps flag and tree together.
LEMMA DelTimer ==
    ASSUME TimerInv, fault = "none", NEW e \in Co, event_del_timer(e),
           UNCHANGED now, timedout' \in [Co -> BOOLEAN]
    PROVE  TimerInv' /\ tree' = tree \ {e}
<1> USE DEF TimerInv, TimerTypeOK, Co, event_del_timer
<1>1. TimerTypeOK'
  <2>1. 0 \in 0 .. KeyMod - 1
    BY KeyModAssumption
  <2> QED BY <2>1
<1>2. FlagOK'
  BY DEF FlagOK, FlagMatchesTree
<1> QED BY <1>1, <1>2

-----------------------------------------------------------------------------
(* The calls and steps of Mtcp. *)

\* mtcp_epoll_register keeps the stack's state well formed.
LEMMA Register ==
    ASSUME StackInv, NEW f \in Fds, NEW kind \in {"in", "out"}, NEW c \in Co,
           mtcp_epoll_register(f, kind, c), UNCHANGED <<st, own, rx, eof>>
    PROVE  StackInv'
<1> USE DEF StackInv
<1>1. ready' \subseteq Fds \X Kinds /\ \A e \in ready' : e[1] = f \/ e \in ready
  BY DEF mtcp_epoll_register, PendingOn, StackTypeOK, Kinds
<1>2. StackTypeOK(Socks, Co)'
  BY <1>1 DEF mtcp_epoll_register, StackTypeOK
<1>3. ReadyOK'
  BY <1>1 DEF mtcp_epoll_register, ReadyOK, StackTypeOK
<1> QED BY <1>2, <1>3

\* mtcp_epoll_deregister keeps the stack's state well formed.
LEMMA Deregister ==
    ASSUME StackInv, NEW f \in Fds, mtcp_epoll_deregister(f),
           st' \in [Fds -> {"free", "idle", "syn", "est", "failed"}],
           own' \in [Fds -> Socks \cup {None}], rx' \in [Fds -> Nat], eof' \in [Fds -> BOOLEAN]
    PROVE  StackInv'
<1> USE DEF StackInv
<1>1. StackTypeOK(Socks, Co)'
  BY DEF mtcp_epoll_deregister, StackTypeOK
<1>2. ReadyOK'
  BY DEF mtcp_epoll_deregister, ReadyOK, StackTypeOK
<1> QED BY <1>1, <1>2

\* mtcp_close keeps the stack's state well formed.
LEMMA CloseFd == ASSUME StackInv, NEW f \in Fds, mtcp_close(f) PROVE StackInv'
BY Deregister DEF mtcp_close, StackInv, StackTypeOK

\* mtcp_socket keeps the stack's state well formed.
LEMMA NewFd ==
    ASSUME StackInv, NEW f \in Fds, NEW s \in Socks, NEW state \in {"idle", "syn", "est"},
           mtcp_socket(f, s, state)
    PROVE  StackInv'
BY DEF mtcp_socket, StackInv, StackTypeOK, ReadyOK, epollVars

\* The stack's own steps keep its state well formed.
LEMMA StackSteps == ASSUME StackInv, StackStep PROVE StackInv'
<1> USE DEF StackInv
<1> PICK f \in Fds :
      Established(f) \/ Broken(f) \/ DataArrives(f) \/ FinArrives(f) \/ WriteSpace(f)
  BY DEF StackStep
<1>1. /\ UNCHANGED <<own, reg, ptr>>
      /\ \E kind \in Kinds : Raise(f, kind)
      /\ st' \in [Fds -> {"free", "idle", "syn", "est", "failed"}]
      /\ rx' \in [Fds -> Nat]
      /\ eof' \in [Fds -> BOOLEAN]
  <2> USE DEF StackTypeOK, Kinds
  <2>1. CASE Established(f)
    BY <2>1 DEF Established
  <2>2. CASE Broken(f)
    BY <2>2 DEF Broken
  <2>3. CASE DataArrives(f)
    BY <2>3 DEF DataArrives
  <2>4. CASE FinArrives(f)
    BY <2>4 DEF FinArrives
  <2>5. CASE WriteSpace(f)
    BY <2>5 DEF WriteSpace
  <2> QED BY <2>1, <2>2, <2>3, <2>4, <2>5
<1>2. /\ ready' \subseteq Fds \X Kinds
      /\ \A e \in ready' : e \in ready \/ reg[e[1]] # "off"
  BY <1>1 DEF Raise, StackTypeOK
<1> QED BY <1>1, <1>2 DEF StackTypeOK, ReadyOK

-----------------------------------------------------------------------------
(* What a step leaves alone keeps its type. *)

\* A step that leaves clock and timers alone keeps their invariant.
LEMMA TimerFrame ==
    TimerInv /\ UNCHANGED <<now, timerVars>> /\ (fault' = "none" => fault = "none") => TimerInv'
BY DEF TimerInv, FlagOK, TimerTypeOK, FlagMatchesTree, timerVars

\* A step that leaves the coroutines alone keeps their type.
LEMMA CoFrame == CoTypeOK /\ UNCHANGED <<coVars, evVars, fault>> => CoTypeOK'
BY DEF CoTypeOK, coVars, evVars

\* A step that leaves the objects alone keeps their type.
LEMMA SockFrame == SockTypeOK /\ UNCHANGED sockVars => SockTypeOK'
BY DEF SockTypeOK, sockVars

\* A step that leaves the stack alone keeps its invariant.
LEMMA StackFrame == StackInv /\ UNCHANGED netVars => StackInv'
BY DEF StackInv, StackTypeOK, ReadyOK, netVars, epollVars

\* A step that leaves the loop alone keeps its type.
LEMMA LoopFrame == LoopTypeOK /\ UNCHANGED loopVars => LoopTypeOK'
BY DEF LoopTypeOK, loopVars

\* The events keep pointing where they should when only coroutines move on.
LEMMA EventFrame ==
    ASSUME EventOK, UNCHANGED <<evVars, vm>>, tree' \subseteq tree,
           \A c \in Co : co'[c] = co[c] \/ co'[c] \notin {"conn_arm", "recv_arm"}
    PROVE  EventOK'
BY DEF EventOK, evVars

-----------------------------------------------------------------------------
(* The operators of Coroutine. *)

\* mtcp_lua_run_thread keeps the types and only makes a coroutine run.
LEMMA ResumeType ==
    ASSUME CoTypeOK, NEW c \in Co, NEW r \in Results, Resume(c, r), UNCHANGED <<evVars, fault>>
    PROVE  /\ CoTypeOK'
           /\ \A d \in Co : co'[d] = co[d] \/ (d = c /\ co'[d] = "running")
<1>1. CASE co[c] \in {"new", "yielded"}
  <2>1. /\ co' = [co EXCEPT ![c] = "running"]
        /\ stack' = Append(stack, c)
        /\ res' = [res EXCEPT ![c] = r]
    BY <1>1 DEF Resume
  <2>2. stack' \in Seq(Co)
    BY <2>1 DEF CoTypeOK
  <2> QED BY <2>1, <2>2 DEF CoTypeOK, CoStates, evVars
<1>2. CASE co[c] \notin {"new", "yielded"}
  BY <1>2 DEF Resume, CoTypeOK, coVars, evVars
<1> QED BY <1>1, <1>2

\* A handler that gives up keeps the types.
LEMMA AbandonType ==
    ASSUME CoTypeOK, NEW c \in Co, Abandon(c), UNCHANGED <<evVars, fault>>
    PROVE  CoTypeOK' /\ UNCHANGED co
<1>1. res' \in [Co -> Results]
  BY DEF Abandon, CoTypeOK, Results
<1> QED BY <1>1 DEF Abandon, CoTypeOK, evVars

\* It only records that the wait of c has failed.
LEMMA AbandonEffect ==
    ASSUME CoTypeOK, NEW c \in Co, Abandon(c)
    PROVE  /\ UNCHANGED <<co, stack>>
           /\ co[c] = "yielded" => res'[c] = "failed"
           /\ \A d \in Co : d # c \/ co[d] # "yielded" => res'[d] = res[d]
BY DEF Abandon, CoTypeOK

\* The return from lua_resume keeps the types.
LEMMA LeaveType ==
    ASSUME CoTypeOK, NEW c \in Co, NEW state, OnTop(c, state), NEW status \in {"yielded", "dead"},
           Leave(c, status)
    PROVE  /\ co' \in [Co -> CoStates]
           /\ stack' \in Seq(Co)
           /\ \A d \in Co : co'[d] = co[d] \/ (d = c /\ co'[d] = status)
<1>1. stack \in Seq(Co) /\ Len(stack) \in Nat \ {0}
  BY DEF CoTypeOK, OnTop
<1>2. SubSeq(stack, 1, Len(stack) - 1) \in Seq(Co)
  BY <1>1
<1> QED BY <1>2 DEF Leave, CoTypeOK, CoStates

\* What connect, recv and sleep write into the event is of its type.
LEMMA PrepareType ==
    ASSUME CoTypeOK, TimerTypeOK, NEW c \in Co, NEW h \in {"timer", "connect", "recv"},
           NEW d \in Socks \cup {None}, PrepareWait(c, h, d)
    PROVE  /\ handler' \in [Co -> {"NULL", "timer", "connect", "recv"}]
           /\ data' \in [Co -> Socks \cup {None}]
           /\ timedout' \in [Co -> BOOLEAN]
           /\ res' \in [Co -> Results]
           /\ handler'[c] = h /\ data'[c] = d
           /\ \A o \in Co \ {c} : handler'[o] = handler[o] /\ data'[o] = data[o]
BY DEF PrepareWait, CoTypeOK, TimerTypeOK, Results, Co

\* spawn, sleep and the end of a coroutine keep the invariant.
LEMMA CoSteps ==
    ASSUME IInv, NEW c \in Co, CoStep(c), UNCHANGED <<now, sockVars, netVars, loopVars>>
    PROVE  IInv'
<1> USE DEF IInv
<1>1. SockTypeOK' /\ StackInv' /\ LoopTypeOK' /\ UNCHANGED vm
  BY SockFrame, StackFrame, LoopFrame DEF sockVars
<1>2. ASSUME NEW d \in Co, Spawn(c, d) PROVE IInv'
  <2>1. TimerInv'
    BY <1>2, TimerFrame DEF Spawn
  <2>2. CoTypeOK'
    BY <1>2 DEF Spawn, CoTypeOK, CoStates, evVars
  <2>3. EventOK'
    BY <1>1, <1>2, EventFrame DEF Spawn, CoTypeOK, timerVars
  <2> QED BY <1>1, <2>1, <2>2, <2>3
<1>3. ASSUME NEW d \in Co, SpawnWithArguments(c, d) PROVE IInv'
  <2>1. TimerInv'
    BY <1>3, TimerFrame DEF SpawnWithArguments
  <2>2. CoTypeOK'
    BY <1>3 DEF SpawnWithArguments, CoTypeOK, CoStates, evVars
  <2>3. EventOK'
    BY <1>1, <1>3, EventFrame DEF SpawnWithArguments, CoTypeOK, timerVars
  <2> QED BY <1>1, <2>1, <2>2, <2>3
<1>4. ASSUME Return(c) PROVE IInv'
  <2>1. TimerInv'
    BY <1>4, TimerFrame DEF Return
  <2>2. /\ co' \in [Co -> CoStates]
        /\ stack' \in Seq(Co)
        /\ \A d \in Co : co'[d] = co[d] \/ (d = c /\ co'[d] = "dead")
    BY <1>4, LeaveType DEF Return, Runs
  <2>3. CoTypeOK'
    BY <1>4, <2>2 DEF Return, CoTypeOK, evVars
  <2>4. EventOK'
    BY <1>1, <1>4, <2>2, EventFrame DEF Return, timerVars
  <2> QED BY <1>1, <2>1, <2>3, <2>4
<1>5. ASSUME NEW delay \in Delays, Sleep(c, delay) PROVE IInv'
  <2>1. PrepareWait(c, "timer", None) /\ UNCHANGED fault
    BY <1>5 DEF Sleep
  <2>2. /\ handler' \in [Co -> {"NULL", "timer", "connect", "recv"}]
        /\ data' \in [Co -> Socks \cup {None}]
        /\ timedout' \in [Co -> BOOLEAN]
        /\ res' \in [Co -> Results]
        /\ handler'[c] = "timer"
        /\ \A o \in Co \ {c} : handler'[o] = handler[o] /\ data'[o] = data[o]
    BY <2>1, PrepareType DEF TimerInv
  <2>3. TimerInv'
    BY <1>5, <2>2, NewKeyType, CoAssumption
    DEF Sleep, TimerInv, FlagOK, Runs, OnTop, TimerTypeOK, FlagMatchesTree, Co
  <2>4. /\ co' \in [Co -> CoStates]
        /\ stack' \in Seq(Co)
        /\ \A d \in Co : co'[d] = co[d] \/ (d = c /\ co'[d] = "yielded")
    BY <1>5, LeaveType DEF Sleep, Runs
  <2>5. CoTypeOK'
    BY <2>1, <2>2, <2>4 DEF CoTypeOK
  <2>6. co'[c] = "yielded" /\ tree' = tree \cup {c}
    BY <1>5, <2>4 DEF Sleep, Leave, CoTypeOK
  <2>7. EventOK'
    BY <1>1, <2>2, <2>4, <2>6 DEF EventOK
  <2> QED BY <1>1, <2>3, <2>5, <2>7
<1>6. ASSUME NEW delay \in Delays, SleepWhileLinked(c, delay) PROVE IInv'
  <2>1. /\ PrepareWait(c, "timer", None)
        /\ fault' = "double_insert"
        /\ UNCHANGED <<tree, co, stack>>
    BY <1>6 DEF SleepWhileLinked
  <2>2. /\ handler' \in [Co -> {"NULL", "timer", "connect", "recv"}]
        /\ data' \in [Co -> Socks \cup {None}]
        /\ timedout' \in [Co -> BOOLEAN]
        /\ res' \in [Co -> Results]
        /\ handler'[c] = "timer"
        /\ \A o \in Co \ {c} : handler'[o] = handler[o] /\ data'[o] = data[o]
    BY <2>1, PrepareType DEF TimerInv
  <2>3. TimerTypeOK'
    BY <1>6, <2>2, NewKeyType, CoAssumption DEF SleepWhileLinked, TimerInv, TimerTypeOK, Co
  <2>4. TimerInv'
    BY <2>1, <2>3 DEF TimerInv, FlagOK
  <2>5. CoTypeOK'
    BY <2>1, <2>2 DEF CoTypeOK, Faults
  <2>6. co[c] = "running"
    BY <1>6 DEF SleepWhileLinked, Runs, OnTop
  <2>7. EventOK'
    BY <1>1, <2>1, <2>2, <2>6 DEF EventOK
  <2> QED BY <1>1, <2>4, <2>5, <2>7
<1> QED BY <1>2, <1>3, <1>4, <1>5, <1>6 DEF CoStep

-----------------------------------------------------------------------------
(* The operators of SocketTcp. *)

\* mtcp_lua_epoll_ctl with ADD or MOD keeps the types.
LEMMA CtlAddType ==
    ASSUME StackInv, SockTypeOK, NEW s \in Socks, NEW kind \in {"in", "out"}, NEW c \in Co,
           CtlAddOK(s), CtlAdd(s, kind, c), UNCHANGED <<st, own, rx, eof>>
    PROVE  StackInv' /\ active' \in [Socks -> BOOLEAN]
<1>1. fd[s] \in Fds
  BY DEF CtlAddOK, SockTypeOK
<1>2. StackInv'
  BY <1>1, Register DEF CtlAdd
<1> QED BY <1>2 DEF CtlAdd, SockTypeOK

\* mtcp_lua_epoll_ctl with DEL keeps the types.
LEMMA CtlDelType ==
    ASSUME StackInv, SockTypeOK, NEW s \in Socks, CtlDel(s), UNCHANGED <<st, own, rx, eof>>
    PROVE  StackInv' /\ active' \in [Socks -> BOOLEAN]
<1>1. CASE fd[s] # None /\ reg[fd[s]] # "off"
  <2>1. fd[s] \in Fds /\ mtcp_epoll_deregister(fd[s]) /\ active' = [active EXCEPT ![s] = FALSE]
    BY <1>1 DEF CtlDel, SockTypeOK
  <2>2. StackInv'
    BY <2>1, Deregister DEF StackInv, StackTypeOK
  <2> QED BY <2>1, <2>2 DEF SockTypeOK
<1>2. CASE ~(fd[s] # None /\ reg[fd[s]] # "off")
  BY <1>2, StackFrame DEF CtlDel, SockTypeOK, netVars
<1> QED BY <1>1, <1>2

\* close_helper leaves a truth value in sctx->active.
LEMMA ActiveType ==
    ASSUME SockTypeOK, NEW s \in Socks PROVE ActiveAfterClose(s) \in [Socks -> BOOLEAN]
<1>1. (active[s] /\ reg[fd[s]] = "off") \in BOOLEAN
  OBVIOUS
<1> QED BY <1>1 DEF ActiveAfterClose, SockTypeOK

\* close_helper keeps the types.
LEMMA CloseHelperType ==
    ASSUME StackInv, SockTypeOK, NEW s \in Socks, close_helper(s)
    PROVE  StackInv' /\ active' \in [Socks -> BOOLEAN]
<1>1. CASE fd[s] # None
  <2>1. fd[s] \in Fds /\ mtcp_close(fd[s]) /\ active' = ActiveAfterClose(s)
    BY <1>1 DEF close_helper, SockTypeOK
  <2> QED BY <2>1, CloseFd, ActiveType
<1>2. CASE fd[s] = None
  BY <1>2, StackFrame DEF close_helper, SockTypeOK
<1> QED BY <1>1, <1>2

\* Calls that do not touch the coroutine.
LEMMA QuietCalls ==
    ASSUME IInv, NEW c \in Co, NEW s \in Socks, UNCHANGED <<now, loopVars>>,
           \/ NewSocket(c, s)
           \/ \E t \in Timeouts : SetTimeout(c, s, t)
           \/ \E f \in Fds, closes \in BOOLEAN : ConnectFails(c, s, f, closes)
           \/ \E f \in Fds : ConnectImmediate(c, s, f)
           \/ RecvData(c, s)
           \/ Close(c, s)
           \/ Gc(s)
    PROVE  IInv'
<1> USE DEF IInv
<1>1. UNCHANGED <<timerVars, coVars, evVars, fault, vm>>
  BY DEF NewSocket, SetTimeout, ConnectFails, ConnectImmediate, RecvData, Close, Gc, sockVars
<1>2. TimerInv' /\ CoTypeOK' /\ LoopTypeOK' /\ EventOK'
  BY <1>1, TimerFrame, CoFrame, LoopFrame, EventFrame DEF coVars, timerVars
<1>3. ASSUME NewSocket(c, s) PROVE SockTypeOK' /\ StackInv'
  BY <1>3, StackFrame DEF NewSocket, SockTypeOK
<1>4. ASSUME NEW t \in Timeouts, SetTimeout(c, s, t) PROVE SockTypeOK' /\ StackInv'
  BY <1>4, StackFrame, SocketAssumption DEF SetTimeout, SockTypeOK
<1>5. ASSUME NEW f \in Fds, NEW closes \in BOOLEAN, ConnectFails(c, s, f, closes)
      PROVE  SockTypeOK' /\ StackInv'
  <2>1. CASE closes /\ fd[s] # None
    <3>1. fd[s] \in Fds
      BY <2>1 DEF SockTypeOK
    <3>2. /\ st' = [st EXCEPT ![f] = "idle", ![fd[s]] = "free"]
          /\ own' = [own EXCEPT ![f] = s, ![fd[s]] = None]
          /\ rx' = [rx EXCEPT ![fd[s]] = 0]
          /\ eof' = [eof EXCEPT ![fd[s]] = FALSE]
          /\ mtcp_epoll_deregister(fd[s])
          /\ active' = ActiveAfterClose(s)
      BY <1>5, <2>1 DEF ConnectFails
    <3>3. /\ st' \in [Fds -> {"free", "idle", "syn", "est", "failed"}]
          /\ own' \in [Fds -> Socks \cup {None}]
          /\ rx' \in [Fds -> Nat]
          /\ eof' \in [Fds -> BOOLEAN]
      BY <3>2 DEF StackInv, StackTypeOK
    <3>4. StackInv'
      BY <3>1, <3>2, <3>3, Deregister
    <3> QED BY <1>5, <3>2, <3>4, ActiveType DEF ConnectFails, SockTypeOK
  <2>2. CASE ~(closes /\ fd[s] # None)
    BY <1>5, <2>2, NewFd DEF ConnectFails, SockTypeOK
  <2> QED BY <2>1, <2>2
<1>6. ASSUME NEW f \in Fds, ConnectImmediate(c, s, f) PROVE SockTypeOK' /\ StackInv'
  BY <1>6, NewFd DEF ConnectImmediate, SockTypeOK
<1>7. ASSUME RecvData(c, s) PROVE SockTypeOK' /\ StackInv'
  <2>1. PICK left \in 0 .. rx[fd[s]] - 1 : rx' = [rx EXCEPT ![fd[s]] = left]
    BY <1>7 DEF RecvData
  <2>2. left \in Nat
    OBVIOUS
  <2>3. rx' \in [Fds -> Nat]
    BY <2>1, <2>2 DEF StackInv, StackTypeOK
  <2>4. StackInv'
    BY <1>7, <2>3 DEF RecvData, StackInv, StackTypeOK, ReadyOK, epollVars
  <2> QED BY <1>7, <2>4, SockFrame DEF RecvData
<1>8. ASSUME Close(c, s) PROVE SockTypeOK' /\ StackInv'
  BY <1>8, CloseHelperType DEF Close, SockTypeOK
<1>9. ASSUME Gc(s) PROVE SockTypeOK' /\ StackInv'
  BY <1>9, CloseHelperType DEF Gc, SockTypeOK
<1> QED BY <1>2, <1>3, <1>4, <1>5, <1>6, <1>7, <1>8, <1>9

\* connect and recv up to the mtcp_epoll_ctl.
LEMMA BeginWait ==
    ASSUME IInv, NEW c \in Co, NEW s \in Socks, UNCHANGED <<now, loopVars>>,
           (\E f \in Fds : ConnectStart(c, s, f)) \/ RecvWait(c, s)
    PROVE  IInv'
<1> USE DEF IInv
<1>1. PICK h \in {"connect", "recv"}, arm \in {"conn_arm", "recv_arm"} :
           PrepareWait(c, h, s) /\ co' = [co EXCEPT ![c] = arm]
  BY DEF ConnectStart, RecvWait
<1>2. /\ vm' = [vm EXCEPT ![s] = c]
      /\ UNCHANGED <<tree, key, timer_set, stack, fault>>
      /\ SockTypeOK'
  BY DEF ConnectStart, RecvWait, SockTypeOK
<1>3. StackInv'
  BY NewFd, StackFrame DEF ConnectStart, RecvWait
<1>4. /\ handler' \in [Co -> {"NULL", "timer", "connect", "recv"}]
      /\ data' \in [Co -> Socks \cup {None}]
      /\ timedout' \in [Co -> BOOLEAN]
      /\ res' \in [Co -> Results]
      /\ handler'[c] = h /\ data'[c] = s
      /\ \A o \in Co \ {c} : handler'[o] = handler[o] /\ data'[o] = data[o]
  BY <1>1, PrepareType DEF TimerInv
<1>5. TimerInv'
  BY <1>2, <1>4 DEF TimerInv, FlagOK, TimerTypeOK, FlagMatchesTree, Co
<1>6. CoTypeOK'
  BY <1>1, <1>2, <1>4 DEF CoTypeOK, CoStates
<1>7. EventOK'
  BY <1>1, <1>2, <1>4 DEF EventOK, CoTypeOK, SockTypeOK
<1> QED BY <1>2, <1>3, <1>5, <1>6, <1>7, LoopFrame

\* The rest of connect and recv.
LEMMA EndWait ==
    ASSUME IInv, NEW c \in Co, UNCHANGED <<now, loopVars>>, ConnectArm(c) \/ RecvArm(c)
    PROVE  IInv'
<1> USE DEF IInv
<1> DEFINE s == data[c]
<1>1. s \in Socks /\ handler[c] \in {"connect", "recv"} /\ timeout[s] \in Nat
  BY DEF ConnectArm, RecvArm, OnTop, EventOK, SockTypeOK
<1>2. UNCHANGED <<timedout, evVars, res, fault, obj, vm, timeout>>
  BY DEF ConnectArm, RecvArm
<1>3. ASSUME event_add_timer(c, timeout[s]), Leave(c, "yielded"), OnTop(c, "conn_arm") \/ OnTop(c, "recv_arm")
      PROVE  TimerInv' /\ CoTypeOK' /\ EventOK'
  <2>1. timedout' \in [Co -> BOOLEAN]
    BY <1>2 DEF TimerInv, TimerTypeOK, Co
  <2>2. TimerInv' /\ tree' = tree \cup {c}
    BY <1>1, <1>3, <2>1, AddTimer DEF OnTop
  <2>3. /\ co' \in [Co -> CoStates]
        /\ stack' \in Seq(Co)
        /\ \A d \in Co : co'[d] = co[d] \/ (d = c /\ co'[d] = "yielded")
    BY <1>3, LeaveType
  <2>4. CoTypeOK'
    BY <1>2, <2>3 DEF CoTypeOK, evVars
  <2>5. EventOK'
    BY <1>1, <1>2, <2>2, <2>3 DEF EventOK, evVars
  <2> QED BY <2>2, <2>4, <2>5
<1>4. ASSUME ConnectArm(c), CtlAddOK(s) PROVE IInv'
  <2>1. CtlAdd(s, "out", c) /\ UNCHANGED <<fd, connected, st, own, rx, eof>>
    BY <1>4 DEF ConnectArm
  <2>2. StackInv' /\ active' \in [Socks -> BOOLEAN]
    BY <1>1, <1>4, <2>1, CtlAddType
  <2>3. TimerInv' /\ CoTypeOK' /\ EventOK'
    BY <1>3, <1>4 DEF ConnectArm
  <2>4. SockTypeOK'
    BY <1>2, <2>1, <2>2 DEF SockTypeOK
  <2> QED BY <2>2, <2>3, <2>4, LoopFrame
<1>5. ASSUME ConnectArm(c), ~CtlAddOK(s) PROVE IInv'
  <2>1. /\ close_helper(s)
        /\ fd' = [fd EXCEPT ![s] = None]
        /\ connected' = [connected EXCEPT ![s] = FALSE]
        /\ co' = [co EXCEPT ![c] = "running"]
        /\ UNCHANGED <<tree, key, timer_set, stack>>
    BY <1>5 DEF ConnectArm
  <2>2. StackInv' /\ active' \in [Socks -> BOOLEAN]
    BY <1>1, <2>1, CloseHelperType
  <2>3. SockTypeOK'
    BY <1>2, <2>1, <2>2 DEF SockTypeOK
  <2>4. TimerInv' /\ CoTypeOK'
    BY <1>2, <2>1, TimerFrame DEF CoTypeOK, CoStates, evVars, timerVars
  <2>5. EventOK'
    BY <1>2, <2>1, EventFrame DEF CoTypeOK
  <2> QED BY <2>2, <2>3, <2>4, <2>5, LoopFrame
<1>6. ASSUME RecvArm(c) PROVE IInv'
  <2>1. UNCHANGED <<fd, connected, st, own, rx, eof>>
    BY <1>6 DEF RecvArm
  <2>2. StackInv' /\ active' \in [Socks -> BOOLEAN]
    <3>1. CASE CtlAddOK(s)
      BY <1>1, <1>6, <2>1, <3>1, CtlAddType DEF RecvArm
    <3>2. CASE ~CtlAddOK(s)
      BY <1>6, <2>1, <3>2, StackFrame DEF RecvArm, netVars, SockTypeOK
    <3> QED BY <3>1, <3>2
  <2>3. TimerInv' /\ CoTypeOK' /\ EventOK'
    BY <1>3, <1>6 DEF RecvArm
  <2>4. SockTypeOK'
    BY <1>2, <2>1, <2>2 DEF SockTypeOK
  <2> QED BY <2>2, <2>3, <2>4, LoopFrame
<1> QED BY <1>4, <1>5, <1>6

\* Every socket call keeps the invariant.
LEMMA SockSteps ==
    ASSUME IInv, NEW c \in Co, SockStep(c), UNCHANGED <<now, loopVars>> PROVE IInv'
BY QuietCalls, BeginWait, EndWait DEF SockStep

\* A fault changes nothing but `fault'.
LEMMA FaultType ==
    ASSUME IInv, NEW kind \in Faults \ {"none"}, SockFault(kind), UNCHANGED <<now, loopVars>>
    PROVE  IInv'
<1> USE DEF IInv
<1>1. TimerInv' /\ SockTypeOK' /\ StackInv' /\ LoopTypeOK' /\ UNCHANGED <<vm, co, tree>>
  BY TimerFrame, SockFrame, StackFrame, LoopFrame DEF SockFault, sockVars, coVars, timerVars
<1>2. CoTypeOK'
  BY DEF SockFault, CoTypeOK, coVars, evVars
<1>3. EventOK'
  BY <1>1, EventFrame DEF SockFault
<1> QED BY <1>1, <1>2, <1>3

\* A handler's bad access is one of the faults the model names.
LEMMA HandlerFaultType == \A c \in Co, t \in BOOLEAN : HandlerFault(c, t) \in Faults
BY DEF HandlerFault, Faults

-----------------------------------------------------------------------------
(* The event handlers and the loop. *)

HandlerFrame == UNCHANGED <<evVars, fault, obj, fd, vm, timeout, st, own, eof>>

HandlerDone ==
    /\ CoTypeOK' /\ SockTypeOK' /\ StackInv'
    /\ \A d \in Co : co'[d] = co[d] \/ co'[d] = "running"

\* timer_handler keeps the types.
LEMMA TimerHandler ==
    ASSUME IInv, NEW c \in Co, timer_handler(c), HandlerFrame PROVE HandlerDone
<1> USE DEF IInv
<1>1. "ok" \in Results
  BY DEF Results
<1>2. CoTypeOK' /\ \A d \in Co : co'[d] = co[d] \/ (d = c /\ co'[d] = "running")
  BY <1>1, ResumeType DEF timer_handler, HandlerFrame
<1>3. SockTypeOK' /\ StackInv'
  BY SockFrame, StackFrame DEF timer_handler, HandlerFrame, sockVars, netVars
<1> QED BY <1>2, <1>3 DEF HandlerDone

\* The timeout branch of both socket handlers keeps the types.
LEMMA TimeoutHandler ==
    ASSUME IInv, NEW s \in Socks, vm[s] \in Co, OnTimeout(s), HandlerFrame PROVE HandlerDone
<1> USE DEF IInv
<1>1. "timeout" \in Results
  BY DEF Results
<1>2. CoTypeOK' /\ \A d \in Co : co'[d] = co[d] \/ (d = vm[s] /\ co'[d] = "running")
  BY <1>1, ResumeType DEF OnTimeout, HandlerFrame
<1>3. StackInv' /\ active' \in [Socks -> BOOLEAN]
  BY CtlDelType DEF OnTimeout, HandlerFrame
<1>4. SockTypeOK'
  BY <1>3 DEF OnTimeout, HandlerFrame, SockTypeOK
<1> QED BY <1>2, <1>3, <1>4 DEF HandlerDone

\* connect_handler keeps the types.
LEMMA ConnectHandler ==
    ASSUME IInv, NEW s \in Socks, vm[s] \in Co, connect_handler(s), HandlerFrame PROVE HandlerDone
<1> USE DEF IInv
<1>1. StackInv'
  BY StackFrame DEF connect_handler, HandlerFrame, netVars
<1>2. CASE SoError(s)
  <2>1. CoTypeOK' /\ UNCHANGED co
    BY <1>2, AbandonType DEF connect_handler, HandlerFrame
  <2>2. SockTypeOK'
    BY <1>2, SockFrame DEF connect_handler, HandlerFrame, sockVars
  <2> QED BY <1>1, <2>1, <2>2 DEF HandlerDone
<1>3. CASE ~SoError(s)
  <2>1. "ok" \in Results
    BY DEF Results
  <2>2. CoTypeOK' /\ \A d \in Co : co'[d] = co[d] \/ (d = vm[s] /\ co'[d] = "running")
    BY <1>3, <2>1, ResumeType DEF connect_handler, HandlerFrame
  <2>3. SockTypeOK'
    BY <1>3 DEF connect_handler, HandlerFrame, SockTypeOK
  <2> QED BY <1>1, <2>2, <2>3 DEF HandlerDone
<1> QED BY <1>2, <1>3

\* recv_handler keeps the types.
LEMMA RecvHandler ==
    ASSUME IInv, NEW s \in Socks, vm[s] \in Co, recv_handler(s), HandlerFrame PROVE HandlerDone
<1> USE DEF IInv
<1>1. RecvResult(fd[s]) \in Results
  BY DEF RecvResult, Results
<1>2. CoTypeOK' /\ \A d \in Co : co'[d] = co[d] \/ (d = vm[s] /\ co'[d] = "running")
  BY <1>1, ResumeType DEF recv_handler, HandlerFrame
<1>3. rx' \in [Fds -> Nat]
  BY DEF recv_handler, StackInv, StackTypeOK
<1>4. StackInv'
  BY <1>3 DEF recv_handler, HandlerFrame, StackInv, StackTypeOK, ReadyOK, epollVars
<1>5. SockTypeOK'
  BY SockFrame DEF recv_handler, HandlerFrame, sockVars
<1> QED BY <1>2, <1>4, <1>5 DEF HandlerDone

\* Calling the handler of an event of the batch keeps the invariant.
LEMMA DispatchType ==
    ASSUME IInv, NEW e \in batch, Dispatch(e) PROVE IInv'
<1> USE DEF IInv
<1> DEFINE c == e[3]
<1>1. c \in Co
  BY DEF LoopTypeOK
<1>2. HandlerFrame /\ UNCHANGED now /\ CallHandler(c)
  BY DEF Dispatch, HandlerFrame
<1>3. LoopTypeOK'
  BY DEF Dispatch, LoopTypeOK
<1>4. HandlerDone /\ TimerInv' /\ tree' \subseteq tree
  <2>1. CASE handler[c] = "NULL"
    <3>1. UNCHANGED <<timerVars, coVars, connected, active, rx, epollVars>>
      BY <1>2, <2>1 DEF CallHandler
    <3>2. UNCHANGED <<sockVars, netVars>>
      BY <1>2, <3>1 DEF HandlerFrame, sockVars, netVars
    <3>3. CoTypeOK' /\ SockTypeOK' /\ StackInv' /\ TimerInv'
      BY <1>2, <3>1, <3>2, CoFrame, SockFrame, StackFrame, TimerFrame DEF HandlerFrame
    <3> QED BY <3>1, <3>3 DEF HandlerDone, coVars, timerVars
  <2>2. CASE handler[c] = "timer"
    <3>1. timer_handler(c) /\ UNCHANGED timerVars
      BY <1>2, <2>2 DEF CallHandler
    <3> QED BY <1>1, <1>2, <3>1, TimerHandler, TimerFrame DEF HandlerFrame, timerVars
  <2>3. CASE handler[c] \in {"connect", "recv"}
    <3>1. data[c] \in Socks /\ vm[data[c]] \in Co
      BY <1>1, <2>3 DEF EventOK
    <3>2. CASE timedout[c]
      <4>1. OnTimeout(data[c]) /\ UNCHANGED timerVars
        BY <1>2, <2>3, <3>2 DEF CallHandler
      <4> QED BY <1>2, <3>1, <4>1, TimeoutHandler, TimerFrame DEF HandlerFrame, timerVars
    <3>3. CASE ~timedout[c]
      <4>1. /\ event_del_timer(c)
            /\ UNCHANGED timedout
            /\ connect_handler(data[c]) \/ recv_handler(data[c])
        BY <1>2, <2>3, <3>3 DEF CallHandler
      <4>2. TimerInv' /\ tree' = tree \ {c}
        BY <1>1, <1>2, <4>1, DelTimer DEF Dispatch, Idle, TimerInv, TimerTypeOK, Co
      <4> QED BY <1>2, <3>1, <4>1, <4>2, ConnectHandler, RecvHandler
    <3> QED BY <3>2, <3>3
  <2> QED BY <1>1, <2>1, <2>2, <2>3 DEF CoTypeOK
<1>5. EventOK'
  BY <1>2, <1>4, EventFrame DEF HandlerFrame, HandlerDone
<1> QED BY <1>3, <1>4, <1>5 DEF HandlerDone

\* Expiring a timer and calling its handler keeps the invariant.
LEMMA ExpireType ==
    ASSUME IInv, NEW c \in Co, ExpireOne(c) PROVE IInv'
<1> USE DEF IInv
<1>1. HandlerFrame /\ UNCHANGED now /\ LoopTypeOK'
  BY LoopFrame DEF ExpireOne, HandlerFrame
<1>2. c \in tree /\ event_del_timer(c) /\ timedout' \in [Co -> BOOLEAN]
  BY DEF ExpireOne, Expire, IsMin, TimerInv, TimerTypeOK, Co
<1>3. TimerInv' /\ tree' = tree \ {c}
  BY <1>1, <1>2, DelTimer DEF ExpireOne, Idle
<1>4. HandlerDone
  <2>1. CASE handler[c] = "timer"
    BY <1>1, <2>1, TimerHandler DEF ExpireOne
  <2>2. CASE handler[c] # "timer"
    <3>1. data[c] \in Socks /\ vm[data[c]] \in Co
      BY <1>2, <2>2 DEF EventOK, CoTypeOK
    <3> QED BY <1>1, <2>2, <3>1, TimeoutHandler DEF ExpireOne
  <2> QED BY <2>1, <2>2
<1>5. EventOK'
  BY <1>1, <1>3, <1>4, EventFrame DEF HandlerFrame, HandlerDone
<1> QED BY <1>1, <1>3, <1>4, <1>5 DEF HandlerDone

\* A step that leaves the application alone keeps its part of the invariant.
LEMMA AppFrame ==
    ASSUME IInv, UNCHANGED appVars
    PROVE  CoTypeOK' /\ SockTypeOK' /\ EventOK' /\ (now' \in Nat => TimerInv')
<1> USE DEF IInv
<1>1. UNCHANGED <<timerVars, coVars, evVars, fault, sockVars>>
  BY DEF appVars
<1>2. CoTypeOK' /\ SockTypeOK'
  BY <1>1, CoFrame, SockFrame
<1>3. EventOK'
  BY <1>1, EventFrame DEF sockVars, coVars, timerVars
<1>4. now' \in Nat => TimerInv'
  BY <1>1 DEF TimerInv, FlagOK, TimerTypeOK, FlagMatchesTree, timerVars
<1> QED BY <1>2, <1>3, <1>4

\* mtcp_epoll_wait keeps the invariant: what it returns points to contexts.
LEMMA EpollWaitType ==
    ASSUME IInv, NEW ok \in BOOLEAN, EpollWait(ok) PROVE IInv'
<1> USE DEF IInv
<1>1. now' \in Nat
  BY LoopAssumption DEF EpollWait, TimerInv, TimerTypeOK
<1>2. StackInv'
  BY DEF EpollWait, StackInv, StackTypeOK, ReadyOK
<1>3. \A e \in ready : <<e[1], e[2], ptr[e[1]]>> \in Fds \X Kinds \X Co
  BY DEF StackInv, StackTypeOK, ReadyOK
<1>4. batch' \subseteq Fds \X Kinds \X Co
  BY <1>3 DEF EpollWait
<1>5. LoopTypeOK'
  BY <1>4 DEF EpollWait, LoopTypeOK
<1> QED BY <1>1, <1>2, <1>5, AppFrame DEF EpollWait

\* Every step of the event loop keeps the invariant.
LEMMA LoopSteps == ASSUME IInv, Loop PROVE IInv'
<1> USE DEF IInv
<1>1. ASSUME LoopExit \/ EndExpire \/ EndIteration \/ BeginExpire PROVE IInv'
  <2>1. UNCHANGED <<appVars, netVars>> /\ now' \in Nat
    BY <1>1, LoopAssumption DEF LoopExit, EndExpire, EndIteration, BeginExpire, TimerInv, TimerTypeOK
  <2>2. current_msec \in 0 .. KeyMod - 1 /\ 0 \in 0 .. KeyMod - 1
    BY KeyType, KeyModAssumption DEF current_msec, TimerInv, TimerTypeOK
  <2>3. LoopTypeOK'
    BY <1>1, <2>2 DEF LoopExit, EndExpire, EndIteration, BeginExpire, LoopTypeOK
  <2> QED BY <2>1, <2>3, AppFrame, StackFrame
<1>2. ASSUME NEW e \in batch, DispatchFault(e) PROVE IInv'
  <2>1. e[3] \in Co /\ timedout[e[3]] \in BOOLEAN
    BY DEF LoopTypeOK, TimerInv, TimerTypeOK, Co
  <2> QED BY <1>2, <2>1, HandlerFaultType, FaultType DEF DispatchFault
<1>3. ASSUME NEW c \in Co, ExpireFault(c) PROVE IInv'
  BY <1>3, HandlerFaultType, FaultType DEF ExpireFault
<1> QED BY <1>1, <1>2, <1>3, DispatchType, ExpireType, EpollWaitType DEF Loop

-----------------------------------------------------------------------------
\* thread_entry establishes the invariant before its loop.
LEMMA InitOK == Init => IInv
<1> SUFFICES ASSUME Init PROVE IInv
  OBVIOUS
<1>1. TimerInv
  <2>1. 0 \in 0 .. KeyMod - 1
    BY KeyModAssumption
  <2>2. FlagMatchesTree /\ tree \subseteq Events
    BY CoAssumption DEF Init, CoInit, FlagMatchesTree, Co
  <2>3. timer_set \in [Events -> BOOLEAN] /\ timedout \in [Events -> BOOLEAN]
    BY DEF Init, CoInit, Co
  <2> QED BY <2>1, <2>2, <2>3 DEF Init, CoInit, TimerInv, FlagOK, TimerTypeOK, Co
<1>2. CoTypeOK
  BY DEF Init, CoInit, CoTypeOK, CoStates, Results, Faults
<1>3. SockTypeOK
  BY SocketAssumption DEF Init, SockInit, SockTypeOK
<1>4. StackInv
  BY DEF Init, StackInit, StackInv, StackTypeOK, ReadyOK
<1>5. LoopTypeOK
  BY KeyModAssumption DEF Init, LoopTypeOK
<1>6. EventOK
  BY DEF Init, CoInit, EventOK
<1> QED BY <1>1, <1>2, <1>3, <1>4, <1>5, <1>6 DEF IInv

\* Every step keeps the invariant.
LEMMA NextOK == IInv /\ [Next]_vars => IInv'
<1> SUFFICES ASSUME IInv, [Next]_vars PROVE IInv'
  OBVIOUS
<1>1. ASSUME NEW c \in Co, Api(c) PROVE IInv'
  BY <1>1, CoSteps, SockSteps DEF Api
<1>2. ASSUME Collector PROVE IInv'
  <2>1. PICK s \in Socks : (Gc(s) \/ CloseWithoutContext(s)) /\ UNCHANGED <<now, loopVars>>
    BY <1>2 DEF Collector
  <2>2. CASE Gc(s)
    <3>1. PICK c \in Co : Runs(c)
      BY <2>2 DEF Gc, Collectable
    <3> QED BY <2>1, <2>2, QuietCalls
  <2>3. CASE CloseWithoutContext(s)
    <3>1. "null_ctx" \in Faults
      BY DEF Faults
    <3> QED BY <2>1, <2>3, <3>1, FaultType DEF CloseWithoutContext
  <2> QED BY <2>1, <2>2, <2>3
<1>3. ASSUME Network PROVE IInv'
  <2>1. now' \in Nat /\ UNCHANGED <<appVars, loopVars>> /\ StackInv'
    BY <1>3, StackSteps DEF Network, IInv, TimerInv, TimerTypeOK
  <2> QED BY <2>1, AppFrame, LoopFrame DEF IInv
<1>4. ASSUME Tick PROVE IInv'
  <2>1. now' \in Nat /\ UNCHANGED <<appVars, netVars, loopVars>>
    BY <1>4 DEF Tick, IInv, TimerInv, TimerTypeOK
  <2> QED BY <2>1, AppFrame, LoopFrame, StackFrame DEF IInv
<1>5. ASSUME UNCHANGED vars PROVE IInv'
  <2>1. now' \in Nat /\ UNCHANGED <<appVars, netVars, loopVars>>
    BY <1>5 DEF vars, IInv, TimerInv, TimerTypeOK
  <2> QED BY <2>1, AppFrame, LoopFrame, StackFrame DEF IInv
<1> QED BY <1>1, <1>2, <1>3, <1>4, <1>5, LoopSteps DEF Next, Stopped

\* IInv holds in every reachable state of a core, for any constants.
THEOREM Invariance == Spec => []IInv
BY InitOK, NextOK, PTL DEF Spec

(***************************************************************************)
(* Every variable keeps its type, in particular: a handler that is called  *)
(* finds a socket and a context, and the batch holds only events.          *)
(***************************************************************************)
THEOREM TypeCorrect == Spec => []TypeOK
<1>1. IInv => TypeOK
  BY DEF IInv, TypeOK, TimerInv, StackInv
<1> QED BY <1>1, Invariance, PTL

-----------------------------------------------------------------------------
(***************************************************************************)
(* The clock.  A core makes LoopLimit iterations, so its clock stays below *)
(* Horizon; if the deadlines up to there fit into half the range of a key  *)
(* (2^63 ms in the code), every key is compared as the time it stands for. *)
(***************************************************************************)
Period  == EpollTimeout + LoopSleep + 1
End(n)  == MaxNow + n * Period
Horizon == End(LoopLimit)

Requests == Delays \cup Timeouts \cup {DefaultTimeout}

KeysFit == \A d \in Requests : 2 * (Horizon + d) < KeyMod

\* What is left of an iteration that has begun.
ClockInv ==
    /\ count <= LoopLimit
    /\ phase \in {"wait", "exit"} => now <= End(count)
    /\ phase \in {"dispatch", "expire", "sleep"} => count > 0 /\ now + LoopSleep <= End(count)
    /\ phase = "dispatch" => now + LoopSleep + 1 <= End(count)
    /\ phase = "expire" => snap <= now /\ snap + LoopSleep + 1 <= End(count)

KeysLow ==
    /\ \A c \in tree : 2 * key[c] < KeyMod
    /\ \A s \in Socks : timeout[s] \in Requests

\* One more iteration is one more period.
LEMMA Ends ==
    /\ Period \in Nat /\ \A n \in Nat : End(n) \in Nat /\ End(n + 1) = End(n) + Period
    /\ \A n \in Nat : MaxNow <= End(n) /\ (n > 0 => MaxNow + LoopSleep + 1 <= End(n))
    /\ \A n \in Nat : n <= LoopLimit => End(n) <= Horizon
<1> USE LoopAssumption
<1>1. Period \in Nat /\ LoopSleep + 1 <= Period
  BY DEF Period
<1> HIDE DEF Period
<1>2. ASSUME NEW n \in Nat PROVE n * Period \in Nat /\ (n + 1) * Period = n * Period + Period
  BY <1>1
<1>3. ASSUME NEW n \in Nat, n > 0 PROVE n * Period >= Period
  BY <1>1, <1>3
<1>4. ASSUME NEW n \in Nat, n <= LoopLimit PROVE n * Period <= LoopLimit * Period
  BY <1>1, <1>4
<1> QED BY <1>1, <1>2, <1>3, <1>4 DEF End, Horizon

\* The clock and a request after it are far from the end of the range.
LEMMA ClockLow ==
    ASSUME KeysFit, IInv, ClockInv
    PROVE  /\ now \in Nat /\ 2 * now < KeyMod /\ current_msec = now
           /\ phase = "expire" => 2 * snap < KeyMod
           /\ \A d \in Requests : d \in Nat /\ NewKey(d) = now + d /\ 2 * (now + d) < KeyMod
<1>1. now \in Nat /\ snap \in Nat /\ count \in Nat /\ LoopSleep \in Nat /\ KeyMod \in Nat
  BY LoopAssumption, KeyModAssumption DEF IInv, TimerInv, TimerTypeOK, LoopTypeOK
<1>2. End(count) \in Nat /\ Horizon \in Nat /\ End(count) <= Horizon
  BY <1>1, Ends, LoopAssumption DEF ClockInv, Horizon
<1>3. now <= End(count) /\ (phase = "expire" => snap <= End(count))
  BY <1>1, <1>2 DEF ClockInv, IInv, LoopTypeOK
<1>4. \A d \in Requests : d \in Nat /\ 2 * (Horizon + d) < KeyMod
  BY CoAssumption, SocketAssumption DEF Requests, KeysFit
<1>5. DefaultTimeout \in Requests
  BY DEF Requests
<1>6. 2 * now < KeyMod /\ (phase = "expire" => 2 * snap < KeyMod)
  BY <1>1, <1>2, <1>3, <1>4, <1>5
<1>7. current_msec = now
  BY <1>1, <1>6, ModLow DEF current_msec
<1>8. ASSUME NEW d \in Requests PROVE NewKey(d) = now + d /\ 2 * (now + d) < KeyMod
  <2>1. now + d \in Nat /\ 2 * (now + d) < KeyMod
    BY <1>1, <1>2, <1>3, <1>4
  <2>2. now + d < KeyMod
    BY <1>1, <2>1
  <2> QED BY <1>7, <2>1, <2>2, ModLow DEF NewKey
<1> QED BY <1>1, <1>4, <1>6, <1>7, <1>8

\* Every step keeps the bound of the clock.
LEMMA ClockStep == ASSUME KeysFit, IInv, ClockInv, [Next]_vars PROVE ClockInv'
<1>0. /\ now \in Nat /\ snap \in Nat /\ count \in Nat /\ LoopSleep \in Nat /\ MaxNow \in Nat
      /\ EpollTimeout \in Nat /\ LoopLimit \in Nat
      /\ phase \in {"wait", "dispatch", "expire", "sleep", "exit"}
  BY LoopAssumption DEF IInv, TimerInv, TimerTypeOK, LoopTypeOK
<1>1. /\ End(count) \in Nat /\ End(count + 1) = End(count) + (EpollTimeout + LoopSleep + 1)
      /\ count > 0 => MaxNow + LoopSleep + 1 <= End(count)
  BY <1>0, Ends DEF Period
<1>2. ASSUME UNCHANGED <<now, loopVars>> PROVE ClockInv'
  BY <1>2 DEF ClockInv, loopVars
<1>3. CASE LoopExit
  <2>1. phase' = "exit" /\ count' = count + 1 /\ count + 1 = LoopLimit /\ now' = now /\ phase = "wait"
    BY <1>3 DEF LoopExit, Idle
  <2>2. now <= End(count + 1)
    BY <1>0, <1>1, <2>1 DEF ClockInv
  <2>3. End(count)' = End(count + 1)
    BY <2>1 DEF End, Period
  <2> QED BY <1>0, <2>1, <2>2, <2>3 DEF ClockInv
<1>4. ASSUME NEW ok \in BOOLEAN, EpollWait(ok) PROVE ClockInv'
  <2>1. /\ phase' = "dispatch" /\ count' = count + 1 /\ count + 1 < LoopLimit /\ phase = "wait"
        /\ now' = now \/ now' = now + EpollTimeout
    BY <1>4 DEF EpollWait, Idle
  <2>2. now' + LoopSleep + 1 <= End(count + 1) /\ now' \in Nat
    BY <1>0, <1>1, <2>1 DEF ClockInv
  <2>3. End(count)' = End(count + 1)
    BY <2>1 DEF End, Period
  <2> QED BY <1>0, <1>1, <2>1, <2>2, <2>3 DEF ClockInv
<1>5. CASE BeginExpire
  <2>1. /\ phase = "dispatch" /\ phase' = "expire" /\ snap' = now /\ UNCHANGED <<now, count>>
    BY <1>5, ClockLow DEF BeginExpire, Idle
  <2>2. End(count)' = End(count)
    BY <2>1 DEF End, Period
  <2> QED BY <1>0, <2>1, <2>2 DEF ClockInv
<1>6. CASE EndExpire
  <2>1. phase = "expire" /\ phase' = "sleep" /\ UNCHANGED <<now, count>>
    BY <1>6 DEF EndExpire, Idle
  <2>2. End(count)' = End(count)
    BY <2>1 DEF End, Period
  <2> QED BY <2>1, <2>2 DEF ClockInv
<1>7. CASE EndIteration
  <2>1. phase = "sleep" /\ phase' = "wait" /\ now' = now + LoopSleep /\ UNCHANGED count
    BY <1>7 DEF EndIteration, Idle
  <2>2. End(count)' = End(count)
    BY <2>1 DEF End, Period
  <2> QED BY <2>1, <2>2 DEF ClockInv
<1>8. CASE Tick
  <2>1. /\ now' = now + 1 /\ UNCHANGED <<phase, snap, count>> /\ phase # "exit"
        /\ now < MaxNow \/ (phase = "expire" /\ snap = now)
    BY <1>8, ClockLow DEF Tick, Alive, loopVars
  <2>2. End(count)' = End(count)
    BY <2>1 DEF End, Period
  <2>3. CASE phase = "wait"
    <3>1. MaxNow <= End(count)
      BY <1>0, Ends
    <3> QED BY <1>0, <1>1, <2>1, <2>2, <2>3, <3>1 DEF ClockInv
  <2>4. CASE phase \in {"dispatch", "expire", "sleep"}
    BY <1>0, <1>1, <2>1, <2>2, <2>4 DEF ClockInv
  <2> QED BY <1>0, <2>1, <2>3, <2>4
<1>9. CASE Loop
  BY <1>2, <1>3, <1>4, <1>5, <1>6, <1>7, <1>9
  DEF Loop, Dispatch, DispatchFault, ExpireOne, ExpireFault, ClockInv, loopVars
<1>10. CASE (\E c \in Co : Api(c)) \/ Collector \/ Network \/ Stopped \/ UNCHANGED vars
  BY <1>2, <1>10 DEF Api, Collector, Network, Stopped, vars
<1> QED BY <1>8, <1>9, <1>10 DEF Next

\* Every step keeps the keys low.
LEMMA KeysStep == ASSUME KeysFit, IInv, ClockInv, KeysLow, [Next]_vars PROVE KeysLow'
<1> USE DEF IInv
<1>0. tree \subseteq Co /\ key \in [Co -> 0 .. KeyMod - 1]
  BY DEF TimerInv, TimerTypeOK, Co
<1>1. ASSUME UNCHANGED <<tree, key, timeout>> PROVE KeysLow'
  BY <1>1 DEF KeysLow
<1>2. ASSUME NEW c \in Co, NEW d \in Requests, event_add_timer(c, d), UNCHANGED timeout PROVE KeysLow'
  <2>1. NewKey(d) = now + d /\ 2 * (now + d) < KeyMod
    BY ClockLow
  <2>2. 2 * NewKey(d) < KeyMod
    BY <2>1
  <2> QED BY <1>0, <1>2, <2>2 DEF event_add_timer, KeysLow
<1>3. ASSUME NEW c, event_del_timer(c), UNCHANGED timeout PROVE KeysLow'
  BY <1>0, <1>3 DEF event_del_timer, KeysLow
<1>4. ASSUME NEW kind, SockFault(kind) PROVE KeysLow'
  BY <1>1, <1>4 DEF SockFault, timerVars, sockVars
<1>5. ASSUME NEW c \in Co, Api(c) PROVE KeysLow'
  <2>1. ASSUME NEW delay \in Delays, Sleep(c, delay), UNCHANGED timeout PROVE KeysLow'
    <3>1. delay \in Requests
      BY DEF Requests
    <3>2. 2 * NewKey(delay) < KeyMod
      BY <3>1, ClockLow
    <3> QED BY <1>0, <2>1, <3>2 DEF Sleep, KeysLow
  <2>6. ASSUME NEW delay \in Delays, SleepWhileLinked(c, delay), UNCHANGED timeout PROVE KeysLow'
    <3>1. delay \in Requests
      BY DEF Requests
    <3>2. 2 * NewKey(delay) < KeyMod
      BY <3>1, ClockLow
    <3> QED BY <1>0, <2>6, <3>2 DEF SleepWhileLinked, KeysLow
  <2>2. CASE CoStep(c) /\ UNCHANGED sockVars
    BY <1>1, <2>1, <2>2, <2>6 DEF CoStep, Spawn, SpawnWithArguments, Return, timerVars, sockVars
  <2>3. CASE ConnectArm(c) \/ RecvArm(c)
    <3>1. data[c] \in Socks
      BY <2>3 DEF ConnectArm, RecvArm, OnTop, EventOK
    <3>2. timeout[data[c]] \in Requests /\ UNCHANGED timeout
      BY <2>3, <3>1 DEF ConnectArm, RecvArm, KeysLow
    <3> QED BY <1>1, <1>2, <2>3, <3>2 DEF ConnectArm, RecvArm
  <2>4. ASSUME NEW s \in Socks, NEW d \in Timeouts, SetTimeout(c, s, d) PROVE KeysLow'
    <3>1. d \in Requests /\ timeout' = [timeout EXCEPT ![s] = d] /\ UNCHANGED <<tree, key>>
      BY <2>4 DEF SetTimeout, Requests, timerVars
    <3> QED BY <3>1 DEF KeysLow, SockTypeOK
  <2>5. CASE SockStep(c)
    BY <1>1, <2>3, <2>4, <2>5
    DEF SockStep, NewSocket, ConnectFails, ConnectImmediate, ConnectStart, RecvData, RecvWait, Close,
        timerVars, sockVars
  <2> QED BY <1>5, <2>2, <2>5 DEF Api
<1>6. ASSUME NEW e \in batch, Dispatch(e) PROVE KeysLow'
  <2>1. (UNCHANGED timerVars \/ event_del_timer(e[3])) /\ UNCHANGED timeout
    BY <1>6 DEF Dispatch, CallHandler
  <2> QED BY <1>1, <1>3, <2>1 DEF timerVars
<1>7. ASSUME NEW c \in Co, ExpireOne(c) PROVE KeysLow'
  BY <1>3, <1>7 DEF ExpireOne, Expire
<1>8. CASE Loop
  BY <1>1, <1>4, <1>6, <1>7, <1>8
  DEF Loop, LoopExit, EpollWait, DispatchFault, BeginExpire, ExpireFault, EndExpire, EndIteration,
      appVars, timerVars, sockVars
<1>9. CASE Collector
  BY <1>1, <1>4, <1>9 DEF Collector, Gc, CloseWithoutContext, timerVars
<1>10. CASE Network \/ Tick \/ Stopped \/ UNCHANGED vars
  BY <1>1, <1>10 DEF Network, Tick, Stopped, vars, appVars, timerVars, sockVars
<1> QED BY <1>5, <1>8, <1>9, <1>10 DEF Next

-----------------------------------------------------------------------------
(***************************************************************************)
(* Proofs about who runs and who is resumed, for every number of           *)
(* coroutines.                                                             *)
(*                                                                         *)
(* Only the loop, at an event or at a timer, resumes a coroutine that      *)
(* waits or takes its timer (WaitStep, DispatchCases, ExpireCases).  If    *)
(* every socket object is used by at most one coroutine (Exclusive), the   *)
(* object's vm and the event that points to the object name the same       *)
(* coroutine (Owned), so that the handler that takes a coroutine's timer   *)
(* resumes that coroutine; that invariant and the timed waits follow from  *)
(* the kind of the step alone (StepKinds).  Without sockets no coroutine   *)
(* runs while its timer is armed, and nothing faults.  With Exclusive a    *)
(* core implements Scheduler, for which the coroutines inside Lua code     *)
(* have to be the ones on the stack of nested lua_resume calls (OneStack). *)
(***************************************************************************)

-----------------------------------------------------------------------------
(* The stack of nested calls. *)

InLua(state) == state \in {"running", "conn_arm", "recv_arm"}

\* A step that moves control neither in nor out.
SameControl == UNCHANGED stack /\ \A d \in Co : InLua(co'[d]) <=> InLua(co[d])

\* lua_resume enters c.
Enters(c) ==
    /\ ~InLua(co[c]) /\ InLua(co'[c])
    /\ stack' = Append(stack, c)
    /\ \A d \in Co \ {c} : co'[d] = co[d]

\* The lua_resume that runs c returns.
Leaves(c) ==
    /\ ~InLua(co'[c])
    /\ stack # <<>> /\ stack[Len(stack)] = c
    /\ stack' = SubSeq(stack, 1, Len(stack) - 1)
    /\ \A d \in Co \ {c} : co'[d] = co[d]

Running == {c \in Co : InLua(co[c])}

OneStack ==
    /\ Running = {stack[i] : i \in 1 .. Len(stack)}
    /\ \A i, j \in 1 .. Len(stack) : stack[i] = stack[j] => i = j

ControlStep == SameControl \/ \E c \in Co : Enters(c) \/ Leaves(c)

\* A step that enters or leaves one coroutine at the top keeps OneStack.
LEMMA OneStackStep == ASSUME CoTypeOK, OneStack, ControlStep PROVE OneStack'
<1>1. ASSUME SameControl PROVE OneStack'
  BY <1>1 DEF SameControl, OneStack, Running, InLua
<1>2. ASSUME NEW c \in Co, Enters(c) PROVE OneStack'
  <2>1. stack \in Seq(Co) /\ stack' = Append(stack, c)
    BY <1>2 DEF CoTypeOK, Enters
  <2>2. /\ Len(stack') = Len(stack) + 1 /\ Len(stack) \in Nat
        /\ \A i \in 1 .. Len(stack) : stack'[i] = stack[i]
        /\ stack'[Len(stack) + 1] = c
    BY <2>1
  <2>3. Running' = Running \cup {c} /\ c \notin Running
    BY <1>2 DEF Enters, Running, InLua
  <2>4. \A i \in 1 .. Len(stack) : stack[i] # c
    BY <2>3 DEF OneStack
  <2>5. Running' = {stack'[i] : i \in 1 .. Len(stack')}
    BY <2>2, <2>3 DEF OneStack
  <2>6. \A i, j \in 1 .. Len(stack') : stack'[i] = stack'[j] => i = j
    BY <2>2, <2>4 DEF OneStack
  <2> QED BY <2>5, <2>6 DEF OneStack
<1>3. ASSUME NEW c \in Co, Leaves(c) PROVE OneStack'
  <2> DEFINE n == Len(stack) - 1
  <2>1. stack \in Seq(Co) /\ stack' = SubSeq(stack, 1, n) /\ Len(stack) \in Nat \ {0}
    BY <1>3 DEF CoTypeOK, Leaves
  <2>2. /\ Len(stack') = Len(stack) - 1
        /\ \A i \in 1 .. Len(stack) - 1 : stack'[i] = stack[i]
    <3>1. n \in Int /\ 1 \in Int /\ \A i \in 1 .. n : stack[i] \in Co
      BY <2>1
    <3>2. /\ Len(SubSeq(stack, 1, n)) = IF 1 <= n THEN n - 1 + 1 ELSE 0
          /\ \A i \in 1 .. n - 1 + 1 : SubSeq(stack, 1, n)[i] = stack[1 + i - 1]
      BY <3>1, SubSeqProperties
    <3>3. n \in Nat /\ n - 1 + 1 = n /\ \A i \in 1 .. n : 1 + i - 1 = i
      BY <2>1
    <3>4. Len(stack') = n
      BY <2>1, <3>2, <3>3
    <3>5. ASSUME NEW i \in 1 .. n PROVE stack'[i] = stack[i]
      <4>1. SubSeq(stack, 1, n)[i] = stack[1 + i - 1]
        BY <3>2, <3>3
      <4>2. 1 + i - 1 = i
        BY <3>3
      <4>3. SubSeq(stack, 1, n)[i] = stack[i]
        BY <4>1, <4>2, Zenon
      <4> QED BY <2>1, <4>3, Zenon
    <3> QED BY <3>4, <3>5
  <2>3. Running' = Running \ {c}
    BY <1>3 DEF Leaves, Running, InLua
  <2>4. \A i \in 1 .. Len(stack) : stack[i] = c <=> i = Len(stack)
    BY <1>3, <2>1 DEF Leaves, OneStack
  <2>5. Running' = {stack'[i] : i \in 1 .. Len(stack')}
    BY <2>1, <2>2, <2>3, <2>4 DEF OneStack
  <2>6. \A i, j \in 1 .. Len(stack') : stack'[i] = stack'[j] => i = j
    BY <2>1, <2>2 DEF OneStack
  <2> QED BY <2>5, <2>6 DEF OneStack
<1> QED BY <1>1, <1>2, <1>3 DEF ControlStep

\* mtcp_lua_run_thread enters at most one coroutine.
LEMMA ResumeControl ==
    ASSUME CoTypeOK, NEW c \in Co, NEW r, Resume(c, r) PROVE ControlStep
BY DEF Resume, CoTypeOK, ControlStep, SameControl, Enters, InLua, coVars

\* A yield or the end of a coroutine leaves the top of the stack.
LEMMA LeaveControl ==
    ASSUME CoTypeOK, NEW c \in Co, NEW state, OnTop(c, state), NEW status \in {"yielded", "dead"},
           Leave(c, status)
    PROVE  ControlStep
<1>1. Leaves(c)
  BY DEF Leave, Leaves, OnTop, InLua, CoTypeOK
<1> QED BY <1>1 DEF ControlStep

\* Every API call enters or leaves at most one coroutine, at the top.
LEMMA ApiControl == ASSUME IInv, NEW c \in Co, Api(c) PROVE ControlStep
<1> USE DEF IInv
<1>1. ASSUME UNCHANGED coVars PROVE ControlStep
  BY <1>1 DEF ControlStep, SameControl, coVars
<1>2. ASSUME NEW d \in Co, Spawn(c, d) PROVE ControlStep
  <2>1. Enters(d)
    BY <1>2 DEF Spawn, Enters, InLua, CoTypeOK
  <2> QED BY <2>1 DEF ControlStep
<1>3. ASSUME NEW d \in Co, SpawnWithArguments(c, d) PROVE SameControl
  BY <1>3 DEF SpawnWithArguments, SameControl, InLua, CoTypeOK
<1>4. ASSUME Return(c) \/ \E delay \in Delays : Sleep(c, delay) PROVE ControlStep
  BY <1>4, LeaveControl DEF Return, Sleep, Runs
<1>5. ASSUME NEW s \in Socks, (\E f \in Fds : ConnectStart(c, s, f)) \/ RecvWait(c, s)
      PROVE  SameControl
  BY <1>5 DEF ConnectStart, RecvWait, CanUse, Runs, OnTop, SameControl, InLua, CoTypeOK
<1>6. ASSUME ConnectArm(c) \/ RecvArm(c) PROVE ControlStep
  <2>1. CASE Leave(c, "yielded")
    BY <1>6, <2>1, LeaveControl DEF ConnectArm, RecvArm
  <2>2. CASE ~Leave(c, "yielded")
    <3>1. co' = [co EXCEPT ![c] = "running"] /\ UNCHANGED stack /\ co[c] = "conn_arm"
      BY <1>6, <2>2 DEF ConnectArm, RecvArm, OnTop
    <3> QED BY <3>1 DEF ControlStep, SameControl, InLua, CoTypeOK
  <2> QED BY <2>1, <2>2
<1>9. ASSUME NEW delay \in Delays, SleepWhileLinked(c, delay) PROVE SameControl
  BY <1>9 DEF SleepWhileLinked, SameControl
<1>7. ASSUME CoStep(c) PROVE ControlStep
  BY <1>2, <1>3, <1>4, <1>7, <1>9 DEF CoStep, ControlStep
<1>8. ASSUME SockStep(c) PROVE ControlStep
  BY <1>1, <1>5, <1>6, <1>8
  DEF SockStep, NewSocket, SetTimeout, ConnectFails, ConnectImmediate, RecvData, Close, ControlStep
<1> QED BY <1>7, <1>8 DEF Api

\* Every step enters or leaves at most one coroutine, at the top.
LEMMA NextControl == ASSUME IInv, [Next]_vars PROVE ControlStep
<1> USE DEF IInv
<1>1. ASSUME UNCHANGED coVars PROVE ControlStep
  BY <1>1 DEF ControlStep, SameControl, coVars
<1>2. ASSUME NEW e \in batch, Dispatch(e) PROVE ControlStep
  <2>1. e[3] \in Co /\ CallHandler(e[3])
    BY <1>2 DEF LoopTypeOK, Dispatch
  <2>2. handler[e[3]] \in {"connect", "recv"} => vm[data[e[3]]] \in Co
    BY <2>1 DEF EventOK
  <2>3. \/ UNCHANGED <<co, stack>>
        \/ \E d \in Co, r \in Results : Resume(d, r)
    <3>1. CASE handler[e[3]] = "NULL"
      BY <2>1, <3>1 DEF CallHandler, coVars
    <3>2. CASE handler[e[3]] = "timer"
      BY <2>1, <3>2 DEF CallHandler, timer_handler, Results
    <3>3. CASE handler[e[3]] \in {"connect", "recv"}
      <4>1. OnTimeout(data[e[3]]) \/ connect_handler(data[e[3]]) \/ recv_handler(data[e[3]])
        BY <2>1, <3>3 DEF CallHandler
      <4> QED BY <2>2, <3>3, <4>1
              DEF OnTimeout, connect_handler, recv_handler, Abandon, RecvResult, Results
    <3> QED BY <2>1, <3>1, <3>2, <3>3 DEF CoTypeOK
  <2>4. CASE UNCHANGED <<co, stack>>
    BY <2>4 DEF ControlStep, SameControl
  <2> QED BY <2>3, <2>4, ResumeControl
<1>3. ASSUME NEW c \in Co, ExpireOne(c) PROVE ControlStep
  <2>1. handler[c] = "timer" \/ vm[data[c]] \in Co
    BY <1>3 DEF ExpireOne, Expire, IsMin, EventOK, CoTypeOK
  <2> QED BY <1>3, <2>1, ResumeControl DEF ExpireOne, timer_handler, OnTimeout
<1>4. ASSUME NEW kind, SockFault(kind) PROVE UNCHANGED coVars
  BY <1>4 DEF SockFault
<1>5. ASSUME UNCHANGED appVars PROVE UNCHANGED coVars
  BY <1>5 DEF appVars
<1>6. ASSUME Loop PROVE ControlStep
  BY <1>1, <1>2, <1>3, <1>4, <1>5, <1>6
  DEF Loop, LoopExit, EpollWait, DispatchFault, BeginExpire, ExpireFault, EndExpire, EndIteration
<1>7. ASSUME Collector PROVE ControlStep
  BY <1>1, <1>4, <1>7 DEF Collector, Gc, CloseWithoutContext
<1>8. ASSUME Network \/ Tick \/ Stopped \/ UNCHANGED vars PROVE ControlStep
  BY <1>1, <1>5, <1>8 DEF Network, Tick, Stopped, vars
<1> QED BY <1>6, <1>7, <1>8, ApiControl DEF Next

\* The coroutines inside Lua code are the ones on the C stack, each once.
LEMMA ControlOnOneStack == Spec => []OneStack
<1>1. Init => OneStack
  BY DEF Init, CoInit, OneStack, Running, InLua
<1>2. IInv /\ OneStack /\ [Next]_vars => OneStack'
  BY NextControl, OneStackStep DEF IInv
<1> QED BY <1>1, <1>2, Invariance, PTL DEF Spec

-----------------------------------------------------------------------------
(* What happens to a coroutine that waits. *)

\* mtcp_lua_run_thread leaves its coroutine running or dead, and suspends nobody.
LEMMA ResumeEffect ==
    ASSUME CoTypeOK, NEW c \in Co, NEW r, Resume(c, r)
    PROVE  /\ co'[c] # "yielded" /\ (co[c] = "yielded" => co'[c] = "running")
           /\ \A d \in Co : co'[d] = "yielded" => co[d] = "yielded"
           /\ \A d \in Co \ {c} : co'[d] = co[d] /\ res'[d] = res[d]
BY DEF Resume, CoTypeOK, coVars

\* The handler of an event of the batch.
LEMMA DispatchCases ==
    ASSUME IInv, NEW e \in batch, Dispatch(e), NEW c, c = e[3]
    PROVE  /\ c \in Co /\ stack = <<>> /\ UNCHANGED <<evVars, vm, obj>> /\ e \notin batch'
           /\ \/ UNCHANGED <<timerVars, coVars>>
              \/ handler[c] = "timer" /\ Resume(c, "ok") /\ UNCHANGED timerVars
              \/ /\ handler[c] \in {"connect", "recv"} /\ vm[data[c]] \in Co
                 /\ \/ timedout[c] /\ Resume(vm[data[c]], "timeout") /\ UNCHANGED timerVars
                    \/ /\ tree' = tree \ {c}
                       /\ \/ \E r \in Results : Resume(vm[data[c]], r)
                          \/ handler[c] = "connect" /\ SoError(data[c]) /\ Abandon(vm[data[c]])
<1> USE DEF IInv
<1>1. c \in Co /\ CallHandler(c) /\ stack = <<>> /\ UNCHANGED <<evVars, vm, obj>> /\ e \notin batch'
  BY DEF Dispatch, Idle, LoopTypeOK
<1>2. CASE handler[c] = "NULL"
  BY <1>1, <1>2 DEF CallHandler
<1>3. CASE handler[c] = "timer"
  BY <1>1, <1>3 DEF CallHandler, timer_handler
<1>4. CASE handler[c] \in {"connect", "recv"}
  <2>1. vm[data[c]] \in Co
    BY <1>1, <1>4 DEF EventOK
  <2>2. CASE timedout[c]
    BY <1>1, <1>4, <2>1, <2>2 DEF CallHandler, OnTimeout
  <2>3. CASE ~timedout[c]
    <3>1. tree' = tree \ {c} /\ IF handler[c] = "connect" THEN connect_handler(data[c])
                                                        ELSE recv_handler(data[c])
      BY <1>1, <1>4, <2>3 DEF CallHandler, event_del_timer
    <3>2. \/ \E r \in Results : Resume(vm[data[c]], r)
          \/ handler[c] = "connect" /\ SoError(data[c]) /\ Abandon(vm[data[c]])
      BY <3>1 DEF connect_handler, recv_handler, RecvResult, Results
    <3> QED BY <1>1, <1>4, <2>1, <3>1, <3>2
  <2> QED BY <2>2, <2>3
<1> QED BY <1>1, <1>2, <1>3, <1>4 DEF CoTypeOK

\* The handler of a timer that is due.
LEMMA ExpireCases ==
    ASSUME IInv, NEW c \in Co, ExpireOne(c)
    PROVE  /\ stack = <<>> /\ UNCHANGED <<evVars, vm, obj>>
           /\ c \in tree /\ tree' = tree \ {c} /\ phase = "expire" /\ IsDue(c, snap)
           /\ \/ handler[c] = "timer" /\ Resume(c, "ok")
              \/ /\ handler[c] \in {"connect", "recv"} /\ data[c] \in Socks /\ vm[data[c]] \in Co
                 /\ Resume(vm[data[c]], "timeout")
<1> USE DEF IInv
<1>1. /\ stack = <<>> /\ UNCHANGED <<evVars, vm, obj>>
      /\ c \in tree /\ tree' = tree \ {c} /\ phase = "expire" /\ IsDue(c, snap)
  BY DEF ExpireOne, Idle, Expire, event_del_timer, IsMin
<1>2. handler[c] \in {"timer", "connect", "recv"}
  BY <1>1 DEF EventOK, CoTypeOK
<1>3. CASE handler[c] = "timer"
  BY <1>1, <1>3 DEF ExpireOne, timer_handler
<1>4. CASE handler[c] \in {"connect", "recv"}
  <2>1. data[c] \in Socks /\ vm[data[c]] \in Co
    BY <1>4 DEF EventOK
  <2> QED BY <1>1, <1>4, <2>1 DEF ExpireOne, OnTimeout
<1> QED BY <1>2, <1>3, <1>4

\* Nothing but the loop's handlers touches a wait.
SameSleep(c) ==
    co'[c] = "yielded" /\ res'[c] = res[c] /\ handler'[c] = handler[c] /\ (c \in tree => c \in tree')

LEMMA WaitStep ==
    ASSUME IInv, [Next]_vars, NEW c \in Co, co[c] = "yielded"
    PROVE  \/ SameSleep(c)
           \/ \E e \in batch : Dispatch(e)
           \/ \E d \in Co : ExpireOne(d)
<1> USE DEF IInv
<1>1. ASSUME UNCHANGED <<timerVars, coVars, evVars>> PROVE SameSleep(c)
  BY <1>1 DEF SameSleep, timerVars, coVars, evVars
<1>2. ASSUME NEW d \in Co, CoStep(d) PROVE SameSleep(c)
  <2>1. ASSUME NEW b \in Co, Spawn(d, b) \/ SpawnWithArguments(d, b) PROVE SameSleep(c)
    BY <2>1 DEF Spawn, SpawnWithArguments, SameSleep, CoTypeOK, timerVars, evVars
  <2>2. CASE Return(d)
    BY <2>2 DEF Return, Leave, Runs, OnTop, SameSleep, CoTypeOK, timerVars, evVars
  <2>3. ASSUME NEW delay \in Delays, Sleep(d, delay) \/ SleepWhileLinked(d, delay) PROVE SameSleep(c)
    BY <2>3 DEF Sleep, SleepWhileLinked, PrepareWait, Leave, Runs, OnTop, SameSleep, CoTypeOK
  <2> QED BY <1>2, <2>1, <2>2, <2>3 DEF CoStep
<1>3. ASSUME NEW d \in Co, SockStep(d) PROVE SameSleep(c)
  <2>1. ASSUME NEW s \in Socks, RecvWait(d, s) \/ \E f \in Fds : ConnectStart(d, s, f)
        PROVE  SameSleep(c)
    BY <2>1 DEF RecvWait, ConnectStart, PrepareWait, CanUse, Runs, OnTop, SameSleep, CoTypeOK
  <2>2. CASE ConnectArm(d) \/ RecvArm(d)
    <3>1. UNCHANGED <<res, evVars>> /\ tree \subseteq tree' /\ co[d] # "yielded"
      BY <2>2 DEF ConnectArm, RecvArm, OnTop, event_add_timer
    <3>2. co'[c] = co[c]
      BY <2>2, <3>1 DEF ConnectArm, RecvArm, Leave, CoTypeOK
    <3> QED BY <3>1, <3>2 DEF SameSleep, evVars
  <2> QED BY <1>1, <1>3, <2>1, <2>2
          DEF SockStep, NewSocket, SetTimeout, ConnectFails, ConnectImmediate, RecvData, Close
<1>4. ASSUME NEW kind, SockFault(kind) PROVE SameSleep(c)
  BY <1>1, <1>4 DEF SockFault
<1>5. ASSUME Collector PROVE SameSleep(c)
  BY <1>1, <1>4, <1>5 DEF Collector, Gc, CloseWithoutContext
<1>6. ASSUME UNCHANGED appVars PROVE SameSleep(c)
  BY <1>1, <1>6 DEF appVars
<1>7. ASSUME Loop PROVE SameSleep(c) \/ (\E e \in batch : Dispatch(e)) \/ \E d \in Co : ExpireOne(d)
  BY <1>4, <1>6, <1>7
  DEF Loop, LoopExit, EpollWait, DispatchFault, BeginExpire, ExpireFault, EndExpire, EndIteration
<1>8. ASSUME Network \/ Tick \/ Stopped \/ UNCHANGED vars PROVE SameSleep(c)
  BY <1>6, <1>8 DEF Network, Tick, Stopped, vars
<1> QED BY <1>2, <1>3, <1>5, <1>7, <1>8 DEF Next, Api

\* A wait that has failed stays so.
LEMMA FailedStays ==
    ASSUME IInv, [Next]_vars, NEW c \in Co, co[c] = "yielded", res[c] = "failed", co'[c] = "yielded"
    PROVE  res'[c] = "failed"
<1> USE DEF IInv
<1>1. ASSUME NEW d \in Co, NEW r, Resume(d, r) PROVE res'[c] = "failed"
  BY <1>1, ResumeEffect
<1>2. ASSUME NEW d \in Co, Abandon(d) PROVE res'[c] = "failed"
  BY <1>2, AbandonEffect
<1>3. ASSUME NEW e \in batch, Dispatch(e) PROVE res'[c] = "failed"
  BY <1>1, <1>2, <1>3, DispatchCases DEF coVars
<1>4. ASSUME NEW d \in Co, ExpireOne(d) PROVE res'[c] = "failed"
  BY <1>1, <1>4, ExpireCases
<1> QED BY <1>3, <1>4, WaitStep DEF SameSleep

(***************************************************************************)
(* Also where objects are shared, a wait loses its timer without a resume  *)
(* only if its connect has failed or another coroutine has put its own     *)
(* name into the object: no other step of any script, of the collector or  *)
(* of the stack takes the timer of a coroutine that waits.                 *)
(***************************************************************************)
THEOREM LostToAnother == Spec => LostOnlyToAnother
<1> DEFINE Told == \A c \in Co : co[c] = "yielded" /\ c \in tree \ tree' =>
                \/ co'[c] = "running"
                \/ handler[c] = "connect" /\ SoError(data[c])
                \/ handler[c] \in {"connect", "recv"} /\ vm[data[c]] # c
<1>1. ASSUME IInv, Next PROVE Told
  <2> SUFFICES ASSUME NEW c \in Co, co[c] = "yielded", c \in tree \ tree', co'[c] # "running",
                      ~(handler[c] \in {"connect", "recv"} /\ vm[data[c]] # c)
               PROVE  handler[c] = "connect" /\ SoError(data[c])
    OBVIOUS
  <2>1. CoTypeOK /\ \A r : ~Resume(c, r)
    BY <1>1, ResumeEffect DEF IInv
  <2>2. ASSUME NEW e \in batch, Dispatch(e) PROVE handler[c] = "connect" /\ SoError(data[c])
    <3>1. c = e[3]
      BY <1>1, <2>2, DispatchCases DEF timerVars
    <3> QED BY <1>1, <2>1, <2>2, <3>1, DispatchCases DEF timerVars
  <2>3. ASSUME NEW d \in Co, ExpireOne(d) PROVE FALSE
    <3>1. c = d
      BY <1>1, <2>3, ExpireCases
    <3> QED BY <1>1, <2>1, <2>3, <3>1, ExpireCases
  <2> QED BY <1>1, <2>2, <2>3, WaitStep DEF SameSleep
<1>2. IInv /\ [Next]_vars => [Told]_vars
  BY <1>1
<1> QED BY <1>2, Invariance, PTL DEF Spec, LostOnlyToAnother

-----------------------------------------------------------------------------
(* Exclusive sockets. *)

Exclusive == \A s \in Socks : \A c, d \in Holders[s] : c = d

Owned ==
    \A c \in Co : handler[c] \in {"connect", "recv"} =>
        c \in Holders[data[c]] /\ vm[data[c]] = c

-----------------------------------------------------------------------------
(* The kinds of step. *)

\* Nobody's timer is taken and nobody begins to wait without one.
Quiet ==
    /\ UNCHANGED <<evVars, vm>>
    /\ tree \subseteq tree'
    /\ \A d \in Co : co'[d] = "yielded" => co[d] = "yielded" \/ d \in tree'

\* c goes to sleep.
FallsAsleep(c) ==
    /\ UNCHANGED vm
    /\ tree' = tree \cup {c}
    /\ handler'[c] = "timer"
    /\ \A d \in Co \ {c} : handler'[d] = handler[d] /\ data'[d] = data[d] /\ co'[d] = co[d]

\* c makes itself the user of s.
Claims(c, s) ==
    /\ c \in Holders[s]
    /\ vm' = [vm EXCEPT ![s] = c]
    /\ UNCHANGED tree
    /\ data'[c] = s
    /\ co'[c] # "yielded"
    /\ \A d \in Co \ {c} : handler'[d] = handler[d] /\ data'[d] = data[d] /\ co'[d] = co[d]

\* The timer of c is taken, and c resumed if it can be.
Fires(c) ==
    /\ UNCHANGED <<evVars, vm>>
    /\ tree' = tree \ {c}
    /\ \A d \in Co : co'[d] = "yielded" => co[d] = "yielded"
    /\ \/ co'[c] # "yielded" /\ (co[c] = "yielded" => co'[c] = "running")
       \/ /\ handler[c] = "connect" /\ SoError(data[c])
          /\ co[c] = "yielded" => res'[c] = "failed"

StepKinds ==
    \/ Quiet
    \/ \E c \in Co : FallsAsleep(c)
    \/ \E c \in Co, s \in Socks : Claims(c, s)
    \/ \E c \in Co : Fires(c)

-----------------------------------------------------------------------------
\* spawn, return and sleep are steps of the four kinds.
LEMMA CoKinds ==
    ASSUME IInv, NEW c \in Co, CoStep(c), UNCHANGED sockVars PROVE StepKinds
<1> USE DEF IInv
<1>1. UNCHANGED vm
  BY DEF sockVars
<1>2. ASSUME NEW d \in Co, Spawn(c, d) \/ SpawnWithArguments(c, d) PROVE Quiet
  BY <1>1, <1>2 DEF Quiet, Spawn, SpawnWithArguments, CoTypeOK, timerVars
<1>3. ASSUME Return(c) PROVE Quiet
  BY <1>1, <1>3 DEF Quiet, Return, Leave, CoTypeOK, timerVars
<1>4. ASSUME NEW delay \in Delays, Sleep(c, delay) PROVE FallsAsleep(c)
  BY <1>1, <1>4 DEF FallsAsleep, Sleep, PrepareWait, Leave, CoTypeOK
<1>5. ASSUME NEW delay \in Delays, SleepWhileLinked(c, delay) PROVE FallsAsleep(c)
  BY <1>1, <1>5 DEF FallsAsleep, SleepWhileLinked, PrepareWait, CoTypeOK
<1> QED BY <1>2, <1>3, <1>4, <1>5 DEF CoStep, StepKinds

\* The second halves of connect and recv are quiet: the wait they begin is timed.
LEMMA ArmKinds ==
    ASSUME IInv, NEW c \in Co, UNCHANGED now, ConnectArm(c) \/ RecvArm(c) PROVE Quiet
<1> USE DEF IInv
<1>1. UNCHANGED <<evVars, vm, timedout>> /\ timeout[data[c]] \in Nat /\ fault = "none"
  BY DEF ConnectArm, RecvArm, OnTop, EventOK, SockTypeOK
<1>2. ASSUME event_add_timer(c, timeout[data[c]]), Leave(c, "yielded") PROVE Quiet
  <2>1. timedout' \in [Co -> BOOLEAN]
    BY <1>1 DEF TimerInv, TimerTypeOK, Co
  <2>2. tree' = tree \cup {c}
    BY <1>1, <1>2, <2>1, AddTimer
  <2> QED BY <1>1, <1>2, <2>2 DEF Quiet, Leave, CoTypeOK
<1>3. ASSUME UNCHANGED tree, co' = [co EXCEPT ![c] = "running"] PROVE Quiet
  BY <1>1, <1>3 DEF Quiet, CoTypeOK
<1> QED BY <1>2, <1>3 DEF ConnectArm, RecvArm

\* Every socket call is a step of the four kinds.
LEMMA SockKinds ==
    ASSUME IInv, NEW c \in Co, SockStep(c), UNCHANGED now PROVE StepKinds
<1> USE DEF IInv
<1>1. ASSUME NEW s \in Socks,
             \/ NewSocket(c, s)
             \/ \E t \in Timeouts : SetTimeout(c, s, t)
             \/ \E f \in Fds, closes \in BOOLEAN : ConnectFails(c, s, f, closes)
             \/ \E f \in Fds : ConnectImmediate(c, s, f)
             \/ RecvData(c, s)
             \/ Close(c, s)
      PROVE  Quiet
  BY <1>1 DEF Quiet, NewSocket, SetTimeout, ConnectFails, ConnectImmediate, RecvData, Close,
              timerVars, coVars, evVars, sockVars
<1>2. ASSUME NEW s \in Socks, NEW f \in Fds, ConnectStart(c, s, f) PROVE Claims(c, s)
  BY <1>2 DEF Claims, ConnectStart, CanUse, PrepareWait, CoTypeOK
<1>3. ASSUME NEW s \in Socks, RecvWait(c, s) PROVE Claims(c, s)
  BY <1>3 DEF Claims, RecvWait, CanUse, PrepareWait, CoTypeOK
<1> QED BY <1>1, <1>2, <1>3, ArmKinds DEF SockStep, StepKinds

\* Dispatching an event takes at most the timer of the coroutine it resumes.
LEMMA DispatchKinds ==
    ASSUME IInv, Owned, NEW e \in batch, Dispatch(e) PROVE StepKinds
<1> USE DEF IInv
<1> DEFINE c == e[3]
<1>1. c \in Co
  BY DEF LoopTypeOK
<1>2. UNCHANGED <<evVars, vm>> /\ CallHandler(c)
  BY DEF Dispatch
<1>3. CASE handler[c] = "NULL"
  <2>1. UNCHANGED <<timerVars, coVars>>
    BY <1>2, <1>3 DEF CallHandler
  <2> QED BY <1>2, <2>1 DEF StepKinds, Quiet, timerVars, coVars
<1>4. CASE handler[c] = "timer"
  <2>1. Resume(c, "ok") /\ UNCHANGED timerVars
    BY <1>2, <1>4 DEF CallHandler, timer_handler
  <2> QED BY <1>1, <1>2, <2>1, ResumeEffect DEF StepKinds, Quiet, timerVars
<1>5. CASE handler[c] \in {"connect", "recv"}
  <2>1. vm[data[c]] = c
    BY <1>1, <1>5 DEF Owned
  <2>2. CASE timedout[c]
    <3>1. Resume(c, "timeout") /\ UNCHANGED timerVars
      BY <1>2, <1>5, <2>1, <2>2 DEF CallHandler, OnTimeout
    <3> QED BY <1>1, <1>2, <3>1, ResumeEffect DEF StepKinds, Quiet, timerVars
  <2>3. CASE ~timedout[c]
    <3>1. /\ event_del_timer(c)
          /\ IF handler[c] = "connect" THEN connect_handler(data[c]) ELSE recv_handler(data[c])
      BY <1>2, <1>5, <2>3 DEF CallHandler
    <3>2. \/ handler[c] = "connect" /\ SoError(data[c]) /\ Abandon(c)
          \/ \E r \in Results : Resume(c, r)
      BY <2>1, <3>1 DEF connect_handler, recv_handler, RecvResult, Results
    <3>3. tree' = tree \ {c}
      BY <3>1 DEF event_del_timer
    <3>4. Fires(c)
      BY <1>1, <1>2, <3>2, <3>3, ResumeEffect, AbandonEffect DEF Fires
    <3> QED BY <1>1, <3>4 DEF StepKinds
  <2> QED BY <2>2, <2>3
<1> QED BY <1>1, <1>3, <1>4, <1>5 DEF CoTypeOK

\* Expiring a timer resumes the coroutine whose timer it is.
LEMMA ExpireKinds ==
    ASSUME IInv, Owned, NEW c \in Co, ExpireOne(c) PROVE Fires(c)
<1> USE DEF IInv
<1>1. UNCHANGED <<evVars, vm>> /\ tree' = tree \ {c} /\ c \in tree
  BY DEF ExpireOne, Expire, event_del_timer, IsMin
<1>2. \E r \in Results : Resume(c, r)
  <2>1. CASE handler[c] = "timer"
    BY <2>1 DEF ExpireOne, timer_handler, Results
  <2>2. CASE handler[c] # "timer"
    <3>1. vm[data[c]] = c
      BY <1>1, <2>2 DEF Owned, EventOK, CoTypeOK
    <3> QED BY <2>2, <3>1 DEF ExpireOne, OnTimeout, Results
  <2> QED BY <2>1, <2>2
<1> QED BY <1>1, <1>2, ResumeEffect DEF Fires

\* Every step is of one of the four kinds.
LEMMA NextKinds == ASSUME IInv, Owned, [Next]_vars PROVE StepKinds
<1> USE DEF IInv
<1>1. ASSUME UNCHANGED appVars PROVE Quiet
  BY <1>1 DEF Quiet, appVars, sockVars, coVars, timerVars
<1>2. ASSUME NEW c \in Co, Api(c) PROVE StepKinds
  BY <1>2, CoKinds, SockKinds DEF Api
<1>3. ASSUME NEW kind, SockFault(kind) PROVE Quiet
  BY <1>3 DEF SockFault, Quiet, sockVars, coVars, timerVars
<1>4. ASSUME Collector PROVE Quiet
  BY <1>3, <1>4 DEF Collector, Gc, CloseWithoutContext, Quiet, coVars, timerVars
<1>5. ASSUME Loop PROVE StepKinds
  BY <1>1, <1>3, <1>5, DispatchKinds, ExpireKinds
  DEF Loop, LoopExit, EpollWait, DispatchFault, BeginExpire, ExpireFault, EndExpire, EndIteration, StepKinds
<1>6. ASSUME Network \/ Tick \/ Stopped \/ UNCHANGED vars PROVE Quiet
  BY <1>1, <1>6 DEF Network, Tick, Stopped, vars
<1> QED BY <1>2, <1>4, <1>5, <1>6 DEF Next, StepKinds

-----------------------------------------------------------------------------
\* With exclusive sockets, every kind of step keeps vm and ev->data in agreement.
LEMMA OwnedStep ==
    ASSUME Exclusive, IInv, Owned, StepKinds PROVE Owned'
<1> USE DEF IInv
<1>1. ASSUME UNCHANGED <<evVars, vm>> PROVE Owned'
  BY <1>1 DEF Owned, evVars
<1>2. ASSUME NEW c \in Co, FallsAsleep(c) PROVE Owned'
  BY <1>2 DEF Owned, FallsAsleep
<1>3. ASSUME NEW c \in Co, NEW s \in Socks, Claims(c, s) PROVE Owned'
  <2> SUFFICES ASSUME NEW d \in Co, handler'[d] \in {"connect", "recv"}
               PROVE  d \in Holders[data'[d]] /\ vm'[data'[d]] = d
    BY DEF Owned
  <2>1. CASE d = c
    BY <1>3, <2>1 DEF Claims, SockTypeOK
  <2>2. CASE d # c
    <3>1. d \in Holders[data[d]] /\ vm[data[d]] = d /\ data'[d] = data[d]
      BY <1>3, <2>2 DEF Claims, Owned
    <3>2. data[d] # s
      BY <1>3, <2>2, <3>1 DEF Claims, Exclusive
    <3> QED BY <1>3, <3>1, <3>2 DEF Claims, SockTypeOK
  <2> QED BY <2>1, <2>2
<1> QED BY <1>1, <1>2, <1>3 DEF StepKinds, Quiet, Fires

\* Every kind of step keeps the waits timed.
LEMMA TimedStep == ASSUME IInv, WaitIsTimed, [Next]_vars, StepKinds PROVE WaitIsTimed'
<1>0. \A d \in Co : co[d] = "yielded" /\ res[d] = "failed" /\ co'[d] = "yielded" => res'[d] = "failed"
  BY FailedStays
<1>1. ASSUME Quiet PROVE WaitIsTimed'
  BY <1>0, <1>1 DEF WaitIsTimed, Quiet, evVars
<1>2. ASSUME NEW c \in Co, FallsAsleep(c) PROVE WaitIsTimed'
  BY <1>0, <1>2 DEF WaitIsTimed, FallsAsleep
<1>3. ASSUME NEW c \in Co, NEW s \in Socks, Claims(c, s) PROVE WaitIsTimed'
  BY <1>0, <1>3 DEF WaitIsTimed, Claims
<1>4. ASSUME NEW c \in Co, Fires(c) PROVE WaitIsTimed'
  BY <1>0, <1>4 DEF WaitIsTimed, Fires, evVars
<1> QED BY <1>1, <1>2, <1>3, <1>4 DEF StepKinds

\* With exclusive sockets, agreement and timed waits hold in every reachable state.
LEMMA OwnershipInvariance == Exclusive => (Spec => [](IInv /\ Owned /\ WaitIsTimed))
<1> SUFFICES ASSUME Exclusive PROVE Spec => [](IInv /\ Owned /\ WaitIsTimed)
  OBVIOUS
<1>1. Init => IInv /\ Owned /\ WaitIsTimed
  BY InitOK DEF Init, CoInit, Owned, WaitIsTimed
<1>2. IInv /\ Owned /\ WaitIsTimed /\ [Next]_vars => (IInv /\ Owned /\ WaitIsTimed)'
  BY NextOK, NextKinds, OwnedStep, TimedStep
<1> QED BY <1>1, <1>2, PTL DEF Spec

(***************************************************************************)
(* With exclusive sockets, every wait has an armed timer, whatever stale   *)
(* events, failures of other calls and garbage collections come in         *)
(* between, but for a connect whose handler has found it failed.           *)
(***************************************************************************)
THEOREM WaitsAreTimed == Exclusive => (Spec => []WaitIsTimed)
<1> SUFFICES ASSUME Exclusive PROVE Spec => []WaitIsTimed
  OBVIOUS
<1> QED BY OwnershipInvariance, PTL

\* Inside connect or recv the coroutine is the one that runs, and from there
\* to its resume the object is not collected.
LiveOK ==
    \A c \in Co :
        /\ co[c] \in {"conn_arm", "recv_arm"} => stack # <<>> /\ stack[Len(stack)] = c
        /\ co[c] \in {"conn_arm", "recv_arm", "yielded"} /\ handler[c] \in {"connect", "recv"} =>
               obj[data[c]] = "live"

\* Every step keeps LiveOK.
LEMMA LiveStep == ASSUME IInv, LiveOK, [Next]_vars PROVE LiveOK'
<1> USE DEF IInv
<1> DEFINE Arm == {"conn_arm", "recv_arm"}
<1>1. ASSUME UNCHANGED <<co, stack, evVars>>, obj' = obj \/ \E s \in Socks : obj' = [obj EXCEPT ![s] = "live"]
      PROVE  LiveOK'
  BY <1>1 DEF LiveOK, evVars, SockTypeOK, EventOK
<1>2. ASSUME \A c \in Co : co'[c] \notin Arm,
             \A c \in Co : co'[c] = "yielded" /\ handler'[c] \in {"connect", "recv"} =>
                 co[c] \in Arm \cup {"yielded"} /\ handler'[c] = handler[c] /\ data'[c] = data[c],
             UNCHANGED obj
      PROVE  LiveOK'
  BY <1>2 DEF LiveOK
<1>3. ASSUME NEW c \in Co, Runs(c) PROVE \A d \in Co : co[d] \notin Arm
  BY <1>3 DEF LiveOK, Runs, OnTop
<1>4. ASSUME NEW c \in Co, CoStep(c), UNCHANGED obj PROVE LiveOK'
  <2>1. Runs(c) /\ \A d \in Co : co[d] \notin Arm
    BY <1>3, <1>4 DEF CoStep, Spawn, SpawnWithArguments, Return, Sleep, SleepWhileLinked
  <2>2. ASSUME NEW d \in Co, Spawn(c, d) \/ SpawnWithArguments(c, d) PROVE LiveOK'
    BY <1>2, <1>4, <2>1, <2>2 DEF Spawn, SpawnWithArguments, CoTypeOK, evVars
  <2>3. CASE Return(c)
    BY <1>2, <1>4, <2>1, <2>3 DEF Return, Leave, CoTypeOK, evVars
  <2>4. ASSUME NEW delay \in Delays, Sleep(c, delay) PROVE LiveOK'
    BY <1>2, <1>4, <2>1, <2>4 DEF Sleep, PrepareWait, Leave, CoTypeOK
  <2>5. ASSUME NEW delay \in Delays, SleepWhileLinked(c, delay) PROVE LiveOK'
    BY <1>2, <1>4, <2>1, <2>5 DEF SleepWhileLinked, PrepareWait, Runs, OnTop, CoTypeOK
  <2> QED BY <1>4, <2>2, <2>3, <2>4, <2>5 DEF CoStep
<1>5. ASSUME NEW c \in Co, SockStep(c) PROVE LiveOK'
  <2>1. ASSUME NEW s \in Socks, RecvWait(c, s) \/ \E f \in Fds : ConnectStart(c, s, f) PROVE LiveOK'
    <3>1. /\ Runs(c) /\ obj[s] = "live" /\ UNCHANGED <<obj, stack>>
          /\ \A d \in Co \ {c} : co'[d] = co[d] /\ handler'[d] = handler[d] /\ data'[d] = data[d]
          /\ data'[c] = s
      BY <2>1 DEF RecvWait, ConnectStart, PrepareWait, CanUse, CoTypeOK
    <3> QED BY <1>3, <3>1 DEF LiveOK, Runs, OnTop
  <2>2. CASE ConnectArm(c) \/ RecvArm(c)
    <3>1. /\ co[c] \in Arm /\ stack[Len(stack)] = c /\ UNCHANGED <<evVars, obj>>
          /\ co' = [co EXCEPT ![c] = "yielded"] \/ co' = [co EXCEPT ![c] = "running"]
      BY <2>2 DEF ConnectArm, RecvArm, OnTop, Leave
    <3>2. \A d \in Co \ {c} : co[d] \notin Arm
      BY <3>1 DEF LiveOK
    <3>3. /\ co'[c] \notin Arm
          /\ \A d \in Co \ {c} : co'[d] = co[d]
      BY <3>1 DEF CoTypeOK
    <3>4. UNCHANGED <<handler, data, obj>>
      BY <3>1 DEF evVars
    <3>5. \A d \in Co : co'[d] \notin Arm
      BY <3>2, <3>3
    <3>6. ASSUME NEW d \in Co, co'[d] = "yielded"
          PROVE  co[d] \in Arm \cup {"yielded"}
      BY <3>1, <3>3, <3>6
    <3>7. \A d \in Co : handler'[d] = handler[d] /\ data'[d] = data[d]
      BY <3>4
    <3> HIDE DEF Arm
    <3> QED BY <1>2, <3>4, <3>5, <3>6, <3>7
  <2>3. ASSUME NEW s \in Socks,
               \/ NewSocket(c, s) \/ RecvData(c, s) \/ Close(c, s)
               \/ \E t \in Timeouts : SetTimeout(c, s, t)
               \/ \E f \in Fds : ConnectImmediate(c, s, f) \/ \E closes \in BOOLEAN : ConnectFails(c, s, f, closes)
        PROVE  LiveOK'
    <3>1. UNCHANGED <<co, stack, evVars>> /\ (obj' = obj \/ obj' = [obj EXCEPT ![s] = "live"])
      BY <2>3 DEF NewSocket, SetTimeout, ConnectFails, ConnectImmediate, RecvData, Close, coVars, sockVars
    <3> QED BY <1>1, <3>1
  <2>4. \/ \E s \in Socks :
             \/ RecvWait(c, s) \/ \E f \in Fds : ConnectStart(c, s, f)
             \/ NewSocket(c, s) \/ RecvData(c, s) \/ Close(c, s)
             \/ \E t \in Timeouts : SetTimeout(c, s, t)
             \/ \E f \in Fds : ConnectImmediate(c, s, f) \/ \E closes \in BOOLEAN : ConnectFails(c, s, f, closes)
        \/ ConnectArm(c) \/ RecvArm(c)
    BY <1>5 DEF SockStep
  <2> QED BY <2>1, <2>2, <2>3, <2>4
<1>6. ASSUME stack = <<>>, UNCHANGED <<evVars, obj>>, UNCHANGED co \/ \E c \in Co : \E r : Resume(c, r)
      PROVE  LiveOK'
  <2>1. \A d \in Co : co[d] \notin Arm
    BY <1>6 DEF LiveOK
  <2>2. \A d \in Co : co'[d] = co[d] \/ co'[d] = "running"
    BY <1>6 DEF Resume, CoTypeOK, coVars
  <2> QED BY <1>2, <1>6, <2>1, <2>2 DEF evVars
<1>7. ASSUME NEW e \in batch, Dispatch(e) PROVE LiveOK'
  BY <1>6, <1>7, DispatchCases DEF Abandon, coVars
<1>8. ASSUME NEW c \in Co, ExpireOne(c) PROVE LiveOK'
  BY <1>6, <1>8, ExpireCases
<1>9. ASSUME NEW kind, SockFault(kind) PROVE LiveOK'
  BY <1>1, <1>9 DEF SockFault, coVars, sockVars
<1>10. ASSUME NEW s \in Socks, Gc(s) PROVE LiveOK'
  <2>1. /\ UNCHANGED <<co, stack, evVars>> /\ \A t \in Socks \ {s} : obj'[t] = obj[t]
        /\ (\E c \in Co : Runs(c)) /\ \A c \in Co : ~Waits(c, s)
    BY <1>10 DEF Gc, Collectable, coVars, SockTypeOK
  <2>2. \A d \in Co : co[d] \notin Arm
    BY <1>3, <2>1
  <2> QED BY <2>1, <2>2 DEF LiveOK, Waits, EventOK, evVars
<1>11. ASSUME UNCHANGED appVars PROVE LiveOK'
  BY <1>1, <1>11 DEF appVars, coVars, sockVars
<1>12. CASE Collector
  BY <1>9, <1>10, <1>12 DEF Collector, CloseWithoutContext
<1>13. CASE Loop
  BY <1>7, <1>8, <1>9, <1>11, <1>13
  DEF Loop, LoopExit, EpollWait, DispatchFault, BeginExpire, ExpireFault, EndExpire, EndIteration
<1>14. CASE Network \/ Tick \/ Stopped \/ UNCHANGED vars
  BY <1>11, <1>14 DEF Network, Tick, Stopped, vars
<1>15. ASSUME NEW c \in Co, Api(c) PROVE LiveOK'
  BY <1>4, <1>5, <1>15 DEF Api, sockVars
<1> QED BY <1>12, <1>13, <1>14, <1>15 DEF Next

(***************************************************************************)
(* With exclusive sockets, a handler called for a coroutine that waits     *)
(* finds its object alive and its timer linked, at any later moment and    *)
(* however old the event is: the collector spares an object from the first *)
(* half of the call to the resume, and the wait is timed all the while.    *)
(***************************************************************************)
THEOREM WaitsAreSafe == Exclusive => (Spec => []WaitIsSafe)
<1> SUFFICES ASSUME Exclusive PROVE Spec => []WaitIsSafe
  OBVIOUS
<1>1. Init => LiveOK
  BY DEF Init, CoInit, LiveOK
<1>2. IInv /\ LiveOK /\ [Next]_vars => LiveOK'
  BY LiveStep
<1>3. LiveOK /\ WaitIsTimed => WaitIsSafe
  BY DEF LiveOK, WaitIsTimed, WaitIsSafe, HandlerFault
<1> QED BY <1>1, <1>2, <1>3, OwnershipInvariance, PTL DEF Spec

(***************************************************************************)
(* With exclusive sockets, nobody takes the timer of a waiting coroutine   *)
(* without resuming it, but connect_handler after a failed connect.        *)
(***************************************************************************)
THEOREM TimerGoneResumes == Exclusive => (Spec => TimerGoneMeansResumed)
<1> SUFFICES ASSUME Exclusive PROVE Spec => TimerGoneMeansResumed
  OBVIOUS
<1> DEFINE Resumed == \A c \in Co : co[c] = "yielded" /\ c \in tree \ tree' =>
                co'[c] = "running" \/ (handler[c] = "connect" /\ SoError(data[c]))
<1>1. StepKinds => Resumed
  BY DEF StepKinds, Quiet, FallsAsleep, Claims, Fires
<1>2. IInv /\ Owned /\ [Next]_vars => [Resumed]_vars
  BY <1>1, NextKinds
<1> QED BY <1>2, OwnershipInvariance, PTL DEF Spec, TimerGoneMeansResumed

-----------------------------------------------------------------------------
(* Scripts without sockets. *)

\* No event is ever registered, and only suspended coroutines have a timer.
TimersInv ==
    /\ st = [f \in Fds |-> "free"]
    /\ ready = {} /\ batch = {}
    /\ fault = "none"
    /\ \A c \in tree : co[c] \in {"new", "yielded"}

\* Every step of a core without sockets keeps TimersInv.
LEMMA TimersStep ==
    ASSUME Socks = {}, IInv, TimersInv, [Next]_vars PROVE TimersInv'
<1> USE DEF IInv
<1>0. tree \subseteq Co
  BY DEF TimerInv, TimerTypeOK, Co
<1>1. \A c \in Co : handler[c] \in {"NULL", "timer"} /\ co[c] \notin {"conn_arm", "recv_arm"}
  BY DEF EventOK, CoTypeOK
<1>2. ASSUME UNCHANGED <<st, ready, batch, fault, tree, co>> PROVE TimersInv'
  BY <1>2 DEF TimersInv
<1>3. ASSUME NEW c \in Co, Api(c) PROVE TimersInv'
  <2>1. CoStep(c) /\ UNCHANGED <<st, ready, batch>>
    BY <1>1, <1>3 DEF Api, SockStep, ConnectArm, RecvArm, OnTop, netVars, epollVars, loopVars
  <2>2. co[c] = "running" /\ c \notin tree
    BY <2>1 DEF CoStep, Spawn, SpawnWithArguments, Return, Sleep, SleepWhileLinked, Runs, OnTop, TimersInv
  <2>3. ASSUME NEW d \in Co, Spawn(c, d) \/ SpawnWithArguments(c, d) PROVE TimersInv'
    BY <2>1, <2>3, <1>0 DEF Spawn, SpawnWithArguments, TimersInv, CoTypeOK, timerVars
  <2>4. CASE Return(c)
    BY <2>1, <2>2, <2>4 DEF Return, Leave, TimersInv, CoTypeOK, timerVars
  <2>5. ASSUME NEW delay \in Delays, Sleep(c, delay) PROVE TimersInv'
    BY <2>1, <2>2, <2>5 DEF Sleep, Leave, TimersInv, CoTypeOK
  <2>6. \A delay \in Delays : ~SleepWhileLinked(c, delay)
    BY <2>2 DEF SleepWhileLinked
  <2> QED BY <2>1, <2>3, <2>4, <2>5, <2>6 DEF CoStep
<1>4. ~Collector
  BY DEF Collector
<1>5. ASSUME NEW c \in Co, ExpireOne(c) PROVE TimersInv'
  <2>1. Resume(c, "ok") /\ tree' = tree \ {c} /\ UNCHANGED <<st, ready, batch, fault>>
    BY <1>1, <1>5 DEF ExpireOne, Expire, event_del_timer, IsMin, EventOK, timer_handler, epollVars, loopVars
  <2> QED BY <1>0, <2>1 DEF Resume, TimersInv, CoTypeOK, coVars
<1>6. ASSUME NEW c \in Co PROVE ~ExpireFault(c)
  BY <1>1 DEF ExpireFault, HandlerFault
<1>7. ASSUME NEW ok \in BOOLEAN, EpollWait(ok) PROVE TimersInv'
  BY <1>7 DEF EpollWait, TimersInv, appVars, coVars, timerVars
<1>8. CASE LoopExit \/ BeginExpire \/ EndExpire \/ EndIteration
  BY <1>2, <1>8 DEF LoopExit, BeginExpire, EndExpire, EndIteration, appVars, coVars, timerVars,
                    netVars, epollVars
<1>9. CASE Loop
  BY <1>5, <1>6, <1>7, <1>8, <1>9 DEF Loop, TimersInv
<1>10. ~Network
  BY DEF Network, StackStep, Established, Broken, DataArrives, FinArrives, WriteSpace, TimersInv
<1>11. CASE Tick \/ Stopped \/ UNCHANGED vars
  BY <1>2, <1>11 DEF Tick, Stopped, vars, appVars, coVars, timerVars, netVars, epollVars, loopVars
<1> QED BY <1>3, <1>4, <1>9, <1>10, <1>11 DEF Next

(***************************************************************************)
(* Scripts that only sleep and spawn never make the C code link a timer    *)
(* node twice: mtcp.sleep clears timer_set without looking, which is right *)
(* because a coroutine that runs has no armed timer.                       *)
(***************************************************************************)
THEOREM TimersNeverFault == Socks = {} => (Spec => [](fault = "none"))
<1> SUFFICES ASSUME Socks = {} PROVE Spec => [](fault = "none")
  OBVIOUS
<1>1. Init => TimersInv
  BY CoAssumption DEF Init, CoInit, StackInit, TimersInv
<1>2. IInv /\ TimersInv /\ [Next]_vars => TimersInv'
  BY TimersStep
<1>3. TimersInv => fault = "none"
  BY DEF TimersInv
<1> QED BY <1>1, <1>2, <1>3, Invariance, PTL DEF Spec

(***************************************************************************)
(* With exclusive sockets, and as long as the keys do not wrap, no sleep   *)
(* ends early but by an event of the batch that finds the coroutine        *)
(* asleep: the pass over the timers goes by a reading of the clock that is *)
(* not ahead, within the horizon keys compare as times, and the timeout of *)
(* a socket resumes nobody but the coroutine that waits on it.             *)
(***************************************************************************)
THEOREM SleepIsWhole == Exclusive /\ KeysFit => (Spec => SleepsItsTime)
<1> SUFFICES ASSUME Exclusive, KeysFit PROVE Spec => SleepsItsTime
  OBVIOUS
<1> DEFINE Whole == \A c \in Co : co[c] = "yielded" /\ handler[c] = "timer" /\ co'[c] = "running" =>
                 \/ msec_int(key[c], current_msec) <= 0
                 \/ \E e \in batch \ batch' : e[3] = c
<1>1. Init => ClockInv /\ KeysLow
  <2> SUFFICES ASSUME Init PROVE ClockInv /\ KeysLow
    OBVIOUS
  <2>1. ClockInv
    <3>1. now = 0 /\ count = 0 /\ phase = "wait" /\ End(count) \in Nat
      BY Ends DEF Init, CoInit
    <3> QED BY <3>1, LoopAssumption DEF ClockInv
  <2>2. KeysLow
    BY CoAssumption, KeyModAssumption DEF Init, CoInit, SockInit, KeysLow, Requests, Co
  <2> QED BY <2>1, <2>2
<1>2. IInv /\ ClockInv /\ KeysLow /\ [Next]_vars => ClockInv' /\ KeysLow'
  BY ClockStep, KeysStep
<1>3. ASSUME IInv, Owned, ClockInv, KeysLow, Next PROVE Whole
  <2> SUFFICES ASSUME NEW c \in Co, co[c] = "yielded", co'[c] = "running"
               PROVE  \/ msec_int(key[c], current_msec) <= 0
                      \/ \E e \in batch \ batch' : e[3] = c
    OBVIOUS
  <2>1. CoTypeOK
    BY <1>3 DEF IInv
  <2>2. \A d \in Co : \A r : Resume(d, r) => d = c
    BY <2>1, ResumeEffect
  <2>3. ASSUME NEW e \in batch, Dispatch(e) PROVE \E b \in batch \ batch' : b[3] = c
    <3> DEFINE d == e[3]
    <3>1. d \in Co /\ e \in batch \ batch'
      BY <1>3, <2>3, DispatchCases
    <3>2. handler[d] \in {"connect", "recv"} => vm[data[d]] = d
      BY <1>3, <3>1 DEF Owned
    <3>3. ~UNCHANGED co /\ \A b \in Co : ~Abandon(b)
      BY DEF Abandon
    <3>4. \E r : Resume(d, r)
      BY <1>3, <2>3, <3>1, <3>2, <3>3, DispatchCases DEF coVars
    <3> QED BY <2>2, <3>1, <3>4
  <2>4. ASSUME NEW d \in Co, ExpireOne(d) PROVE msec_int(key[c], current_msec) <= 0
    <3>1. d \in tree /\ phase = "expire" /\ IsDue(d, snap) /\ \E r : Resume(d, r)
      BY <1>3, <2>4, ExpireCases DEF Owned
    <3>2. c = d
      BY <2>2, <3>1
    <3>3. key[c] \in Nat /\ 2 * key[c] < KeyMod
      BY <1>3, <3>1, <3>2 DEF IInv, TimerInv, TimerTypeOK, KeysLow
    <3>4. snap \in Nat /\ 2 * snap < KeyMod /\ snap <= now
      BY <1>3, <3>1, ClockLow DEF IInv, LoopTypeOK, ClockInv
    <3>5. now \in Nat /\ 2 * now < KeyMod /\ current_msec = now
      BY <1>3, ClockLow
    <3>6. key[c] - snap <= 0
      BY <3>1, <3>2, <3>3, <3>4, MsecLow DEF IsDue
    <3> QED BY <3>3, <3>4, <3>5, <3>6, MsecLow
  <2> QED BY <1>3, <2>3, <2>4, WaitStep DEF SameSleep
<1>4. IInv /\ Owned /\ ClockInv /\ KeysLow /\ [Next]_vars => [Whole]_vars
  BY <1>3
<1> QED BY <1>1, <1>2, <1>4, OwnershipInvariance, PTL DEF Spec, SleepsItsTime

-----------------------------------------------------------------------------
(***************************************************************************)
(* The refinement of Scheduler.  Besides what is shown above it needs      *)
(* SchedOK: a wait that has begun has not timed out and has no result, and *)
(* a script that was never resumed has an armed timer.                     *)
(***************************************************************************)
SchedOK ==
    \A c \in Co :
        /\ co[c] = "none" => res[c] = "none"
        /\ co[c] \in {"conn_arm", "recv_arm"} => res[c] = "none" /\ ~timedout[c]
        /\ co[c] = "yielded" => ~timedout[c]
        /\ co[c] = "new" => c \in tree /\ handler[c] = "timer"

RInv == IInv /\ Owned /\ WaitIsTimed /\ OneStack /\ SchedOK

\* What a script sees of the last wait of c.
Seen(c) == IF co[c] = "running" THEN res[c] ELSE "none"

\* A step that the scheduler does not see.
Unseen ==
    /\ UNCHANGED stack
    /\ \A d \in Co :
         /\ d \in Suspended' <=> d \in Suspended
         /\ d \in Suspended => (d \in tree' <=> d \in tree) /\ handler'[d] = handler[d]
         /\ co'[d] = "dead" <=> co[d] = "dead"
         /\ Seen(d)' = Seen(d)

\* Everything the scheduler sees of coroutines other than c stays.
Others(c) ==
    \A d \in Co \ {c} :
        /\ co'[d] = co[d] /\ res'[d] = res[d] /\ handler'[d] = handler[d]
        /\ d \in tree' <=> d \in tree

\* A step that the scheduler does not see is a stutter of it.
LEMMA UnseenStutters == ASSUME Unseen PROVE UNCHANGED Sched!vars
<1>1. Suspended' = Suspended /\ (Suspended \cap tree)' = Suspended \cap tree
  BY DEF Unseen, Suspended
<1>2. [c \in Suspended \cap tree |-> handler[c]]' = [c \in Suspended \cap tree |-> handler[c]]
  BY <1>1 DEF Unseen, Suspended
<1>3. (Suspended \ tree)' = Suspended \ tree
  BY <1>1 DEF Unseen, Suspended
<1>4. {c \in Co : co[c] = "dead"}' = {c \in Co : co[c] = "dead"}
  BY DEF Unseen
<1>5. [c \in Co |-> IF co[c] = "running" THEN res[c] ELSE "none"]' =
      [c \in Co |-> IF co[c] = "running" THEN res[c] ELSE "none"]
  BY DEF Unseen, Seen
<1> QED BY <1>2, <1>3, <1>4, <1>5 DEF Unseen, Sched!vars

-----------------------------------------------------------------------------
(* The steps the scheduler sees. *)

\* What the last wait has returned changes only for c.
LEMMA SeenOthers ==
    ASSUME NEW c \in Co, Others(c)
    PROVE  [d \in Co |-> IF co[d] = "running" THEN res[d] ELSE "none"]' =
           [[d \in Co |-> IF co[d] = "running" THEN res[d] ELSE "none"] EXCEPT ![c] = Seen(c)']
BY DEF Others, Seen

\* A coroutine that leaves Lua code with an armed timer waits.
LEMMA SchedWait ==
    ASSUME NEW c \in Co, NEW h \in {"timer", "connect", "recv"}, Others(c),
           stack # <<>>, stack[Len(stack)] = c, stack' = SubSeq(stack, 1, Len(stack) - 1),
           InLua(co[c]), co'[c] = "yielded", c \in tree', handler'[c] = h
    PROVE  Sched!Next
<1>1. Seen(c)' = "none"
  BY DEF Seen
<1>2. (Suspended \cap tree)' = (Suspended \cap tree) \cup {c}
  BY DEF Suspended, Others
<1>3. [d \in Suspended \cap tree |-> handler[d]]' =
      [d \in (Suspended \cap tree) \cup {c} |->
          IF d = c THEN h ELSE [x \in Suspended \cap tree |-> handler[x]][d]]
  BY <1>2 DEF Others, Suspended
<1>4. (Suspended \ tree)' = Suspended \ tree
  BY DEF Suspended, Others, InLua
<1>5. {d \in Co : co[d] = "dead"}' = {d \in Co : co[d] = "dead"}
  BY DEF Others, InLua
<1>6. Sched!Wait(c, h)
  BY <1>1, <1>3, <1>4, <1>5, SeenOthers DEF Sched!Wait, Sched!Waiting, Sched!Top, Sched!Return
<1>7. h \in DOMAIN Sched!Answers
  BY DEF Sched!Answers
<1> QED BY <1>6, <1>7 DEF Sched!Next

\* A coroutine that leaves Lua code for ever has ended.
LEMMA SchedEnd ==
    ASSUME NEW c \in Co, Others(c),
           stack # <<>>, stack[Len(stack)] = c, stack' = SubSeq(stack, 1, Len(stack) - 1),
           InLua(co[c]), co'[c] = "dead"
    PROVE  Sched!Next
<1>1. Seen(c)' = "none"
  BY DEF Seen
<1>2. Suspended' = Suspended /\ c \notin Suspended
  BY DEF Suspended, Others, InLua
<1>3. [d \in Suspended \cap tree |-> handler[d]]' = [d \in Suspended \cap tree |-> handler[d]]
  <2>1. (Suspended \cap tree)' = Suspended \cap tree
    BY <1>2 DEF Suspended, Others
  <2> QED BY <1>2, <2>1 DEF Others, Suspended
<1>4. (Suspended \ tree)' = Suspended \ tree
  BY <1>2 DEF Suspended, Others
<1>5. {d \in Co : co[d] = "dead"}' = {d \in Co : co[d] = "dead"} \cup {c}
  BY DEF Others
<1>6. Sched!End(c)
  BY <1>1, <1>3, <1>4, <1>5, SeenOthers DEF Sched!End, Sched!Top, Sched!Return
<1> QED BY <1>6 DEF Sched!Next

\* A coroutine that waits is continued by the loop with an answer to its call.
LEMMA SchedContinue ==
    ASSUME NEW c \in Co, NEW r, Others(c),
           \/ handler[c] = "timer" /\ r = "ok"
           \/ handler[c] = "connect" /\ r \in {"ok", "timeout"}
           \/ handler[c] = "recv" /\ r \in {"data", "closed", "failed", "timeout"},
           stack = <<>>, stack' = Append(stack, c), c \in Suspended, c \in tree,
           co'[c] = "running", res'[c] = r
    PROVE  Sched!Next
<1>1. Seen(c)' = r
  BY DEF Seen
<1>2. (Suspended \cap tree)' = (Suspended \cap tree) \ {c}
  BY DEF Suspended, Others
<1>3. [d \in Suspended \cap tree |-> handler[d]]' =
      [d \in (Suspended \cap tree) \ {c} |-> [x \in Suspended \cap tree |-> handler[x]][d]]
  BY <1>2 DEF Others, Suspended
<1>4. (Suspended \ tree)' = Suspended \ tree
  BY DEF Suspended, Others
<1>5. {d \in Co : co[d] = "dead"}' = {d \in Co : co[d] = "dead"}
  BY DEF Others, Suspended
<1>6. stack' = <<c>>
  OBVIOUS
<1>7. r \in Sched!Answers[[x \in Suspended \cap tree |-> handler[x]][c]]
  BY DEF Sched!Answers
<1>8. Sched!Continue(c, r)
  BY <1>1, <1>3, <1>4, <1>5, <1>6, <1>7, SeenOthers DEF Sched!Continue, Sched!Waiting, Sched!Without
<1>9. r \in {"ok", "timeout", "data", "closed", "failed"}
  OBVIOUS
<1> QED BY <1>8, <1>9 DEF Sched!Next

\* A coroutine whose connect has failed is lost.
LEMMA SchedLose ==
    ASSUME NEW c \in Co, stack = <<>>, UNCHANGED <<co, stack, evVars>>,
           \A d \in Co : co[d] = "running" => res'[d] = res[d],
           c \in Suspended, c \in tree, handler[c] = "connect", tree' = tree \ {c}
    PROVE  Sched!Next
<1>1. Suspended' = Suspended /\ UNCHANGED <<co, stack, handler>>
  BY DEF Suspended, evVars
<1>2. [d \in Suspended \cap tree |-> handler[d]]' =
      [d \in (Suspended \cap tree) \ {c} |-> [x \in Suspended \cap tree |-> handler[x]][d]]
  <2>1. (Suspended \cap tree)' = (Suspended \cap tree) \ {c}
    BY <1>1
  <2> QED BY <1>1, <2>1
<1>3. (Suspended \ tree)' = (Suspended \ tree) \cup {c}
  BY <1>1
<1>5. [d \in Co |-> IF co[d] = "running" THEN res[d] ELSE "none"]' =
      [d \in Co |-> IF co[d] = "running" THEN res[d] ELSE "none"]
  OBVIOUS
<1>4. Sched!Lose(c)
  BY <1>1, <1>2, <1>3, <1>5 DEF Sched!Lose, Sched!Waiting, Sched!Without
<1> QED BY <1>4 DEF Sched!Next

\* A call that may wait drops the previous result.
LEMMA SchedEnter ==
    ASSUME NEW c \in Co, Others(c), UNCHANGED <<stack, tree>>,
           stack # <<>>, stack[Len(stack)] = c, InLua(co[c]), InLua(co'[c]), Seen(c)' = "none"
    PROVE  Sched!Next
<1>1. Suspended' = Suspended /\ c \notin Suspended
  BY DEF Suspended, Others, InLua
<1>2. [d \in Suspended \cap tree |-> handler[d]]' = [d \in Suspended \cap tree |-> handler[d]]
  BY <1>1 DEF Others, Suspended
<1>3. {d \in Co : co[d] = "dead"}' = {d \in Co : co[d] = "dead"}
  BY DEF Others, InLua
<1>4. Sched!Enter(c)
  BY <1>1, <1>2, <1>3, SeenOthers DEF Sched!Enter, Sched!Top
<1> QED BY <1>4 DEF Sched!Next

\* A coroutine that spawn has made runs inside its caller, or ends at once.
LEMMA SchedSpawn ==
    ASSUME IInv, OneStack, SchedOK, NEW d \in Co, stack # <<>>, co[d] = "none",
           UNCHANGED <<tree, handler, res>>,
           \/ co' = [co EXCEPT ![d] = "running"] /\ stack' = Append(stack, d)
           \/ co' = [co EXCEPT ![d] = "dead"] /\ stack' = stack
    PROVE  Sched!Next
<1>1. Suspended' = Suspended /\ d \notin Suspended
  BY DEF Suspended, IInv, CoTypeOK
<1>2. \A n \in 1 .. Len(stack) : stack[n] # d
  BY DEF OneStack, Running, InLua
<1>3. Sched!Fresh(d)
  BY <1>1, <1>2 DEF Sched!Fresh, Sched!Waiting
<1>4. [c \in Co |-> IF co[c] = "running" THEN res[c] ELSE "none"]' =
      [c \in Co |-> IF co[c] = "running" THEN res[c] ELSE "none"]
  BY DEF SchedOK, IInv, CoTypeOK
<1>5. CASE co' = [co EXCEPT ![d] = "running"] /\ stack' = Append(stack, d)
  <2>1. {c \in Co : co[c] = "dead"}' = {c \in Co : co[c] = "dead"}
    BY <1>5 DEF IInv, CoTypeOK
  <2>2. Sched!Spawn(d)
    BY <1>1, <1>3, <1>4, <1>5, <2>1 DEF Sched!Spawn
  <2> QED BY <2>2 DEF Sched!Next
<1>6. CASE co' = [co EXCEPT ![d] = "dead"] /\ stack' = stack
  <2>1. {c \in Co : co[c] = "dead"}' = {c \in Co : co[c] = "dead"} \cup {d}
    BY <1>6 DEF IInv, CoTypeOK
  <2>2. Sched!SpawnFails(d)
    BY <1>1, <1>3, <1>4, <1>6, <2>1 DEF Sched!SpawnFails
  <2> QED BY <2>2 DEF Sched!Next
<1> QED BY <1>5, <1>6

-----------------------------------------------------------------------------
(* Every step of a core is a step of the scheduler, or unseen. *)

SchedStep == Unseen \/ Sched!Next

\* A resume by the loop, whose answer fits the wait, continues c if c waits.
LEMMA ResumeSched ==
    ASSUME CoTypeOK, NEW c \in Co, NEW r, Resume(c, r), stack = <<>>, UNCHANGED evVars,
           c \in Suspended => c \in tree,
           \A d \in Co \ {c} : d \in tree' <=> d \in tree,
           \/ handler[c] = "timer" /\ r = "ok"
           \/ handler[c] = "connect" /\ r \in {"ok", "timeout"}
           \/ handler[c] = "recv" /\ r \in {"data", "closed", "failed", "timeout"}
    PROVE  SchedStep
<1>1. CASE c \in Suspended
  <2>1. /\ co' = [co EXCEPT ![c] = "running"]
        /\ stack' = Append(stack, c)
        /\ res' = [res EXCEPT ![c] = r]
    BY <1>1 DEF Resume, Suspended
  <2>2. Others(c) /\ co'[c] = "running" /\ res'[c] = r
    BY <2>1 DEF Others, CoTypeOK, evVars
  <2> QED BY <1>1, <2>1, <2>2, SchedContinue DEF SchedStep
<1>2. CASE c \notin Suspended
  <2>1. UNCHANGED coVars
    BY <1>2 DEF Resume, Suspended
  <2> QED BY <1>2, <2>1 DEF SchedStep, Unseen, Suspended, Seen, coVars, evVars
<1> QED BY <1>1, <1>2

\* spawn, return and sleep.
LEMMA CoSched ==
    ASSUME RInv, NEW c \in Co, CoStep(c) PROVE SchedStep
<1> USE DEF RInv, IInv
<1>1. ASSUME NEW d \in Co, Spawn(c, d) \/ SpawnWithArguments(c, d) PROVE Sched!Next
  <2>1. /\ stack # <<>> /\ co[d] = "none" /\ UNCHANGED <<tree, handler, res>>
        /\ \/ co' = [co EXCEPT ![d] = "running"] /\ stack' = Append(stack, d)
           \/ co' = [co EXCEPT ![d] = "dead"] /\ stack' = stack
    BY <1>1 DEF Spawn, SpawnWithArguments, Runs, OnTop, timerVars, evVars
  <2> QED BY <2>1, SchedSpawn
<1>2. ASSUME Return(c) PROVE Sched!Next
  <2>1. Others(c) /\ InLua(co[c]) /\ co'[c] = "dead"
    BY <1>2 DEF Return, Leave, Runs, OnTop, Others, InLua, CoTypeOK, timerVars, evVars
  <2> QED BY <1>2, <2>1, SchedEnd DEF Return, Leave, Runs, OnTop
<1>3. ASSUME NEW delay \in Delays, Sleep(c, delay) PROVE Sched!Next
  <2>1. /\ Others(c) /\ InLua(co[c]) /\ co'[c] = "yielded" /\ handler'[c] = "timer" /\ c \in tree'
    BY <1>3 DEF Sleep, PrepareWait, Leave, Runs, OnTop, Others, InLua, CoTypeOK
  <2> QED BY <1>3, <2>1, SchedWait DEF Sleep, Leave, Runs, OnTop
<1>4. ASSUME NEW delay \in Delays, SleepWhileLinked(c, delay) PROVE Sched!Next
  <2>1. Others(c) /\ InLua(co[c]) /\ UNCHANGED <<stack, tree, co>> /\ Seen(c)' = "none"
    BY <1>4 DEF SleepWhileLinked, PrepareWait, Runs, OnTop, Others, InLua, Seen, CoTypeOK
  <2> QED BY <1>4, <2>1, SchedEnter DEF SleepWhileLinked, Runs, OnTop
<1> QED BY <1>1, <1>2, <1>3, <1>4 DEF CoStep, SchedStep

\* The first halves of connect and recv.
LEMMA BeginSched ==
    ASSUME RInv, NEW c \in Co, NEW s \in Socks,
           (\E f \in Fds : ConnectStart(c, s, f)) \/ RecvWait(c, s)
    PROVE  Sched!Next
<1> USE DEF RInv, IInv
<1>1. /\ Runs(c) /\ UNCHANGED <<stack, tree>>
      /\ co' = [co EXCEPT ![c] = "conn_arm"] \/ co' = [co EXCEPT ![c] = "recv_arm"]
      /\ PrepareWait(c, "connect", s) \/ PrepareWait(c, "recv", s)
  BY DEF ConnectStart, RecvWait, CanUse
<1>2. Others(c) /\ InLua(co[c]) /\ InLua(co'[c]) /\ Seen(c)' = "none"
  BY <1>1 DEF PrepareWait, Runs, OnTop, Others, InLua, Seen, CoTypeOK
<1> QED BY <1>1, <1>2, SchedEnter DEF Runs, OnTop

\* The second halves.
LEMMA ArmSched ==
    ASSUME RInv, NEW c \in Co, UNCHANGED now, ConnectArm(c) \/ RecvArm(c) PROVE SchedStep
<1> USE DEF RInv, IInv
<1>1. /\ UNCHANGED <<evVars, res, timedout>> /\ timeout[data[c]] \in Nat /\ fault = "none"
      /\ handler[c] \in {"connect", "recv"} /\ res[c] = "none" /\ InLua(co[c])
      /\ stack # <<>> /\ stack[Len(stack)] = c
  BY DEF ConnectArm, RecvArm, OnTop, EventOK, SockTypeOK, SchedOK, InLua
<1>2. ASSUME event_add_timer(c, timeout[data[c]]), Leave(c, "yielded") PROVE Sched!Next
  <2>1. timedout' \in [Co -> BOOLEAN]
    BY <1>1 DEF TimerInv, TimerTypeOK, Co
  <2>2. tree' = tree \cup {c}
    BY <1>1, <1>2, <2>1, AddTimer
  <2>3. Others(c) /\ co'[c] = "yielded" /\ c \in tree' /\ handler'[c] = handler[c]
    BY <1>1, <1>2, <2>2 DEF Others, Leave, CoTypeOK, evVars
  <2> QED BY <1>1, <1>2, <2>3, SchedWait DEF Leave
<1>3. ASSUME UNCHANGED <<tree, stack>>, co' = [co EXCEPT ![c] = "running"] PROVE Unseen
  BY <1>1, <1>3 DEF Unseen, Suspended, Seen, InLua, CoTypeOK, evVars
<1> QED BY <1>2, <1>3 DEF ConnectArm, RecvArm, SchedStep

\* An event of the batch continues the coroutine that waits, or loses it.
LEMMA DispatchSched ==
    ASSUME RInv, NEW e \in batch, Dispatch(e) PROVE SchedStep
<1> USE DEF RInv, IInv
<1> DEFINE c == e[3]
<1>1. c \in Co /\ stack = <<>> /\ CallHandler(c) /\ UNCHANGED evVars
  BY DEF LoopTypeOK, Dispatch, Idle
<1>2. CASE handler[c] = "NULL"
  <2>1. UNCHANGED <<timerVars, coVars>>
    BY <1>1, <1>2 DEF CallHandler
  <2> QED BY <1>1, <2>1 DEF SchedStep, Unseen, Suspended, Seen, coVars, evVars, timerVars
<1>3. CASE handler[c] = "timer"
  <2>1. Resume(c, "ok") /\ UNCHANGED tree
    BY <1>1, <1>3 DEF CallHandler, timer_handler, timerVars
  <2>2. c \in Suspended => c \in tree
    BY <1>1, <1>3 DEF WaitIsTimed, SchedOK, Suspended
  <2> QED BY <1>1, <1>3, <2>1, <2>2, ResumeSched
<1>4. CASE handler[c] \in {"connect", "recv"}
  <2>1. vm[data[c]] = c
    BY <1>1, <1>4 DEF Owned
  <2>2. CASE timedout[c]
    <3>1. Resume(c, "timeout") /\ UNCHANGED tree
      BY <1>1, <1>4, <2>1, <2>2 DEF CallHandler, OnTimeout, timerVars
    <3>2. c \notin Suspended
      BY <1>1, <1>4, <2>2 DEF SchedOK, Suspended
    <3> QED BY <1>1, <1>4, <3>1, <3>2, ResumeSched
  <2>3. CASE ~timedout[c]
    <3>1. /\ event_del_timer(c)
          /\ IF handler[c] = "connect" THEN connect_handler(data[c]) ELSE recv_handler(data[c])
      BY <1>1, <1>4, <2>3 DEF CallHandler
    <3>2. c \in tree /\ tree' = tree \ {c}
      BY <1>4, <2>3, <3>1 DEF Dispatch, HandlerFault, event_del_timer
    <3>3. CASE handler[c] = "connect" /\ SoError(data[c])
      <4>1. /\ UNCHANGED <<co, stack>>
            /\ \A d \in Co : d # c \/ co[d] # "yielded" => res'[d] = res[d]
        BY <1>1, <2>1, <3>1, <3>3, AbandonEffect DEF connect_handler
      <4>2. CASE c \in Suspended
        BY <1>1, <3>2, <3>3, <4>1, <4>2, SchedLose DEF SchedStep
      <4>3. CASE c \notin Suspended
        BY <1>1, <3>2, <4>1, <4>3 DEF SchedStep, Unseen, Suspended, Seen, evVars
      <4> QED BY <4>2, <4>3
    <3>4. CASE handler[c] = "connect" /\ ~SoError(data[c])
      <4>1. Resume(c, "ok")
        BY <2>1, <3>1, <3>4 DEF connect_handler
      <4> QED BY <1>1, <3>2, <3>4, <4>1, ResumeSched
    <3>5. CASE handler[c] = "recv"
      <4>1. PICK r \in {"data", "closed", "failed"} : Resume(c, r)
        BY <2>1, <3>1, <3>5 DEF recv_handler, RecvResult
      <4> QED BY <1>1, <3>2, <3>5, <4>1, ResumeSched
    <3> QED BY <1>4, <3>3, <3>4, <3>5
  <2> QED BY <2>2, <2>3
<1> QED BY <1>1, <1>2, <1>3, <1>4 DEF CoTypeOK

\* A timer that has expired continues the coroutine that waits.
LEMMA ExpireSched ==
    ASSUME RInv, NEW c \in Co, ExpireOne(c) PROVE SchedStep
<1> USE DEF RInv, IInv
<1>1. stack = <<>> /\ UNCHANGED evVars /\ c \in tree /\ tree' = tree \ {c}
  BY DEF ExpireOne, Idle, Expire, event_del_timer, IsMin
<1>2. CASE handler[c] = "timer"
  <2>1. Resume(c, "ok")
    BY <1>2 DEF ExpireOne, timer_handler
  <2> QED BY <1>1, <1>2, <2>1, ResumeSched
<1>3. CASE handler[c] # "timer"
  <2>1. handler[c] \in {"connect", "recv"} /\ vm[data[c]] = c
    BY <1>1, <1>3 DEF EventOK, CoTypeOK, Owned
  <2>2. Resume(c, "timeout")
    BY <1>3, <2>1 DEF ExpireOne, OnTimeout
  <2> QED BY <1>1, <2>1, <2>2, ResumeSched
<1> QED BY <1>2, <1>3

\* Every step of a core.
LEMMA NextSched == ASSUME RInv, [Next]_vars PROVE SchedStep
<1> USE DEF RInv
<1>1. ASSUME UNCHANGED <<tree, coVars, evVars>> PROVE SchedStep
  BY <1>1 DEF SchedStep, Unseen, Suspended, Seen, coVars, evVars
<1>2. ASSUME UNCHANGED appVars PROVE SchedStep
  BY <1>1, <1>2 DEF appVars, timerVars
<1>3. ASSUME NEW kind, SockFault(kind) PROVE SchedStep
  BY <1>1, <1>3 DEF SockFault, timerVars
<1>4. ASSUME NEW c \in Co, SockStep(c), UNCHANGED now PROVE SchedStep
  <2>1. ASSUME NEW s \in Socks,
               \/ NewSocket(c, s)
               \/ \E t \in Timeouts : SetTimeout(c, s, t)
               \/ \E f \in Fds, closes \in BOOLEAN : ConnectFails(c, s, f, closes)
               \/ \E f \in Fds : ConnectImmediate(c, s, f)
               \/ RecvData(c, s)
               \/ Close(c, s)
        PROVE  SchedStep
    BY <1>1, <2>1
    DEF NewSocket, SetTimeout, ConnectFails, ConnectImmediate, RecvData, Close, timerVars
  <2> QED BY <1>4, <2>1, BeginSched, ArmSched DEF SockStep, SchedStep
<1>5. ASSUME NEW c \in Co, Api(c) PROVE SchedStep
  BY <1>4, <1>5, CoSched DEF Api
<1>6. ASSUME Collector PROVE SchedStep
  BY <1>1, <1>3, <1>6 DEF Collector, Gc, CloseWithoutContext, timerVars
<1>7. ASSUME Loop PROVE SchedStep
  BY <1>2, <1>3, <1>7, DispatchSched, ExpireSched
  DEF Loop, LoopExit, EpollWait, DispatchFault, BeginExpire, ExpireFault, EndExpire, EndIteration
<1>8. ASSUME Network \/ Tick \/ Stopped \/ UNCHANGED vars PROVE SchedStep
  BY <1>2, <1>8 DEF Network, Tick, Stopped, vars
<1> QED BY <1>5, <1>6, <1>7, <1>8 DEF Next

-----------------------------------------------------------------------------
(* SchedOK is kept. *)

\* A resume keeps SchedOK if it takes no timer of a script that was never resumed.
LEMMA ResumeOK ==
    ASSUME CoTypeOK, SchedOK, NEW c \in Co, NEW r, Resume(c, r), UNCHANGED <<timedout, evVars>>,
           \A d \in Co : co[d] = "new" /\ d # c => d \in tree'
    PROVE  SchedOK' \/ (co[c] = "new" /\ c \notin tree')
BY DEF Resume, CoTypeOK, SchedOK, coVars, evVars

\* spawn, return, sleep and the calls of a socket.
LEMMA ApiOK == ASSUME RInv, NEW c \in Co, Api(c) PROVE SchedOK'
<1> USE DEF RInv, IInv
<1>1. ASSUME UNCHANGED <<timerVars, coVars, evVars>> PROVE SchedOK'
  BY <1>1 DEF SchedOK, timerVars, coVars, evVars
<1>2. ASSUME NEW d \in Co, Spawn(c, d) \/ SpawnWithArguments(c, d) PROVE SchedOK'
  BY <1>2 DEF Spawn, SpawnWithArguments, SchedOK, CoTypeOK, timerVars, evVars
<1>3. ASSUME Return(c) PROVE SchedOK'
  BY <1>3 DEF Return, Leave, SchedOK, CoTypeOK, timerVars, evVars
<1>4. ASSUME NEW h, NEW d, PrepareWait(c, h, d), tree \subseteq tree',
             \/ co' = [co EXCEPT ![c] = "yielded"]
             \/ co' = [co EXCEPT ![c] = "conn_arm"]
             \/ co' = [co EXCEPT ![c] = "recv_arm"]
      PROVE  SchedOK'
  BY <1>4 DEF PrepareWait, SchedOK, CoTypeOK, TimerInv, TimerTypeOK, Co
<1>5. ASSUME NEW delay \in Delays, Sleep(c, delay) PROVE SchedOK'
  BY <1>4, <1>5 DEF Sleep, Leave
<1>6. ASSUME NEW s \in Socks, (\E f \in Fds : ConnectStart(c, s, f)) \/ RecvWait(c, s)
      PROVE  SchedOK'
  BY <1>4, <1>6 DEF ConnectStart, RecvWait
<1>7. ASSUME ConnectArm(c) \/ RecvArm(c) PROVE SchedOK'
  <2>1. /\ UNCHANGED <<res, timedout, evVars>> /\ co[c] \in {"conn_arm", "recv_arm"}
        /\ co' = [co EXCEPT ![c] = "yielded"] \/ co' = [co EXCEPT ![c] = "running"]
        /\ tree \subseteq tree'
    BY <1>7 DEF ConnectArm, RecvArm, OnTop, Leave, event_add_timer
  <2> QED BY <2>1 DEF SchedOK, CoTypeOK, evVars
<1>10. ASSUME NEW delay \in Delays, SleepWhileLinked(c, delay) PROVE SchedOK'
  BY <1>10 DEF SleepWhileLinked, PrepareWait, Runs, OnTop, SchedOK, CoTypeOK, TimerInv, TimerTypeOK, Co
<1>8. ASSUME CoStep(c) PROVE SchedOK'
  BY <1>2, <1>3, <1>5, <1>8, <1>10 DEF CoStep
<1>9. ASSUME SockStep(c) PROVE SchedOK'
  BY <1>1, <1>6, <1>7, <1>9
  DEF SockStep, NewSocket, SetTimeout, ConnectFails, ConnectImmediate, RecvData, Close
<1> QED BY <1>8, <1>9 DEF Api

\* An event of the batch.
LEMMA DispatchOK == ASSUME RInv, NEW e \in batch, Dispatch(e) PROVE SchedOK'
<1> USE DEF RInv, IInv
<1> DEFINE c == e[3]
<1>1. c \in Co /\ CallHandler(c) /\ UNCHANGED evVars
  BY DEF LoopTypeOK, Dispatch
<1>2. CASE handler[c] = "NULL"
  <2>1. UNCHANGED <<timerVars, coVars>>
    BY <1>1, <1>2 DEF CallHandler
  <2> QED BY <1>1, <2>1 DEF SchedOK, coVars, evVars, timerVars
<1>3. CASE handler[c] = "timer"
  <2>1. Resume(c, "ok") /\ UNCHANGED <<tree, timedout>>
    BY <1>1, <1>3 DEF CallHandler, timer_handler, timerVars
  <2> QED BY <1>1, <2>1, ResumeOK DEF SchedOK
<1>4. CASE handler[c] \in {"connect", "recv"}
  <2>1. vm[data[c]] = c /\ co[c] # "new"
    BY <1>1, <1>4 DEF Owned, SchedOK
  <2>2. /\ UNCHANGED timedout
        /\ tree \ {c} \subseteq tree'
        /\ Abandon(c) \/ UNCHANGED coVars \/ \E r : Resume(c, r)
    BY <1>1, <1>4, <2>1
    DEF CallHandler, OnTimeout, connect_handler, recv_handler, event_del_timer, timerVars
  <2>3. CASE UNCHANGED coVars
    BY <1>1, <2>1, <2>2, <2>3 DEF SchedOK, coVars, evVars
  <2>5. CASE Abandon(c)
    BY <1>1, <2>1, <2>2, <2>5, AbandonEffect DEF SchedOK, evVars
  <2>4. ASSUME NEW r, Resume(c, r) PROVE SchedOK'
    BY <1>1, <2>1, <2>2, <2>4, ResumeOK DEF SchedOK
  <2> QED BY <2>2, <2>3, <2>4, <2>5
<1> QED BY <1>1, <1>2, <1>3, <1>4 DEF CoTypeOK

\* A timer that has expired: whoever it belongs to does not wait any more.
LEMMA ExpireOK == ASSUME RInv, NEW c \in Co, ExpireOne(c) PROVE SchedOK'
<1> USE DEF RInv, IInv
<1>1. /\ UNCHANGED evVars /\ c \in tree /\ tree' = tree \ {c}
      /\ timedout' = [timedout EXCEPT ![c] = TRUE]
  BY DEF ExpireOne, Expire, event_del_timer, IsMin
<1>2. PICK r : Resume(c, r)
  <2>1. handler[c] # "timer" => vm[data[c]] = c
    BY <1>1 DEF EventOK, CoTypeOK, Owned
  <2> QED BY <2>1 DEF ExpireOne, timer_handler, OnTimeout
<1>3. co[c] \notin {"conn_arm", "recv_arm"}
  <2>1. stack = <<>>
    BY DEF ExpireOne, Idle
  <2>2. Running = {}
    BY <2>1 DEF OneStack
  <2> QED BY <2>2 DEF Running, InLua
<1>4. co'[c] \notin {"conn_arm", "recv_arm", "yielded", "new"}
  BY <1>2, <1>3 DEF Resume, CoTypeOK, coVars
<1>5. \A d \in Co \ {c} : co'[d] = co[d] /\ res'[d] = res[d]
  BY <1>2 DEF Resume, CoTypeOK, coVars
<1>6. co'[c] = "none" => co[c] = "none" /\ res'[c] = res[c]
  BY <1>2 DEF Resume, CoTypeOK, coVars
<1> QED BY <1>1, <1>4, <1>5, <1>6 DEF SchedOK, evVars, TimerInv, TimerTypeOK, Co

\* Every step keeps SchedOK.
LEMMA SchedOKStep == ASSUME RInv, [Next]_vars PROVE SchedOK'
<1>1. ASSUME UNCHANGED <<timerVars, coVars, evVars>> PROVE SchedOK'
  BY <1>1 DEF RInv, SchedOK, timerVars, coVars, evVars
<1>2. ASSUME UNCHANGED appVars PROVE SchedOK'
  BY <1>1, <1>2 DEF appVars
<1>3. ASSUME NEW kind, SockFault(kind) PROVE SchedOK'
  BY <1>1, <1>3 DEF SockFault
<1>4. ASSUME Collector PROVE SchedOK'
  BY <1>1, <1>3, <1>4 DEF Collector, Gc, CloseWithoutContext
<1>5. ASSUME Loop PROVE SchedOK'
  BY <1>2, <1>3, <1>5, DispatchOK, ExpireOK
  DEF Loop, LoopExit, EpollWait, DispatchFault, BeginExpire, ExpireFault, EndExpire, EndIteration
<1>6. ASSUME Network \/ Tick \/ Stopped \/ UNCHANGED vars PROVE SchedOK'
  BY <1>2, <1>6 DEF Network, Tick, Stopped, vars
<1> QED BY <1>4, <1>5, <1>6, ApiOK DEF Next

\* With exclusive sockets, RInv holds in every reachable state.
LEMMA RInvariance == Exclusive => (Spec => []RInv)
<1> SUFFICES ASSUME Exclusive PROVE Spec => []RInv
  OBVIOUS
<1>1. Init => SchedOK
  BY CoAssumption DEF Init, CoInit, SchedOK
<1>2. RInv /\ [Next]_vars => SchedOK'
  BY SchedOKStep
<1> QED BY <1>1, <1>2, OwnershipInvariance, ControlOnOneStack, PTL DEF Spec, RInv

(***************************************************************************)
(* With exclusive sockets, a coroutine is resumed with its timer out of    *)
(* the tree, be the event that resumes it stale or not, unless an event    *)
(* finds it asleep: for no number of coroutines, objects and ids is there  *)
(* another way to the second insertion by mtcp.sleep.                      *)
(***************************************************************************)
THEOREM ResumedHaveNoTimer == Exclusive => (Spec => ResumedUnlinked)
<1> SUFFICES ASSUME Exclusive PROVE Spec => ResumedUnlinked
  OBVIOUS
<1> DEFINE Unlinked == \A c \in Co : co[c] = "yielded" /\ co'[c] = "running" /\ c \in tree' =>
                    handler[c] = "timer" /\ \E e \in batch \ batch' : e[3] = c
<1>1. ASSUME RInv, Next PROVE Unlinked
  <2> USE DEF RInv
  <2> SUFFICES ASSUME NEW c \in Co, co[c] = "yielded", co'[c] = "running", c \in tree'
               PROVE  handler[c] = "timer" /\ \E e \in batch \ batch' : e[3] = c
    OBVIOUS
  <2>1. CoTypeOK /\ ~timedout[c]
    BY <1>1 DEF IInv, SchedOK
  <2>2. \A d \in Co : \A r : Resume(d, r) => d = c
    BY <2>1, ResumeEffect
  <2>3. \A d \in Co : Abandon(d) => UNCHANGED co
    BY DEF Abandon
  <2>4. ASSUME NEW e \in batch, Dispatch(e)
        PROVE  handler[c] = "timer" /\ \E b \in batch \ batch' : b[3] = c
    <3> DEFINE d == e[3]
    <3>1. d \in Co /\ e \in batch \ batch'
      BY <1>1, <2>4, DispatchCases
    <3>2. handler[d] \in {"connect", "recv"} => vm[data[d]] = d
      BY <1>1, <3>1 DEF Owned
    <3>3. ~UNCHANGED co
      OBVIOUS
    <3>4. handler[d] = "timer" /\ Resume(d, "ok")
      BY <1>1, <2>1, <2>2, <2>3, <2>4, <3>1, <3>2, <3>3, DispatchCases DEF coVars
    <3> QED BY <2>2, <3>1, <3>4
  <2>5. ASSUME NEW d \in Co, ExpireOne(d) PROVE FALSE
    <3>1. d \notin tree' /\ \E r : Resume(d, r)
      BY <1>1, <2>5, ExpireCases DEF Owned
    <3> QED BY <2>2, <3>1
  <2> QED BY <1>1, <2>4, <2>5, WaitStep DEF SameSleep
<1>2. RInv /\ [Next]_vars => [Unlinked]_vars
  BY <1>1
<1> QED BY <1>2, RInvariance, PTL DEF Spec, ResumedUnlinked

-----------------------------------------------------------------------------
\* A core starts as the scheduler does.
LEMMA InitSched == Init => Sched!Init
<1> SUFFICES ASSUME Init PROVE Sched!Init
  OBVIOUS
<1>1. Suspended = {Main} /\ tree = {Main} /\ handler[Main] = "timer"
  BY CoAssumption DEF Init, CoInit, Suspended
<1>2. [c \in Suspended \cap tree |-> handler[c]] = [c \in {Main} |-> "timer"]
  BY <1>1
<1>3. {c \in Co : co[c] = "dead"} = {}
  BY DEF Init, CoInit
<1>4. [c \in Co |-> IF co[c] = "running" THEN res[c] ELSE "none"] = [c \in Co |-> "none"]
  BY DEF Init, CoInit
<1> QED BY <1>1, <1>2, <1>3, <1>4 DEF Sched!Init, Init, CoInit

(***************************************************************************)
(* With exclusive sockets a core implements the scheduler: every wait that *)
(* ends is continued once, when nothing else runs and with an answer to    *)
(* the call it was made in, or is a connect that was given up silently.    *)
(***************************************************************************)
THEOREM CoreImplementsScheduler == Exclusive => (Spec => ImplementsScheduler)
<1> SUFFICES ASSUME Exclusive PROVE Spec => ImplementsScheduler
  OBVIOUS
<1>1. RInv /\ [Next]_vars => [Sched!Next]_(Sched!vars)
  BY NextSched, UnseenStutters DEF SchedStep
<1> QED BY <1>1, InitSched, RInvariance, PTL DEF Spec, ImplementsScheduler, Sched!Spec

-----------------------------------------------------------------------------
(***************************************************************************)
(* Proofs about the socket objects and the ids of the stack, for every     *)
(* number of coroutines, objects and ids.                                  *)
(*                                                                         *)
(* NetOK is what the other arguments need of the stack: a free id has no   *)
(* owner and is not registered, and only a connected one has data.         *)
(***************************************************************************)

-----------------------------------------------------------------------------
(***************************************************************************)
(* An object that send and recv accept has a context, for scripts that     *)
(* share objects too: connect_handler alone sets connected, and it was     *)
(* called for a wait that has set vm.                                      *)
(***************************************************************************)
THEOREM ContextSet == Spec => []ConnectedHasContext
<1>1. Init => ConnectedHasContext
  BY DEF Init, SockInit, ConnectedHasContext
<1>2. IInv /\ ConnectedHasContext /\ [Next]_vars => ConnectedHasContext'
  <2> SUFFICES ASSUME IInv, ConnectedHasContext, [Next]_vars PROVE ConnectedHasContext'
    OBVIOUS
  <2> USE DEF IInv
  <2>1. ASSUME UNCHANGED <<connected, vm>> PROVE ConnectedHasContext'
    BY <2>1 DEF ConnectedHasContext
  <2>2. ASSUME UNCHANGED appVars PROVE ConnectedHasContext'
    BY <2>1, <2>2 DEF appVars, sockVars
  <2>3. ASSUME NEW kind, SockFault(kind) PROVE ConnectedHasContext'
    BY <2>1, <2>3 DEF SockFault, sockVars
  <2>4. ASSUME NEW c \in Co, NEW s \in Socks, vm' = [vm EXCEPT ![s] = c], UNCHANGED connected
        PROVE  ConnectedHasContext'
    BY <2>4, CoAssumption DEF ConnectedHasContext, SockTypeOK
  <2>5. ASSUME NEW c \in Co, SockStep(c) PROVE ConnectedHasContext'
    <3>1. ASSUME NEW s \in Socks, NEW f \in Fds, ConnectStart(c, s, f) PROVE ConnectedHasContext'
      BY <2>4, <3>1 DEF ConnectStart
    <3>2. ASSUME NEW s \in Socks, RecvWait(c, s) PROVE ConnectedHasContext'
      BY <2>4, <3>2 DEF RecvWait
    <3>3. ASSUME ConnectArm(c) PROVE ConnectedHasContext'
      BY <3>3 DEF ConnectArm, ConnectedHasContext, SockTypeOK
    <3> QED BY <2>1, <2>5, <3>1, <3>2, <3>3
            DEF SockStep, NewSocket, SetTimeout, ConnectFails, ConnectImmediate, RecvData, RecvArm,
                Close, sockVars
  <2>6. ASSUME NEW e \in batch, Dispatch(e) PROVE ConnectedHasContext'
    <3> DEFINE c == e[3]
    <3>1. c \in Co /\ CallHandler(c) /\ UNCHANGED vm
      BY <2>6 DEF LoopTypeOK, Dispatch
    <3>2. CASE handler[c] \in {"connect", "recv"}
      <4>1. data[c] \in Socks /\ vm[data[c]] # None
        BY <3>1, <3>2, CoAssumption DEF EventOK
      <4>2. UNCHANGED connected \/ connected' = [connected EXCEPT ![data[c]] = TRUE]
        BY <3>1, <3>2 DEF CallHandler, OnTimeout, connect_handler, recv_handler
      <4> QED BY <3>1, <4>1, <4>2 DEF ConnectedHasContext, SockTypeOK
    <3>3. CASE handler[c] \in {"NULL", "timer"}
      <4>1. UNCHANGED connected
        BY <3>1, <3>3 DEF CallHandler, timer_handler
      <4> QED BY <2>1, <3>1, <4>1
    <3> QED BY <3>1, <3>2, <3>3 DEF CoTypeOK
  <2>7. ASSUME NEW c \in Co, ExpireOne(c) PROVE ConnectedHasContext'
    BY <2>1, <2>7 DEF ExpireOne, timer_handler, OnTimeout
  <2>8. ASSUME Loop PROVE ConnectedHasContext'
    BY <2>2, <2>3, <2>6, <2>7, <2>8
    DEF Loop, LoopExit, EpollWait, DispatchFault, BeginExpire, ExpireFault, EndExpire, EndIteration
  <2>9. ASSUME Collector PROVE ConnectedHasContext'
    BY <2>1, <2>3, <2>9 DEF Collector, Gc, CloseWithoutContext
  <2>10. ASSUME NEW c \in Co, Api(c) PROVE ConnectedHasContext'
    BY <2>1, <2>5, <2>10 DEF Api, sockVars
  <2>11. ASSUME Network \/ Tick \/ Stopped \/ UNCHANGED vars PROVE ConnectedHasContext'
    BY <2>2, <2>11 DEF Network, Tick, Stopped, vars
  <2> QED BY <2>8, <2>9, <2>10, <2>11 DEF Next
<1> QED BY <1>1, <1>2, Invariance, PTL DEF Spec

-----------------------------------------------------------------------------
(* The ids of the stack. *)

NetOK ==
    \A f \in Fds :
        /\ st[f] \in {"free", "idle", "syn"} => rx[f] = 0 /\ ~eof[f]
        /\ reg[f] = "off" => ptr[f] = None
        /\ st[f] = "free" => own[f] = None /\ reg[f] = "off"

\* The calls of the stack keep NetOK.
LEMMA NetClose == ASSUME StackInv, NetOK, NEW f \in Fds, mtcp_close(f) PROVE NetOK'
BY DEF StackInv, StackTypeOK, NetOK, mtcp_close, mtcp_epoll_deregister

LEMMA NetSocket ==
    ASSUME StackInv, NetOK, NEW f \in Fds, NEW s, NEW state \in {"idle", "syn", "est"},
           mtcp_socket(f, s, state)
    PROVE  NetOK'
BY DEF StackInv, StackTypeOK, NetOK, mtcp_socket, epollVars

LEMMA NetRegister ==
    ASSUME StackInv, NetOK, NEW f \in Fds, NEW kind \in {"in", "out"}, NEW c, st[f] # "free",
           mtcp_epoll_register(f, kind, c), UNCHANGED <<st, own, rx, eof>>
    PROVE  NetOK'
BY DEF StackInv, StackTypeOK, NetOK, mtcp_epoll_register

LEMMA NetDeregister ==
    ASSUME StackInv, NetOK, NEW f \in Fds, mtcp_epoll_deregister(f), UNCHANGED <<st, own, rx, eof>>
    PROVE  NetOK'
BY DEF StackInv, StackTypeOK, NetOK, mtcp_epoll_deregister

\* A read leaves less in one buffer.
LEMMA NetRead ==
    ASSUME StackInv, NetOK, NEW f \in Fds, NEW n \in Nat, Readable(f),
           rx' = [rx EXCEPT ![f] = n], UNCHANGED <<st, own, eof, reg, ptr>>
    PROVE  NetOK'
BY DEF StackInv, StackTypeOK, NetOK, Readable

LEMMA NetFrame == NetOK /\ UNCHANGED <<st, own, rx, eof, reg, ptr>> => NetOK'
BY DEF NetOK

\* Every socket call keeps NetOK.
LEMMA NetCalls == ASSUME IInv, NetOK, NEW c \in Co, SockStep(c) PROVE NetOK'
<1> USE DEF IInv
<1>1. ASSUME UNCHANGED netVars PROVE NetOK'
  BY <1>1, NetFrame DEF netVars, epollVars
<1>2. ASSUME NEW s \in Socks, close_helper(s) PROVE NetOK'
  BY <1>1, <1>2, NetClose DEF close_helper, SockTypeOK
<1>3. ASSUME NEW s \in Socks,
             \/ NewSocket(c, s)
             \/ \E t \in Timeouts : SetTimeout(c, s, t)
             \/ RecvWait(c, s)
             \/ Close(c, s)
      PROVE  NetOK'
  BY <1>1, <1>2, <1>3 DEF NewSocket, SetTimeout, RecvWait, Close
<1>4. ASSUME NEW s \in Socks, NEW f \in Fds, ConnectImmediate(c, s, f) \/ ConnectStart(c, s, f)
      PROVE  NetOK'
  BY <1>4, NetSocket DEF ConnectImmediate, ConnectStart
<1>5. ASSUME NEW s \in Socks, NEW f \in Fds, NEW closes \in BOOLEAN, ConnectFails(c, s, f, closes)
      PROVE  NetOK'
  <2>1. CASE closes /\ fd[s] # None
    <3>1. fd[s] \in Fds
      BY <2>1 DEF SockTypeOK
    <3>2. /\ st[f] = "free"
          /\ st' = [st EXCEPT ![f] = "idle", ![fd[s]] = "free"]
          /\ own' = [own EXCEPT ![f] = s, ![fd[s]] = None]
          /\ rx' = [rx EXCEPT ![fd[s]] = 0]
          /\ eof' = [eof EXCEPT ![fd[s]] = FALSE]
          /\ reg' = [reg EXCEPT ![fd[s]] = "off"] /\ ptr' = [ptr EXCEPT ![fd[s]] = None]
      BY <1>5, <2>1 DEF ConnectFails, mtcp_epoll_deregister
    <3> QED BY <3>1, <3>2 DEF NetOK, StackInv, StackTypeOK
  <2>2. CASE ~(closes /\ fd[s] # None)
    BY <1>5, <2>2, NetSocket DEF ConnectFails
  <2> QED BY <2>1, <2>2
<1>6. ASSUME NEW s \in Socks, RecvData(c, s) PROVE NetOK'
  <2>1. fd[s] \in Fds /\ Readable(fd[s]) /\ UNCHANGED <<st, own, eof, reg, ptr>>
    BY <1>6 DEF RecvData, IsConnected, SockTypeOK, epollVars
  <2>2. PICK n \in 0 .. rx[fd[s]] - 1 : rx' = [rx EXCEPT ![fd[s]] = n]
    BY <1>6 DEF RecvData
  <2>3. n \in Nat
    BY <2>1, <2>2 DEF StackInv, StackTypeOK
  <2> QED BY <2>1, <2>2, <2>3, NetRead
<1>7. ASSUME ConnectArm(c) \/ RecvArm(c) PROVE NetOK'
  <2> DEFINE s == data[c]
  <2>1. s \in Socks
    BY <1>7 DEF ConnectArm, RecvArm, OnTop, EventOK
  <2>2. CASE CtlAddOK(s)
    <3>1. fd[s] \in Fds /\ st[fd[s]] # "free" /\ UNCHANGED <<st, own, rx, eof>>
      BY <1>7, <2>1, <2>2 DEF CtlAddOK, SockTypeOK, ConnectArm, RecvArm
    <3>2. \E kind \in {"in", "out"} : mtcp_epoll_register(fd[s], kind, c)
      BY <1>7, <2>2 DEF ConnectArm, RecvArm, CtlAdd
    <3> QED BY <3>1, <3>2, NetRegister
  <2>3. CASE ~CtlAddOK(s)
    BY <1>1, <1>2, <1>7, <2>1, <2>3 DEF ConnectArm, RecvArm, netVars
  <2> QED BY <2>2, <2>3
<1> QED BY <1>3, <1>4, <1>5, <1>6, <1>7 DEF SockStep

\* What the handlers do to the stack: a read, the end of a registration, or nothing.
LEMMA NetHandlers ==
    ASSUME IInv, NetOK, NEW s \in Socks,
           OnTimeout(s) \/ connect_handler(s) \/ recv_handler(s), UNCHANGED <<st, own, eof>>
    PROVE  NetOK'
<1> USE DEF IInv
<1>1. CASE OnTimeout(s)
  <2>1. UNCHANGED rx /\ (UNCHANGED epollVars \/ (fd[s] \in Fds /\ mtcp_epoll_deregister(fd[s])))
    BY <1>1 DEF OnTimeout, CtlDel, SockTypeOK
  <2> QED BY <2>1, NetDeregister, NetFrame DEF epollVars
<1>2. CASE connect_handler(s)
  BY <1>2, NetFrame DEF connect_handler, epollVars
<1>3. CASE recv_handler(s)
  <2>1. fd[s] # None => fd[s] \in Fds
    BY DEF SockTypeOK
  <2> QED BY <1>3, <2>1, NetRead, NetFrame DEF recv_handler, epollVars, Readable
<1> QED BY <1>1, <1>2, <1>3

LEMMA NetStackStep == ASSUME StackInv, NetOK, StackStep PROVE NetOK'
<1> PICK f \in Fds : Established(f) \/ Broken(f) \/ DataArrives(f) \/ FinArrives(f) \/ WriteSpace(f)
  BY DEF StackStep
<1>1. CASE Established(f) \/ Broken(f) \/ WriteSpace(f)
  BY <1>1 DEF Established, Broken, WriteSpace, NetOK, StackInv, StackTypeOK
<1>2. CASE DataArrives(f) \/ FinArrives(f)
  BY <1>2 DEF DataArrives, FinArrives, NetOK, StackInv, StackTypeOK
<1> QED BY <1>1, <1>2

\* Every step keeps NetOK.
LEMMA NetStep == ASSUME IInv, NetOK, [Next]_vars PROVE NetOK'
<1> USE DEF IInv
<1>1. ASSUME UNCHANGED netVars PROVE NetOK'
  BY <1>1, NetFrame DEF netVars, epollVars
<1>2. ASSUME NEW c \in Co, Api(c) PROVE NetOK'
  BY <1>1, <1>2, NetCalls DEF Api
<1>3. ASSUME NEW kind, SockFault(kind) PROVE NetOK'
  BY <1>1, <1>3 DEF SockFault
<1>4. CASE Collector
  <2>1. ASSUME NEW s \in Socks, Gc(s) PROVE NetOK'
    BY <1>1, <2>1, NetClose DEF Gc, close_helper, SockTypeOK
  <2> QED BY <1>3, <1>4, <2>1 DEF Collector, CloseWithoutContext
<1>5. ASSUME NEW c \in Co, handler[c] \in {"connect", "recv"},
             OnTimeout(data[c]) \/ connect_handler(data[c]) \/ recv_handler(data[c]),
             UNCHANGED <<st, own, eof>>
      PROVE  NetOK'
  BY <1>5, NetHandlers DEF EventOK
<1>6. ASSUME UNCHANGED <<st, own, eof, rx, epollVars>> PROVE NetOK'
  BY <1>1, <1>6 DEF netVars
<1>7. ASSUME NEW e \in batch, Dispatch(e) PROVE NetOK'
  <2>1. e[3] \in Co /\ CallHandler(e[3]) /\ UNCHANGED <<st, own, eof>>
    BY <1>7 DEF Dispatch, LoopTypeOK
  <2>2. CASE handler[e[3]] \in {"connect", "recv"}
    BY <1>5, <2>1, <2>2 DEF CallHandler
  <2>3. CASE handler[e[3]] \in {"NULL", "timer"}
    BY <1>6, <2>1, <2>3 DEF CallHandler, timer_handler
  <2> QED BY <2>1, <2>2, <2>3 DEF CoTypeOK
<1>8. ASSUME NEW c \in Co, ExpireOne(c) PROVE NetOK'
  <2>1. handler[c] \in {"timer", "connect", "recv"} /\ UNCHANGED <<st, own, eof>>
    BY <1>8 DEF ExpireOne, Expire, IsMin, EventOK, CoTypeOK
  <2> QED BY <1>5, <1>6, <1>8, <2>1 DEF ExpireOne, timer_handler
<1>9. ASSUME NEW ok \in BOOLEAN, EpollWait(ok) PROVE NetOK'
  BY <1>9, NetFrame DEF EpollWait
<1>10. CASE LoopExit \/ BeginExpire \/ EndExpire \/ EndIteration
  BY <1>1, <1>10 DEF LoopExit, BeginExpire, EndExpire, EndIteration
<1>11. CASE Loop
  BY <1>3, <1>7, <1>8, <1>9, <1>10, <1>11 DEF Loop, DispatchFault, ExpireFault
<1>12. CASE Network
  BY <1>12, NetStackStep DEF Network
<1>13. CASE Tick \/ Stopped \/ UNCHANGED vars
  BY <1>1, <1>13 DEF Tick, Stopped, vars
<1> QED BY <1>2, <1>4, <1>11, <1>12, <1>13 DEF Next

LEMMA NetInvariance == Spec => [](IInv /\ NetOK)
<1>1. Init => NetOK
  BY DEF Init, StackInit, NetOK
<1>2. IInv /\ NetOK /\ [Next]_vars => NetOK'
  BY NetStep
<1> QED BY <1>1, <1>2, Invariance, PTL DEF Spec

-----------------------------------------------------------------------------
(* Connections that are let go. *)

NotForgotten ==
    \A f \in Fds, s \in Socks :
        /\ Holds(s, f) /\ st'[f] # "free" => Holds(s, f)' \/ fd'[s] \in Fds \ {f}
        /\ st[f] = "free" /\ own'[f] = s /\ st'[f] # "idle" => Holds(s, f)'

\* A step that gives nobody another id, and takes one only by closing it.
LEMMA KeepsOrCloses ==
    ASSUME NetOK, UNCHANGED <<obj, fd>>,
           \A f \in Fds : own'[f] = own[f] \/ (st'[f] = "free" /\ own'[f] = None)
    PROVE  NotForgotten
BY SocketAssumption DEF NotForgotten, Holds, NetOK

\* mtcp_close closes the id whose owner it takes away.
LEMMA ClosesOwn ==
    ASSUME IInv, NEW s \in Socks, close_helper(s)
    PROVE  /\ \A f \in Fds : own'[f] = own[f] \/ (st'[f] = "free" /\ own'[f] = None)
           /\ fd[s] # None => st'[fd[s]] = "free"
BY DEF close_helper, mtcp_close, netVars, IInv, SockTypeOK, StackInv, StackTypeOK

\* connect makes one new id, which goes to the object or stays idle.
LEMMA ConnectNotForgotten ==
    ASSUME IInv, NetOK, NEW c \in Co, NEW s \in Socks, NEW f \in Fds,
           \/ ConnectImmediate(c, s, f)
           \/ ConnectStart(c, s, f)
           \/ \E closes \in BOOLEAN : ConnectFails(c, s, f, closes)
    PROVE  NotForgotten
<1> USE DEF IInv
<1>1. CASE ConnectImmediate(c, s, f) \/ ConnectStart(c, s, f)
  <2>1. /\ st[f] = "free" /\ own' = [own EXCEPT ![f] = s] /\ obj' = obj /\ obj[s] = "live"
        /\ fd' = [fd EXCEPT ![s] = f]
    BY <1>1 DEF ConnectImmediate, ConnectStart, mtcp_socket, CanUse
  <2>2. \A g \in Fds : own'[g] = IF g = f THEN s ELSE own[g]
    BY <2>1 DEF StackInv, StackTypeOK
  <2>3. \A t \in Socks : fd'[t] = IF t = s THEN f ELSE fd[t]
    BY <2>1 DEF SockTypeOK
  <2>4. own[f] = None
    BY <2>1 DEF NetOK
  <2> QED BY <2>1, <2>2, <2>3, <2>4, SocketAssumption DEF NotForgotten, Holds, NetOK
<1>2. ASSUME NEW closes \in BOOLEAN, ConnectFails(c, s, f, closes) PROVE NotForgotten
  <2>1. UNCHANGED <<obj, fd>> /\ st[f] = "free" /\ own[f] = None
    BY <1>2 DEF ConnectFails, mtcp_socket, NetOK
  <2>2. /\ (st'[f] = "idle" /\ own'[f] = s) \/ (st'[f] = "free" /\ own'[f] = None)
        /\ \A g \in Fds \ {f} : own'[g] = own[g] \/ (st'[g] = "free" /\ own'[g] = None)
    <3>1. CASE closes /\ fd[s] # None
      <4>1. fd[s] \in Fds
        BY <3>1 DEF SockTypeOK
      <4>2. /\ st' = [st EXCEPT ![f] = "idle", ![fd[s]] = "free"]
            /\ own' = [own EXCEPT ![f] = s, ![fd[s]] = None]
        BY <1>2, <3>1 DEF ConnectFails
      <4> QED BY <4>1, <4>2 DEF StackInv, StackTypeOK
    <3>2. CASE ~(closes /\ fd[s] # None)
      BY <1>2, <3>2 DEF ConnectFails, mtcp_socket, StackInv, StackTypeOK
    <3> QED BY <3>1, <3>2
  <2> QED BY <2>1, <2>2, SocketAssumption DEF NotForgotten, Holds, NetOK
<1> QED BY <1>1, <1>2

\* Every socket call.
LEMMA CallsNotForgotten ==
    ASSUME IInv, NetOK, NEW c \in Co, SockStep(c) PROVE NotForgotten
<1> USE DEF IInv
<1>1. ASSUME UNCHANGED <<fd, own>>, obj' = obj \/ \E s \in Socks : obj' = [obj EXCEPT ![s] = "live"]
      PROVE  NotForgotten
  BY <1>1, SocketAssumption DEF NotForgotten, Holds, NetOK, SockTypeOK
<1>2. ASSUME NEW s \in Socks,
             NewSocket(c, s) \/ (\E t \in Timeouts : SetTimeout(c, s, t)) \/ RecvData(c, s) \/ RecvWait(c, s)
      PROVE  NotForgotten
  BY <1>1, <1>2 DEF NewSocket, SetTimeout, RecvData, RecvWait, netVars, sockVars
<1>3. ASSUME NEW s \in Socks, Close(c, s) PROVE NotForgotten
  BY <1>3, ClosesOwn, KeepsOrCloses DEF Close
<1>4. CASE RecvArm(c)
  BY <1>1, <1>4 DEF RecvArm
<1>5. CASE ConnectArm(c)
  <2> DEFINE s == data[c]
  <2>1. s \in Socks
    BY <1>5 DEF ConnectArm, OnTop, EventOK
  <2>2. CASE CtlAddOK(s)
    BY <1>1, <1>5, <2>2 DEF ConnectArm
  <2>3. CASE ~CtlAddOK(s)
    <3>1. close_helper(s) /\ fd' = [fd EXCEPT ![s] = None] /\ UNCHANGED obj
      BY <1>5, <2>3 DEF ConnectArm
    <3>2. \A t \in Socks \ {s} : fd'[t] = fd[t]
      BY <3>1 DEF SockTypeOK
    <3> QED BY <2>1, <3>1, <3>2, ClosesOwn, StackAssumption, SocketAssumption
            DEF NotForgotten, Holds, NetOK
  <2> QED BY <2>2, <2>3
<1> QED BY <1>2, <1>3, <1>4, <1>5, ConnectNotForgotten DEF SockStep

(***************************************************************************)
(* close, __gc, a registration that fails and the handlers let no open     *)
(* connection go: only connect forgets one, for every number of objects    *)
(* and ids and also when objects are shared and used after a close.        *)
(***************************************************************************)
THEOREM OnlyConnectForgets == Spec => ForgottenOnlyByConnect
<1>1. IInv /\ NetOK /\ [Next]_vars => [NotForgotten]_vars
  <2> SUFFICES ASSUME IInv, NetOK, Next PROVE NotForgotten
    OBVIOUS
  <2> USE DEF IInv
  <2>1. ASSUME UNCHANGED <<obj, fd, own>> PROVE NotForgotten
    BY <2>1, KeepsOrCloses
  <2>2. ASSUME NEW c \in Co, Api(c) PROVE NotForgotten
    BY <2>1, <2>2, CallsNotForgotten DEF Api, sockVars, netVars
  <2>3. ASSUME NEW s \in Socks, Gc(s) PROVE NotForgotten
    <3>1. /\ close_helper(s) /\ UNCHANGED fd
          /\ \A t \in Socks \ {s} : obj'[t] = obj[t]
      BY <2>3 DEF Gc, SockTypeOK
    <3> QED BY <3>1, ClosesOwn, StackAssumption, SocketAssumption DEF NotForgotten, Holds, NetOK
  <2>4. ASSUME NEW kind, SockFault(kind) PROVE NotForgotten
    BY <2>1, <2>4 DEF SockFault, sockVars, netVars
  <2>5. CASE Collector
    BY <2>3, <2>4, <2>5 DEF Collector, CloseWithoutContext
  <2>6. CASE Loop
    BY <2>1, <2>4, <2>6
    DEF Loop, LoopExit, EpollWait, Dispatch, DispatchFault, BeginExpire, ExpireOne, ExpireFault,
        EndExpire, EndIteration, appVars, sockVars, netVars
  <2>7. CASE Network
    BY <2>1, <2>7 DEF Network, StackStep, Established, Broken, DataArrives, FinArrives, WriteSpace,
                      appVars, sockVars
  <2>8. CASE Tick \/ Stopped
    BY <2>1, <2>8 DEF Tick, Stopped, vars, appVars, sockVars, netVars
  <2> QED BY <2>2, <2>5, <2>6, <2>7, <2>8 DEF Next
<1> QED BY <1>1, NetInvariance, PTL DEF Spec, ForgottenOnlyByConnect, NotForgotten

-----------------------------------------------------------------------------
(***************************************************************************)
(* Wakeups.  WakeupNotLost is not inductive: what happens next raises an   *)
(* event only if the id is registered for the event that the coroutine     *)
(* waits for (WakeInv).                                                    *)
(***************************************************************************)
Registered(c, s) ==
    Waits(c, s) /\ fd[s] # None /\ own[fd[s]] = s /\ ptr[fd[s]] = c /\ active[s]

OnItsWay(c, f) == \E k \in Kinds : <<f, k>> \in ready \/ <<f, k, c>> \in batch

Wakes(c, s) ==
    Registered(c, s) =>
        /\ reg[fd[s]] = IF handler[c] = "connect" THEN "out" ELSE "in"
        /\ Happened(c, fd[s]) => OnItsWay(c, fd[s])

WakeInv == \A c \in Co, s \in Socks : Wakes(c, s)

\* The wait of c on s goes on.
SameWait(c, s) ==
    /\ co'[c] = co[c] /\ handler'[c] = handler[c] /\ data'[c] = data[c]
    /\ fd'[s] = fd[s] /\ active'[s] = active[s]
    /\ \A f \in Fds, k \in Kinds : <<f, k, c>> \in batch => <<f, k, c>> \in batch'

\* Nothing is taken away from f but data.
SameNet(f) ==
    /\ own'[f] = own[f] /\ ptr'[f] = ptr[f] /\ reg'[f] = reg[f]
    /\ st'[f] = st[f] /\ eof'[f] = eof[f] /\ (rx'[f] > 0 => rx[f] > 0)
    /\ \A k \in Kinds : <<f, k>> \in ready => <<f, k>> \in ready'

LEMMA SameWakes ==
    ASSUME IInv, WakeInv, NEW c \in Co, NEW s \in Socks, SameWait(c, s), fd[s] # None => SameNet(fd[s])
    PROVE  Wakes(c, s)'
<1> SUFFICES ASSUME Registered(c, s)'
             PROVE  /\ reg'[fd'[s]] = IF handler'[c] = "connect" THEN "out" ELSE "in"
                    /\ Happened(c, fd[s])' => OnItsWay(c, fd[s])'
  BY DEF Wakes
<1>1. fd[s] \in Fds /\ fd'[s] = fd[s] /\ SameNet(fd[s])
  BY DEF Registered, SameWait, IInv, SockTypeOK
<1>2. Registered(c, s)
  BY <1>1 DEF Registered, Waits, SameWait, SameNet
<1>3. Happened(c, fd[s])' => Happened(c, fd[s])
  BY <1>1 DEF Happened, SameWait, SameNet
<1>4. OnItsWay(c, fd[s]) => OnItsWay(c, fd[s])'
  BY <1>1 DEF OnItsWay, SameWait, SameNet
<1> QED BY <1>1, <1>2, <1>3, <1>4 DEF WakeInv, Wakes, SameWait, SameNet

\* Calls of the stack for another id.
LEMMA CloseOther ==
    ASSUME StackInv, NEW f \in Fds, NEW g \in Fds, mtcp_close(g), own'[f] # None PROVE SameNet(f)
BY DEF StackInv, StackTypeOK, mtcp_close, mtcp_epoll_deregister, SameNet

LEMMA SocketOther ==
    ASSUME StackInv, NEW f \in Fds, NEW g \in Fds, NEW t, NEW state, mtcp_socket(g, t, state), own'[f] # t
    PROVE  SameNet(f)
BY DEF StackInv, StackTypeOK, mtcp_socket, epollVars, SameNet

LEMMA RegisterOther ==
    ASSUME StackInv, NEW f \in Fds, NEW g \in Fds, NEW kind, NEW d, mtcp_epoll_register(g, kind, d),
           UNCHANGED <<st, own, rx, eof>>, ptr'[f] # d
    PROVE  SameNet(f)
BY DEF StackInv, StackTypeOK, mtcp_epoll_register, SameNet

LEMMA DeregisterOther ==
    ASSUME StackInv, NEW f \in Fds, NEW g \in Fds, mtcp_epoll_deregister(g),
           UNCHANGED <<st, own, rx, eof>>, ptr'[f] # None
    PROVE  SameNet(f)
BY DEF StackInv, StackTypeOK, mtcp_epoll_deregister, SameNet

LEMMA FrameOther == ASSUME UNCHANGED netVars, NEW f \in Fds PROVE SameNet(f)
BY DEF netVars, epollVars, SameNet

LEMMA CloseHelperOther ==
    ASSUME IInv, NEW f \in Fds, NEW t \in Socks, close_helper(t), own'[f] # None PROVE SameNet(f)
BY CloseOther, FrameOther DEF close_helper, IInv, SockTypeOK

\* What the step changes for the waits that are still there after it.
WakeFacts(c, s) ==
    /\ c \in Holders[s] /\ co'[c] = "yielded" /\ handler'[c] \in {"connect", "recv"}
    /\ data'[c] = s /\ fd'[s] \in Fds /\ own'[fd'[s]] = s /\ ptr'[fd'[s]] = c

LEMMA StillWaits ==
    ASSUME IInv', Owned', NEW c \in Co, NEW s \in Socks, Registered(c, s)' PROVE WakeFacts(c, s)
BY DEF WakeFacts, Registered, Waits, Owned, IInv, SockTypeOK

\* The second half of a call is that of the first.
ArmOK ==
    \A c \in Co : /\ co[c] = "conn_arm" => handler[c] = "connect"
                  /\ co[c] = "recv_arm" => handler[c] = "recv"

WakeHyp == Exclusive /\ IInv /\ IInv' /\ Owned /\ Owned' /\ NetOK /\ ArmOK /\ WakeInv

\* The calls of a coroutine that runs do not touch the wait of another one.
LEMMA CallsWake ==
    ASSUME WakeHyp, NEW d \in Co, NEW t \in Socks,
           \/ NewSocket(d, t)
           \/ \E u \in Timeouts : SetTimeout(d, t, u)
           \/ \E f \in Fds, closes \in BOOLEAN : ConnectFails(d, t, f, closes)
           \/ \E f \in Fds : ConnectImmediate(d, t, f) \/ ConnectStart(d, t, f)
           \/ RecvData(d, t) \/ RecvWait(d, t) \/ Close(d, t),
           UNCHANGED batch,
           NEW c \in Co, NEW s \in Socks
    PROVE  Wakes(c, s)'
<1> SUFFICES ASSUME Registered(c, s)' PROVE Wakes(c, s)'
  BY DEF Wakes
<1> USE DEF WakeHyp
<1>1. WakeFacts(c, s)
  BY StillWaits
<1>2. d \in Holders[t] /\ co'[d] # "yielded"
  BY DEF NewSocket, SetTimeout, ConnectFails, ConnectImmediate, ConnectStart, RecvData, RecvWait, Close,
         CanUse, Runs, OnTop, coVars, IInv, CoTypeOK
<1>3. c # d /\ s # t
  BY <1>1, <1>2 DEF WakeFacts, Exclusive
<1>4. SameWait(c, s)
  <2>1. CASE (\E f \in Fds : ConnectStart(d, t, f)) \/ RecvWait(d, t)
    BY <1>3, <2>1 DEF ConnectStart, RecvWait, PrepareWait, SameWait, IInv, CoTypeOK, SockTypeOK
  <2>2. CASE \/ NewSocket(d, t) \/ (\E u \in Timeouts : SetTimeout(d, t, u))
             \/ RecvData(d, t) \/ \E f \in Fds : ConnectImmediate(d, t, f)
    BY <1>3, <2>2 DEF NewSocket, SetTimeout, RecvData, ConnectImmediate, SameWait, coVars, evVars,
                      sockVars, IInv, SockTypeOK
  <2>3. CASE Close(d, t) \/ \E f \in Fds, closes \in BOOLEAN : ConnectFails(d, t, f, closes)
    <3>1. UNCHANGED active \/ active' = ActiveAfterClose(t)
      BY <2>3 DEF Close, ConnectFails, close_helper
    <3>2. active'[s] = active[s]
      BY <1>3, <3>1 DEF ActiveAfterClose, IInv, SockTypeOK
    <3> QED BY <2>3, <3>2 DEF Close, ConnectFails, SameWait, coVars, evVars
  <2> QED BY <2>1, <2>2, <2>3
<1>5. SameNet(fd'[s])
  <2> DEFINE f == fd'[s]
  <2>1. f \in Fds /\ own'[f] # None /\ own'[f] # t /\ StackInv
    BY <1>1, <1>3, SocketAssumption DEF WakeFacts, IInv
  <2>2. ASSUME NEW g \in Fds, ConnectImmediate(d, t, g) \/ ConnectStart(d, t, g) PROVE SameNet(f)
    BY <2>1, <2>2, SocketOther DEF ConnectImmediate, ConnectStart
  <2>3. CASE Close(d, t)
    BY <2>1, <2>3, CloseHelperOther DEF Close
  <2>4. CASE RecvData(d, t)
    <3>1. PICK n \in 0 .. rx[fd[t]] - 1 : rx' = [rx EXCEPT ![fd[t]] = n]
      BY <2>4 DEF RecvData
    <3>2. UNCHANGED <<st, own, eof, reg, ptr, ready>> /\ rx \in [Fds -> Nat]
      BY <2>1, <2>4 DEF RecvData, epollVars, StackInv, StackTypeOK
    <3>3. rx'[f] > 0 => rx[f] > 0
      BY <2>1, <3>1, <3>2
    <3> QED BY <3>2, <3>3 DEF SameNet
  <2>5. ASSUME NEW g \in Fds, NEW closes \in BOOLEAN, ConnectFails(d, t, g, closes) PROVE SameNet(f)
    <3>1. CASE closes /\ fd[t] # None
      <4>1. fd[t] \in Fds
        BY <3>1 DEF IInv, SockTypeOK
      <4>2. /\ st' = [st EXCEPT ![g] = "idle", ![fd[t]] = "free"]
            /\ own' = [own EXCEPT ![g] = t, ![fd[t]] = None]
            /\ rx' = [rx EXCEPT ![fd[t]] = 0] /\ eof' = [eof EXCEPT ![fd[t]] = FALSE]
            /\ reg' = [reg EXCEPT ![fd[t]] = "off"] /\ ptr' = [ptr EXCEPT ![fd[t]] = None]
            /\ ready' = {e \in ready : e[1] # fd[t]}
        BY <2>5, <3>1 DEF ConnectFails, mtcp_epoll_deregister
      <4>3. f # g /\ f # fd[t]
        BY <2>1, <4>1, <4>2 DEF StackInv, StackTypeOK
      <4> QED BY <2>1, <4>1, <4>2, <4>3 DEF SameNet, StackInv, StackTypeOK
    <3>2. CASE ~(closes /\ fd[t] # None)
      BY <2>1, <2>5, <3>2, SocketOther DEF ConnectFails
    <3> QED BY <3>1, <3>2
  <2>6. CASE NewSocket(d, t) \/ (\E u \in Timeouts : SetTimeout(d, t, u)) \/ RecvWait(d, t)
    BY <2>1, <2>6, FrameOther DEF NewSocket, SetTimeout, RecvWait
  <2> QED BY <2>2, <2>3, <2>4, <2>5, <2>6
<1> QED BY <1>4, <1>5, SameWakes DEF SameWait

LEMMA ArmHandler ==
    ASSUME ArmOK, NEW c \in Co
    PROVE  /\ ConnectArm(c) => handler[c] = "connect"
           /\ RecvArm(c) => handler[c] = "recv"
<1>1. ConnectArm(c) => co[c] = "conn_arm"
  BY DEF ConnectArm, OnTop
<1>2. RecvArm(c) => co[c] = "recv_arm"
  BY DEF RecvArm, OnTop
<1> QED BY <1>1, <1>2 DEF ArmOK

\* The second half of connect or recv: the wait that begins is registered for
\* its event, and what has already happened is raised.
LEMMA ArmWakes ==
    ASSUME WakeHyp, NEW d \in Co, ConnectArm(d) \/ RecvArm(d), UNCHANGED batch,
           NEW c \in Co, NEW s \in Socks
    PROVE  Wakes(c, s)'
<1> SUFFICES ASSUME Registered(c, s)' PROVE Wakes(c, s)'
  BY DEF Wakes
<1> USE DEF WakeHyp
<1> DEFINE t == data[d]
           f == fd'[s]
<1>1. WakeFacts(c, s)
  BY StillWaits
<1>2. /\ t \in Socks /\ d \in Holders[t] /\ UNCHANGED evVars
      /\ handler[d] \in {"connect", "recv"}
  BY DEF ConnectArm, RecvArm, OnTop, IInv, EventOK, Owned
<1>3. f \in Fds /\ own'[f] = s /\ own'[f] # None /\ ptr'[f] = c /\ StackInv
  BY <1>1, SocketAssumption DEF WakeFacts, IInv
<1>4. CASE d # c
  <2>1. s # t
    BY <1>1, <1>2, <1>4 DEF WakeFacts, Exclusive
  <2>2. SameWait(c, s)
    <3>1. co'[c] = co[c]
      BY <1>4 DEF ConnectArm, RecvArm, Leave, IInv, CoTypeOK
    <3>2. fd'[s] = fd[s]
      BY <2>1 DEF ConnectArm, RecvArm, IInv, SockTypeOK
    <3>3. active' = active \/ active' = [active EXCEPT ![t] = TRUE] \/ active' = ActiveAfterClose(t)
      BY DEF ConnectArm, RecvArm, CtlAdd, close_helper
    <3>4. active'[s] = active[s]
      BY <2>1, <3>3 DEF ActiveAfterClose, IInv, SockTypeOK
    <3> QED BY <1>2, <3>1, <3>2, <3>4 DEF SameWait, evVars
  <2>3. SameNet(f)
    <3>1. CASE CtlAddOK(t)
      <4>1. fd[t] \in Fds /\ UNCHANGED <<st, own, rx, eof>>
        BY <1>2, <3>1 DEF CtlAddOK, IInv, SockTypeOK, ConnectArm, RecvArm
      <4>2. \E kind \in {"in", "out"} : mtcp_epoll_register(fd[t], kind, d)
        BY <3>1 DEF ConnectArm, RecvArm, CtlAdd
      <4> QED BY <1>3, <1>4, <4>1, <4>2, RegisterOther
    <3>2. CASE ~CtlAddOK(t)
      <4>1. CASE close_helper(t)
        BY <1>2, <1>3, <4>1, CloseHelperOther
      <4>2. CASE UNCHANGED netVars
        BY <1>3, <4>2, FrameOther
      <4> QED BY <3>2, <4>1, <4>2 DEF ConnectArm, RecvArm, netVars
    <3> QED BY <3>1, <3>2
  <2> QED BY <2>2, <2>3, SameWakes DEF SameWait
<1>5. CASE d = c
  <2>1. t = s
    BY <1>1, <1>2, <1>5 DEF WakeFacts, evVars
  <2>2. ASSUME NEW kind \in {"in", "out"}, mtcp_epoll_register(fd[s], kind, c),
               UNCHANGED <<fd, st, own, rx, eof>>, (kind = "out") <=> handler[c] = "connect"
        PROVE  Wakes(c, s)'
    <3>1. reg'[fd'[s]] = kind /\ fd'[s] = fd[s]
      BY <1>3, <2>2 DEF mtcp_epoll_register, StackInv, StackTypeOK
    <3>2. handler'[c] = handler[c] /\ handler[c] \in {"connect", "recv"} /\ kind \in Kinds
      BY <1>2, <1>5 DEF evVars, Kinds
    <3>3. Happened(c, fd[s])' => <<fd[s], kind>> \in PendingOn(fd[s], kind)
      BY <2>2, <3>2 DEF Happened, PendingOn
    <3>4. PendingOn(fd[s], kind) \subseteq ready'
      BY <2>2 DEF mtcp_epoll_register
    <3>5. Happened(c, fd[s])' => OnItsWay(c, fd[s])'
      BY <3>1, <3>2, <3>3, <3>4 DEF OnItsWay
    <3> QED BY <2>2, <3>1, <3>2, <3>5 DEF Wakes
  <2>3. CASE CtlAddOK(s)
    <3>1. UNCHANGED <<fd, st, own, rx, eof>>
      BY <2>1, <2>3 DEF ConnectArm, RecvArm
    <3>2. CASE ConnectArm(d)
      <4>1. mtcp_epoll_register(fd[s], "out", c)
        BY <1>5, <2>1, <2>3, <3>2 DEF ConnectArm, CtlAdd
      <4>2. handler[c] = "connect"
        BY <1>5, <3>2, ArmHandler
      <4> QED BY <2>2, <3>1, <4>1, <4>2
    <3>3. CASE RecvArm(d)
      <4>1. mtcp_epoll_register(fd[s], "in", c)
        BY <1>5, <2>1, <2>3, <3>3 DEF RecvArm, CtlAdd
      <4>2. handler[c] = "recv"
        BY <1>5, <3>3, ArmHandler
      <4> QED BY <2>2, <3>1, <4>1, <4>2
    <3> QED BY <3>2, <3>3
  <2>4. CASE ~CtlAddOK(s)
    <3>1. CASE ConnectArm(d)
      BY <1>1, <1>5, <2>1, <2>4, <3>1 DEF ConnectArm, WakeFacts, IInv, CoTypeOK
    <3>2. CASE RecvArm(d)
      <4>1. UNCHANGED <<fd, st, own, reg, ptr, active>>
        BY <2>1, <2>4, <3>2 DEF RecvArm, epollVars
      <4>2. st[f] # "free" /\ reg[f] # "off"
        BY <1>3, <4>1, CoAssumption DEF NetOK
      <4>3. active[s]
        BY <4>1 DEF Registered
      <4> QED BY <1>3, <2>4, <4>1, <4>2, <4>3, StackAssumption DEF CtlAddOK
    <3> QED BY <3>1, <3>2
  <2> QED BY <2>3, <2>4
<1> QED BY <1>4, <1>5

LEMMA ArmStep == ASSUME IInv, ArmOK, [Next]_vars PROVE ArmOK'
<1> USE DEF IInv
<1>1. ASSUME UNCHANGED handler, \A c \in Co : co'[c] = co[c] \/ co'[c] \notin {"conn_arm", "recv_arm"}
      PROVE  ArmOK'
  BY <1>1 DEF ArmOK
<1>2. ASSUME UNCHANGED <<coVars, evVars>> PROVE ArmOK'
  BY <1>1, <1>2 DEF coVars, evVars
<1>3. ASSUME NEW c, NEW r, Resume(c, r), UNCHANGED evVars PROVE ArmOK'
  <2>1. \A d \in Co : co'[d] = co[d] \/ co'[d] = "running"
    BY <1>3 DEF Resume, coVars, CoTypeOK
  <2> QED BY <1>1, <1>3, <2>1 DEF evVars
<1>4. ASSUME NEW c \in Co, CoStep(c) PROVE ArmOK'
  <2>1. ASSUME NEW d \in Co, Spawn(c, d) \/ SpawnWithArguments(c, d) PROVE ArmOK'
    BY <1>1, <2>1 DEF Spawn, SpawnWithArguments, evVars, CoTypeOK
  <2>2. CASE Return(c)
    BY <1>1, <2>2 DEF Return, Leave, evVars, CoTypeOK
  <2>3. ASSUME NEW delay \in Delays, Sleep(c, delay) PROVE ArmOK'
    BY <2>3 DEF Sleep, PrepareWait, Leave, CoTypeOK, ArmOK
  <2>4. ASSUME NEW delay \in Delays, SleepWhileLinked(c, delay) PROVE ArmOK'
    BY <2>4 DEF SleepWhileLinked, PrepareWait, Runs, OnTop, CoTypeOK, ArmOK
  <2> QED BY <1>4, <2>1, <2>2, <2>3, <2>4 DEF CoStep
<1>5. ASSUME NEW c \in Co, SockStep(c) PROVE ArmOK'
  <2>1. ASSUME NEW s \in Socks, RecvWait(c, s) \/ \E f \in Fds : ConnectStart(c, s, f) PROVE ArmOK'
    BY <2>1 DEF RecvWait, ConnectStart, PrepareWait, CoTypeOK, ArmOK
  <2>2. CASE ConnectArm(c) \/ RecvArm(c)
    BY <1>1, <2>2 DEF ConnectArm, RecvArm, Leave, evVars, CoTypeOK
  <2> QED BY <1>2, <1>5, <2>1, <2>2
          DEF SockStep, NewSocket, SetTimeout, ConnectFails, ConnectImmediate, RecvData, Close
<1>6. ASSUME NEW kind, SockFault(kind) PROVE ArmOK'
  BY <1>2, <1>6 DEF SockFault
<1>7. ASSUME NEW e \in batch, Dispatch(e) PROVE ArmOK'
  <2>1. CallHandler(e[3]) /\ UNCHANGED evVars
    BY <1>7 DEF Dispatch
  <2>2. UNCHANGED co \/ \E d, r : Resume(d, r)
    BY <2>1 DEF CallHandler, timer_handler, OnTimeout, connect_handler, recv_handler, Abandon, coVars
  <2> QED BY <1>1, <1>3, <2>1, <2>2 DEF evVars
<1>8. ASSUME NEW c \in Co, ExpireOne(c) PROVE ArmOK'
  BY <1>3, <1>8 DEF ExpireOne, timer_handler, OnTimeout
<1>9. CASE Loop
  BY <1>2, <1>6, <1>7, <1>8, <1>9
  DEF Loop, LoopExit, EpollWait, DispatchFault, BeginExpire, ExpireFault, EndExpire, EndIteration, appVars
<1>10. CASE Collector
  BY <1>2, <1>6, <1>10 DEF Collector, Gc, CloseWithoutContext
<1>11. CASE Network \/ Tick \/ Stopped \/ UNCHANGED vars
  BY <1>2, <1>11 DEF Network, Tick, Stopped, vars, appVars
<1> QED BY <1>4, <1>5, <1>9, <1>10, <1>11 DEF Next, Api

\* The handlers of d do not touch the wait of another coroutine.
LEMMA HandlersOther ==
    ASSUME WakeHyp, NEW d \in Co, handler[d] \in {"connect", "recv"},
           OnTimeout(data[d]) \/ connect_handler(data[d]) \/ recv_handler(data[d]),
           UNCHANGED <<evVars, fd, st, own, eof>>,
           NEW c \in Co, c # d, NEW s \in Socks, Registered(c, s)',
           \A f \in Fds, k \in Kinds : <<f, k, c>> \in batch => <<f, k, c>> \in batch'
    PROVE  Wakes(c, s)'
<1> USE DEF WakeHyp
<1> DEFINE t == data[d]
           f == fd'[s]
<1>1. WakeFacts(c, s)
  BY StillWaits
<1>2. t \in Socks /\ d \in Holders[t] /\ vm[t] = d /\ t # s
  BY <1>1 DEF IInv, EventOK, Owned, WakeFacts, Exclusive
<1>3. f \in Fds /\ ptr'[f] # None /\ StackInv
  BY <1>1, CoAssumption DEF WakeFacts, IInv
<1>4. co'[c] = co[c]
  BY <1>2 DEF OnTimeout, connect_handler, recv_handler, Resume, Abandon, coVars, IInv, CoTypeOK
<1>5. active'[s] = active[s]
  BY <1>2 DEF OnTimeout, connect_handler, recv_handler, CtlDel, IInv, SockTypeOK
<1>6. SameWait(c, s)
  BY <1>4, <1>5 DEF SameWait, evVars
<1>7. SameNet(f)
  <2>1. CASE OnTimeout(t)
    <3>1. UNCHANGED rx /\ (UNCHANGED epollVars \/ (fd[t] \in Fds /\ mtcp_epoll_deregister(fd[t])))
      BY <1>2, <2>1 DEF OnTimeout, CtlDel, IInv, SockTypeOK
    <3>2. CASE UNCHANGED epollVars
      BY <1>3, <3>1, <3>2, FrameOther DEF netVars
    <3> QED BY <1>3, <3>1, <3>2, DeregisterOther
  <2>2. CASE connect_handler(t)
    BY <1>3, <2>2, FrameOther DEF connect_handler, netVars
  <2>3. CASE recv_handler(t)
    <3>1. UNCHANGED <<reg, ptr, ready>> /\ (rx' = rx \/ rx' = [rx EXCEPT ![fd[t]] = 0])
      BY <2>3 DEF recv_handler, epollVars
    <3>2. rx'[f] > 0 => rx[f] > 0
      BY <1>3, <3>1 DEF StackInv, StackTypeOK
    <3> QED BY <3>1, <3>2 DEF SameNet
  <2> QED BY <2>1, <2>2, <2>3
<1> QED BY <1>6, <1>7, SameWakes DEF SameWait

\* The handler of c's own event resumes c, or the connect has failed.
LEMMA HandlersOwn ==
    ASSUME WakeHyp, NEW c \in Co, handler[c] \in {"connect", "recv"},
           \/ OnTimeout(data[c])
           \/ handler[c] = "connect" /\ connect_handler(data[c])
           \/ recv_handler(data[c]),
           UNCHANGED <<evVars, fd, st, own, eof>>, NEW s \in Socks, Registered(c, s)'
    PROVE  Wakes(c, s)'
<1> USE DEF WakeHyp
<1>1. WakeFacts(c, s) /\ data[c] = s /\ vm[s] = c
  BY StillWaits DEF WakeFacts, evVars, Owned
<1>2. \A r : ~Resume(c, r)
  BY <1>1, ResumeEffect DEF WakeFacts, IInv
<1>3. handler[c] = "connect" /\ SoError(s) /\ UNCHANGED <<co, active, epollVars>>
  BY <1>1, <1>2 DEF OnTimeout, connect_handler, recv_handler, Abandon
<1>4. ~Happened(c, fd[s])'
  <2>1. fd'[s] = fd[s] /\ fd[s] # None /\ handler'[c] = "connect"
    BY <1>1, <1>3, StackAssumption DEF WakeFacts, evVars
  <2>2. st'[fd[s]] # "est"
    BY <1>3, <2>1 DEF SoError
  <2> QED BY <2>1, <2>2 DEF Happened
<1>5. Registered(c, s)
  BY <1>3 DEF Registered, Waits, evVars, epollVars
<1> QED BY <1>3, <1>4, <1>5 DEF WakeInv, Wakes, evVars, epollVars

\* The stack raises an event for what happens on a registered id.
LEMMA StackWakes ==
    ASSUME WakeHyp, StackStep, UNCHANGED <<appVars, loopVars>>, NEW c \in Co, NEW s \in Socks
    PROVE  Wakes(c, s)'
<1> SUFFICES ASSUME Registered(c, s)' PROVE Wakes(c, s)'
  BY DEF Wakes
<1> USE DEF WakeHyp
<1>1. WakeFacts(c, s) /\ UNCHANGED <<co, handler, data, fd, active, batch>>
  BY StillWaits DEF appVars, coVars, evVars, sockVars, loopVars
<1>2. SameWait(c, s)
  BY <1>1 DEF SameWait
<1> DEFINE g == fd[s]
<1>3. PICK f \in Fds : Established(f) \/ Broken(f) \/ DataArrives(f) \/ FinArrives(f) \/ WriteSpace(f)
  BY DEF StackStep
<1>4. /\ g \in Fds /\ UNCHANGED <<own, reg, ptr>> /\ ready \subseteq ready'
      /\ StackInv
  BY <1>1, <1>3
  DEF WakeFacts, IInv, Established, Broken, DataArrives, FinArrives, WriteSpace, Raise
<1>5. CASE f # g
  <2>1. st'[g] = st[g] /\ eof'[g] = eof[g] /\ rx'[g] = rx[g]
    BY <1>3, <1>4, <1>5
    DEF Established, Broken, DataArrives, FinArrives, WriteSpace, StackInv, StackTypeOK
  <2>2. SameNet(g)
    BY <1>4, <2>1 DEF SameNet
  <2> QED BY <1>2, <2>2, SameWakes
<1>6. CASE f = g
  <2>1. /\ reg[g] = IF handler[c] = "connect" THEN "out" ELSE "in"
        /\ Happened(c, g) => OnItsWay(c, g)
    BY <1>1, <1>4 DEF Registered, Waits, WakeInv, Wakes
  <2>2. handler[c] \in {"connect", "recv"} /\ reg[g] # "off"
    BY <1>1, <2>1 DEF WakeFacts
  <2>3. ASSUME NEW k \in {"in", "out"}, k = reg[g], Raise(g, k) PROVE OnItsWay(c, g)'
    <3>1. <<g, k>> \in ready'
      BY <2>2, <2>3 DEF Raise
    <3> QED BY <1>1, <3>1 DEF OnItsWay, Kinds
  <2>4. OnItsWay(c, g) => OnItsWay(c, g)'
    BY <1>1, <1>4 DEF OnItsWay
  <2>5. Happened(c, g)' => OnItsWay(c, g)'
    <3>1. CASE handler[c] = "connect"
      <4>1. CASE Established(g)
        BY <2>1, <2>3, <3>1, <4>1 DEF Established
      <4>2. CASE Broken(g)
        <5>1. st'[g] = "failed"
          BY <1>4, <4>2 DEF Broken, StackInv, StackTypeOK
        <5> QED BY <1>1, <5>1 DEF Happened
      <4>3. CASE DataArrives(g) \/ FinArrives(g) \/ WriteSpace(g)
        <5>1. Happened(c, g)
          BY <3>1, <4>3 DEF DataArrives, FinArrives, WriteSpace, Happened
        <5> QED BY <2>1, <2>4, <5>1
      <4> QED BY <1>3, <1>6, <4>1, <4>2, <4>3
    <3>2. CASE handler[c] = "recv"
      <4>1. CASE Established(g)
        <5>1. rx'[g] = 0 /\ ~eof'[g] /\ handler'[c] = "recv"
          BY <1>1, <1>4, <3>2, <4>1 DEF Established, NetOK
        <5> QED BY <1>1, <5>1 DEF Happened
      <4>2. CASE Broken(g)
        <5>1. st'[g] = "failed"
          BY <1>4, <4>2 DEF Broken, StackInv, StackTypeOK
        <5> QED BY <1>1, <5>1 DEF Happened
      <4>3. CASE DataArrives(g) \/ FinArrives(g)
        BY <2>1, <2>3, <3>2, <4>3 DEF DataArrives, FinArrives
      <4>4. CASE WriteSpace(g)
        BY <2>1, <3>2, <4>4 DEF WriteSpace
      <4> QED BY <1>3, <1>6, <4>1, <4>2, <4>3, <4>4
    <3> QED BY <2>2, <3>1, <3>2
  <2> QED BY <1>1, <1>4, <2>1, <2>5 DEF Wakes
<1> QED BY <1>5, <1>6

\* mtcp_epoll_wait moves the events to the batch, each with the pointer that
\* is registered for its id.
LEMMA EpollWakes ==
    ASSUME WakeHyp, NEW ok \in BOOLEAN, EpollWait(ok), batch = {}, NEW c \in Co, NEW s \in Socks
    PROVE  Wakes(c, s)'
<1> SUFFICES ASSUME Registered(c, s)' PROVE Wakes(c, s)'
  BY DEF Wakes
<1> USE DEF WakeHyp
<1>1. /\ WakeFacts(c, s)
      /\ UNCHANGED <<co, handler, data, fd, active, st, own, rx, eof, reg, ptr>>
  BY StillWaits DEF EpollWait, appVars, coVars, evVars, sockVars
<1>2. Registered(c, s) /\ fd[s] \in Fds /\ ptr[fd[s]] = c
  BY <1>1 DEF Registered, Waits, WakeFacts
<1>3. Happened(c, fd[s])' => OnItsWay(c, fd[s])
  BY <1>1, <1>2 DEF WakeInv, Wakes, Happened
<1>4. ASSUME NEW k \in Kinds, <<fd[s], k>> \in ready PROVE OnItsWay(c, fd[s])'
  <2>1. CASE ok
    <3>1. <<fd[s], k, c>> \in batch'
      BY <1>2, <1>4, <2>1 DEF EpollWait
    <3> QED BY <1>1, <3>1 DEF OnItsWay
  <2>2. CASE ~ok
    BY <1>1, <1>4, <2>2 DEF EpollWait, OnItsWay
  <2> QED BY <2>1, <2>2
<1>5. OnItsWay(c, fd[s]) => OnItsWay(c, fd[s])'
  BY <1>4 DEF OnItsWay
<1> QED BY <1>1, <1>2, <1>3, <1>5 DEF WakeInv, Wakes

\* A step of another kind.
LEMMA SameWakesAll ==
    ASSUME WakeHyp, UNCHANGED <<handler, data, fd, active, netVars>>,
           \A c \in Co : co'[c] = "yielded" => co[c] = "yielded",
           NEW c \in Co, NEW s \in Socks,
           \A f \in Fds, k \in Kinds : <<f, k, c>> \in batch => <<f, k, c>> \in batch'
    PROVE  Wakes(c, s)'
<1> SUFFICES ASSUME Registered(c, s)' PROVE Wakes(c, s)'
  BY DEF Wakes
<1> USE DEF WakeHyp
<1>1. WakeFacts(c, s)
  BY StillWaits
<1>2. SameWait(c, s)
  BY <1>1 DEF SameWait, WakeFacts
<1>3. fd[s] # None => SameNet(fd[s])
  BY FrameOther DEF IInv, SockTypeOK
<1> QED BY <1>2, <1>3, SameWakes

\* One event of the batch.
LEMMA DispatchWakes ==
    ASSUME WakeHyp, NEW e \in batch, Dispatch(e), NEW c \in Co, NEW s \in Socks PROVE Wakes(c, s)'
<1> SUFFICES ASSUME Registered(c, s)' PROVE Wakes(c, s)'
  BY DEF Wakes
<1> USE DEF WakeHyp
<1> DEFINE d == e[3]
<1>1. /\ d \in Co /\ CallHandler(d) /\ UNCHANGED <<evVars, fd, st, own, eof>>
      /\ batch' = batch \ {e} /\ handler[d] \in {"NULL", "timer", "connect", "recv"}
  BY DEF Dispatch, IInv, LoopTypeOK, CoTypeOK
<1>2. c # d => \A f \in Fds, k \in Kinds : <<f, k, c>> \in batch => <<f, k, c>> \in batch'
  BY <1>1
<1>3. WakeFacts(c, s)
  BY StillWaits
<1>4. CASE handler[d] \in {"NULL", "timer"}
  <2>1. c # d
    BY <1>1, <1>3, <1>4 DEF WakeFacts, evVars
  <2>2. UNCHANGED <<active, rx, epollVars>>
    BY <1>1, <1>4 DEF CallHandler, timer_handler
  <2>3. UNCHANGED coVars \/ Resume(d, "ok")
    BY <1>1, <1>4 DEF CallHandler, timer_handler
  <2>4. \A b \in Co : co'[b] = "yielded" => co[b] = "yielded"
    BY <1>1, <2>3 DEF Resume, coVars, IInv, CoTypeOK
  <2> QED BY <1>1, <1>2, <2>1, <2>2, <2>4, SameWakesAll DEF evVars, netVars
<1>5. CASE handler[d] \in {"connect", "recv"}
  <2>1. \/ OnTimeout(data[d])
        \/ handler[d] = "connect" /\ connect_handler(data[d])
        \/ recv_handler(data[d])
    BY <1>1, <1>5 DEF CallHandler
  <2>2. CASE c # d
    BY <1>1, <1>2, <1>5, <2>1, <2>2, HandlersOther
  <2>3. CASE c = d
    BY <1>1, <1>5, <2>1, <2>3, HandlersOwn
  <2> QED BY <2>2, <2>3
<1> QED BY <1>1, <1>4, <1>5

\* One timer that is due.
LEMMA ExpireWakes ==
    ASSUME WakeHyp, NEW d \in Co, ExpireOne(d), NEW c \in Co, NEW s \in Socks PROVE Wakes(c, s)'
<1> SUFFICES ASSUME Registered(c, s)' PROVE Wakes(c, s)'
  BY DEF Wakes
<1> USE DEF WakeHyp
<1>1. /\ UNCHANGED <<evVars, fd, st, own, eof, batch>>
      /\ handler[d] \in {"timer", "connect", "recv"}
  BY DEF ExpireOne, loopVars, Expire, IsMin, IInv, EventOK, CoTypeOK
<1>2. CASE handler[d] = "timer"
  <2>1. UNCHANGED <<active, rx, epollVars>> /\ Resume(d, "ok")
    BY <1>2 DEF ExpireOne, timer_handler
  <2>2. \A b \in Co : co'[b] = "yielded" => co[b] = "yielded"
    BY <2>1 DEF Resume, coVars, IInv, CoTypeOK
  <2> QED BY <1>1, <2>1, <2>2, SameWakesAll DEF evVars, netVars
<1>3. CASE handler[d] \in {"connect", "recv"}
  <2>1. OnTimeout(data[d])
    BY <1>3 DEF ExpireOne
  <2>2. CASE c # d
    BY <1>1, <1>3, <2>1, <2>2, HandlersOther
  <2>3. CASE c = d
    BY <1>1, <1>3, <2>1, <2>3, HandlersOwn
  <2> QED BY <2>2, <2>3
<1> QED BY <1>1, <1>2, <1>3

\* The batch is empty outside the loop over the events.
BatchOK == phase # "dispatch" => batch = {}

LEMMA BatchStep == ASSUME IInv, BatchOK, [Next]_vars PROVE BatchOK'
<1>1. ASSUME UNCHANGED loopVars PROVE BatchOK'
  BY <1>1 DEF BatchOK, loopVars
<1>2. CASE Loop
  BY <1>1, <1>2
  DEF Loop, LoopExit, EpollWait, Dispatch, DispatchFault, BeginExpire, ExpireOne, ExpireFault,
      EndExpire, EndIteration, Idle, BatchOK
<1> QED BY <1>1, <1>2 DEF Next, Api, Collector, Network, Tick, Stopped, vars

\* Every step keeps WakeInv.
LEMMA WakeStep == ASSUME WakeHyp, BatchOK, [Next]_vars PROVE WakeInv'
<1> SUFFICES ASSUME NEW c \in Co, NEW s \in Socks PROVE Wakes(c, s)'
  BY DEF WakeInv
<1>1. ASSUME UNCHANGED <<coVars, evVars, sockVars, netVars, batch>> PROVE Wakes(c, s)'
  BY <1>1, SameWakesAll DEF coVars, evVars, sockVars
<1>2. ASSUME NEW kind, SockFault(kind), UNCHANGED batch PROVE Wakes(c, s)'
  BY <1>1, <1>2 DEF SockFault
<1>3. ASSUME NEW d \in Co, CoStep(d), UNCHANGED <<sockVars, netVars, batch>> PROVE Wakes(c, s)'
  <2> SUFFICES ASSUME Registered(c, s)' PROVE Wakes(c, s)'
    BY DEF Wakes
  <2> USE DEF WakeHyp
  <2>1. WakeFacts(c, s)
    BY StillWaits
  <2>2. ASSUME NEW b \in Co, Spawn(d, b) \/ SpawnWithArguments(d, b) PROVE Wakes(c, s)'
    <3>1. \A a \in Co : co'[a] = "yielded" => co[a] = "yielded"
      BY <2>2 DEF Spawn, SpawnWithArguments, IInv, CoTypeOK
    <3> QED BY <1>3, <2>2, <3>1, SameWakesAll DEF Spawn, SpawnWithArguments, evVars, sockVars
  <2>3. CASE Return(d)
    <3>1. \A a \in Co : co'[a] = "yielded" => co[a] = "yielded"
      BY <2>3 DEF Return, Leave, IInv, CoTypeOK
    <3> QED BY <1>3, <2>3, <3>1, SameWakesAll DEF Return, evVars, sockVars
  <2>4. ASSUME NEW delay \in Delays, Sleep(d, delay) PROVE Wakes(c, s)'
    <3>1. c # d
      BY <2>1, <2>4 DEF Sleep, PrepareWait, WakeFacts, IInv, CoTypeOK
    <3>2. SameWait(c, s)
      BY <1>3, <2>4, <3>1 DEF Sleep, PrepareWait, Leave, SameWait, sockVars, IInv, CoTypeOK
    <3>3. fd[s] # None => SameNet(fd[s])
      BY <1>3, FrameOther DEF IInv, SockTypeOK
    <3> QED BY <3>2, <3>3, SameWakes
  <2>5. ASSUME NEW delay \in Delays, SleepWhileLinked(d, delay) PROVE Wakes(c, s)'
    <3>1. c # d /\ SameWait(c, s)
      BY <1>3, <2>1, <2>5
      DEF SleepWhileLinked, PrepareWait, Runs, OnTop, WakeFacts, SameWait, sockVars, IInv, CoTypeOK
    <3>2. fd[s] # None => SameNet(fd[s])
      BY <1>3, FrameOther DEF IInv, SockTypeOK
    <3> QED BY <3>1, <3>2, SameWakes
  <2> QED BY <1>3, <2>2, <2>3, <2>4, <2>5 DEF CoStep
<1>4. ASSUME NEW d \in Co, Api(d) PROVE Wakes(c, s)'
  BY <1>3, <1>4, CallsWake, ArmWakes DEF Api, SockStep, loopVars
<1>5. ASSUME NEW t \in Socks, Gc(t), UNCHANGED batch PROVE Wakes(c, s)'
  <2> SUFFICES ASSUME Registered(c, s)' PROVE Wakes(c, s)'
    BY DEF Wakes
  <2> USE DEF WakeHyp
  <2>1. WakeFacts(c, s) /\ UNCHANGED <<coVars, evVars, fd>>
    BY <1>5, StillWaits DEF Gc
  <2>2. s # t
    BY <1>5, <2>1 DEF Gc, Collectable, Waits, WakeFacts, coVars, evVars
  <2>3. UNCHANGED active \/ active' = ActiveAfterClose(t)
    BY <1>5 DEF Gc, close_helper
  <2>4. active'[s] = active[s]
    BY <2>2, <2>3 DEF ActiveAfterClose, IInv, SockTypeOK
  <2>5. SameWait(c, s)
    BY <1>5, <2>1, <2>4 DEF SameWait, coVars, evVars
  <2>6. fd[s] \in Fds /\ own'[fd[s]] # None
    BY <2>1, SocketAssumption DEF WakeFacts
  <2>7. SameNet(fd[s])
    BY <1>5, <2>6, CloseHelperOther DEF Gc
  <2> QED BY <2>5, <2>7, SameWakes
<1>6. CASE Collector
  BY <1>2, <1>5, <1>6 DEF Collector, CloseWithoutContext, loopVars
<1>7. ASSUME NEW ok \in BOOLEAN, EpollWait(ok) PROVE Wakes(c, s)'
  BY <1>7, EpollWakes DEF BatchOK, EpollWait, Idle
<1>8. CASE Loop
  BY <1>1, <1>2, <1>7, <1>8, DispatchWakes, ExpireWakes
  DEF Loop, LoopExit, DispatchFault, BeginExpire, ExpireFault, EndExpire, EndIteration,
      appVars, loopVars
<1>9. CASE Network
  BY <1>9, StackWakes DEF Network
<1>10. CASE Tick \/ Stopped \/ UNCHANGED vars
  BY <1>1, <1>10 DEF Tick, Stopped, vars, appVars, loopVars
<1> QED BY <1>4, <1>6, <1>8, <1>9, <1>10 DEF Next

(***************************************************************************)
(* No wakeup is lost while no object is shared: from the first half of the *)
(* call, over the stack's queue and the batch, to the handler, what a      *)
(* registered wait is for is always announced.                             *)
(***************************************************************************)
THEOREM WakeupsKept == Exclusive => (Spec => []WakeupNotLost)
<1> SUFFICES ASSUME Exclusive PROVE Spec => []WakeupNotLost
  OBVIOUS
<1>1. Init => ArmOK /\ BatchOK /\ WakeInv
  <2> SUFFICES ASSUME Init PROVE ArmOK /\ BatchOK /\ WakeInv
    OBVIOUS
  <2>1. ArmOK /\ BatchOK
    BY DEF Init, CoInit, ArmOK, BatchOK
  <2>2. \A s \in Socks : fd[s] = None
    BY DEF Init, SockInit
  <2> QED BY <2>1, <2>2 DEF WakeInv, Wakes, Registered
<1>2. /\ IInv /\ Owned /\ NetOK /\ IInv' /\ Owned' /\ ArmOK /\ BatchOK /\ WakeInv /\ [Next]_vars
      => ArmOK' /\ BatchOK' /\ WakeInv'
  BY ArmStep, BatchStep, WakeStep DEF WakeHyp
<1>3. WakeInv => WakeupNotLost
  BY DEF WakeInv, Wakes, Registered, OnItsWay, WakeupNotLost
<1> QED BY <1>1, <1>2, <1>3, OwnershipInvariance, NetInvariance, PTL DEF Spec
=============================================================================
