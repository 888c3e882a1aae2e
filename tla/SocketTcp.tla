------------------------------ MODULE SocketTcp ------------------------------
(***************************************************************************)
(* TCP sockets for Lua scripts (mtcp_lua_socket_tcp.c), over mTCP and the  *)
(* coroutines of the core.                                                 *)
(*                                                                         *)
(* The scripts are arbitrary: a running coroutine makes any call with any  *)
(* object it can reach (Holders).  connect and recv that wait are two      *)
(* steps, the stack's call and the mtcp_epoll_ctl after it, with the stack *)
(* at work between them.  A call that only returns an error, and send,     *)
(* change nothing modelled here and are left out.                          *)
(***************************************************************************)
EXTENDS Coroutine, Mtcp

CONSTANTS
    Holders,        \* Holders[s]: the coroutines whose script can reach s
    Timeouts,       \* the values scripts pass to settimeout
    DefaultTimeout  \* 6000 ms

ASSUME SocketAssumption ==
    /\ None \notin Socks
    /\ Holders \in [Socks -> SUBSET Co]
    /\ Timeouts \subseteq Nat \ {0}
    /\ DefaultTimeout \in Nat \ {0}

VARIABLES
    obj,        \* obj[s]: not yet created, live, or collected
    fd,         \* sctx->fd
    connected,  \* sctx->connected
    active,     \* sctx->active: the fd is believed to be in the epoll set
    vm,         \* sctx->vm and sctx->vm_ctx, always assigned together
    timeout     \* the three timeouts, always assigned together

sockVars == <<obj, fd, connected, active, vm, timeout>>

SockTypeOK ==
    /\ obj \in [Socks -> {"none", "live", "freed"}]
    /\ fd \in [Socks -> Fds \cup {None}]
    /\ connected \in [Socks -> BOOLEAN]
    /\ active \in [Socks -> BOOLEAN]
    /\ vm \in [Socks -> Co \cup {None}]
    /\ timeout \in [Socks -> Nat]

\* The values mtcp_lua_socket_tcp gives a new object.
SockInit ==
    /\ obj = [s \in Socks |-> "none"]
    /\ fd = [s \in Socks |-> None]
    /\ connected = [s \in Socks |-> FALSE]
    /\ active = [s \in Socks |-> FALSE]
    /\ vm = [s \in Socks |-> None]
    /\ timeout = [s \in Socks |-> DefaultTimeout]

CanUse(c, s) == Runs(c) /\ c \in Holders[s] /\ obj[s] = "live"

SockFault(kind) ==
    /\ fault' = kind
    /\ UNCHANGED <<timerVars, coVars, evVars, sockVars, netVars>>

-----------------------------------------------------------------------------
(***************************************************************************)
(* mtcp_lua_epoll_ctl.  ADD becomes MOD when the object is marked active.  *)
(***************************************************************************)
CtlAddOK(s) ==
    /\ fd[s] # None /\ st[fd[s]] # "free"
    /\ active[s] <=> reg[fd[s]] # "off"

CtlAdd(s, kind, c) ==
    /\ mtcp_epoll_register(fd[s], kind, c)
    /\ active' = [active EXCEPT ![s] = TRUE]

\* Mutant of CtlDel: the pointer is cleared, but queued events stay.
CtlDelLeavesEvents(s) ==
    IF fd[s] # None /\ reg[fd[s]] # "off"
    THEN /\ reg' = [reg EXCEPT ![fd[s]] = "off"]
         /\ ptr' = [ptr EXCEPT ![fd[s]] = None]
         /\ active' = [active EXCEPT ![s] = FALSE]
         /\ UNCHANGED ready
    ELSE UNCHANGED <<epollVars, active>>

CtlDel(s) ==
    IF fd[s] # None /\ reg[fd[s]] # "off"
    THEN mtcp_epoll_deregister(fd[s]) /\ active' = [active EXCEPT ![s] = FALSE]
    ELSE UNCHANGED <<epollVars, active>>

\* What close_helper leaves in `active': a DEL that fails does not clear it.
ActiveAfterClose(s) == [active EXCEPT ![s] = active[s] /\ reg[fd[s]] = "off"]

\* mtcp_lua_socket_tcp_close_helper: neither fd nor connected is reset.
close_helper(s) ==
    IF fd[s] # None
    THEN mtcp_close(fd[s]) /\ active' = ActiveAfterClose(s)
    ELSE UNCHANGED <<netVars, active>>

-----------------------------------------------------------------------------
\* mtcp.socket.tcp
NewSocket(c, s) ==
    /\ Runs(c) /\ c \in Holders[s] /\ obj[s] = "none"
    /\ obj' = [obj EXCEPT ![s] = "live"]
    /\ UNCHANGED <<timerVars, coVars, evVars, fault, netVars, fd, connected, active, vm, timeout>>

SetTimeout(c, s, t) ==
    /\ CanUse(c, s)
    /\ timeout' = [timeout EXCEPT ![s] = t]
    /\ UNCHANGED <<timerVars, coVars, evVars, fault, netVars, obj, fd, connected, active, vm>>

(***************************************************************************)
(* connect.  Every call makes a new mTCP socket f; the close() of a        *)
(* previous fd is the libc one, which does not know mTCP ids.              *)
(*                                                                         *)
(* If mtcp_setsock_nonblock or mtcp_connect fails, f is left behind; in    *)
(* the second case close_helper closes the object's previous fd, which is  *)
(* f itself when the object was closed before and its id has come back.    *)
(***************************************************************************)
ConnectFails(c, s, f, closes) ==
    /\ CanUse(c, s)
    /\ IF closes /\ fd[s] # None
       THEN /\ st[f] = "free"
            /\ st' = [st EXCEPT ![f] = "idle", ![fd[s]] = "free"]
            /\ own' = [own EXCEPT ![f] = s, ![fd[s]] = None]
            /\ rx' = [rx EXCEPT ![fd[s]] = 0]
            /\ eof' = [eof EXCEPT ![fd[s]] = FALSE]
            /\ mtcp_epoll_deregister(fd[s])
            /\ active' = ActiveAfterClose(s)
       ELSE mtcp_socket(f, s, "idle") /\ UNCHANGED active
    /\ UNCHANGED <<timerVars, coVars, evVars, fault, obj, fd, connected, vm, timeout>>

\* Mutant of ConnectImmediate: connected is set, but no context.
ConnectImmediateConnected(c, s, f) ==
    /\ CanUse(c, s)
    /\ mtcp_socket(f, s, "est")
    /\ fd' = [fd EXCEPT ![s] = f]
    /\ connected' = [connected EXCEPT ![s] = TRUE]
    /\ UNCHANGED <<timerVars, coVars, evVars, fault, obj, active, vm, timeout>>

\* mtcp_connect returns 0: neither connected nor vm is set.
ConnectImmediate(c, s, f) ==
    /\ CanUse(c, s)
    /\ mtcp_socket(f, s, "est")
    /\ fd' = [fd EXCEPT ![s] = f]
    /\ UNCHANGED <<timerVars, coVars, evVars, fault, obj, connected, active, vm, timeout>>

\* EINPROGRESS or EAGAIN.
ConnectStart(c, s, f) ==
    /\ CanUse(c, s)
    /\ mtcp_socket(f, s, "syn")
    /\ fd' = [fd EXCEPT ![s] = f]
    /\ vm' = [vm EXCEPT ![s] = c]
    /\ PrepareWait(c, "connect", s)
    /\ co' = [co EXCEPT ![c] = "conn_arm"]
    /\ UNCHANGED <<tree, key, timer_set, stack, fault, obj, connected, active, timeout>>

ConnectArm(c) ==
    LET s == data[c] IN
    /\ OnTop(c, "conn_arm")
    /\ IF CtlAddOK(s)
       THEN /\ CtlAdd(s, "out", c)
            /\ event_add_timer(c, timeout[s])
            /\ Leave(c, "yielded")
            /\ UNCHANGED <<fd, connected, st, own, rx, eof>>
       ELSE /\ close_helper(s)
            /\ fd' = [fd EXCEPT ![s] = None]
            /\ connected' = [connected EXCEPT ![s] = FALSE]
            /\ co' = [co EXCEPT ![c] = "running"]
            /\ UNCHANGED <<tree, key, timer_set, stack>>
    /\ UNCHANGED <<timedout, evVars, res, fault, obj, vm, timeout>>

(***************************************************************************)
(* recv.  mtcp_read returns part of the buffer, 0 at the end of the        *)
(* stream, or -1; errno is looked at without the result, so after a 0 it   *)
(* is whatever an earlier call left.                                       *)
(***************************************************************************)
IsConnected(s) == fd[s] # None /\ connected[s]

RecvData(c, s) ==
    /\ CanUse(c, s) /\ IsConnected(s) /\ Readable(fd[s])
    /\ \E left \in 0 .. rx[fd[s]] - 1 : rx' = [rx EXCEPT ![fd[s]] = left]
    /\ UNCHANGED <<timerVars, coVars, evVars, fault, sockVars, st, own, eof, epollVars>>

RecvWait(c, s) ==
    /\ CanUse(c, s) /\ IsConnected(s)
    /\ AtEnd(fd[s]) # "error" /\ rx[fd[s]] = 0
    /\ vm' = [vm EXCEPT ![s] = c]
    /\ PrepareWait(c, "recv", s)
    /\ co' = [co EXCEPT ![c] = "recv_arm"]
    /\ UNCHANGED <<tree, key, timer_set, stack, fault, obj, fd, connected, active, timeout,
                   netVars>>

\* Mutants of RecvArm: no timer; no change of the event registered by connect.
RecvArmUntimed(c) ==
    LET s == data[c] IN
    /\ OnTop(c, "recv_arm")
    /\ IF CtlAddOK(s) THEN CtlAdd(s, "in", c) ELSE UNCHANGED <<epollVars, active>>
    /\ Leave(c, "yielded")
    /\ UNCHANGED <<timerVars, evVars, res, fault, obj, fd, connected, vm, timeout,
                   st, own, rx, eof>>

RecvArmUnlessActive(c) ==
    LET s == data[c] IN
    /\ OnTop(c, "recv_arm")
    /\ event_add_timer(c, timeout[s])
    /\ IF ~active[s] /\ CtlAddOK(s) THEN CtlAdd(s, "in", c) ELSE UNCHANGED <<epollVars, active>>
    /\ Leave(c, "yielded")
    /\ UNCHANGED <<timedout, evVars, res, fault, obj, fd, connected, vm, timeout, st, own, rx, eof>>

\* A failure of mtcp_lua_epoll_ctl is ignored.
RecvArm(c) ==
    LET s == data[c] IN
    /\ OnTop(c, "recv_arm")
    /\ event_add_timer(c, timeout[s])
    /\ IF CtlAddOK(s) THEN CtlAdd(s, "in", c) ELSE UNCHANGED <<epollVars, active>>
    /\ Leave(c, "yielded")
    /\ UNCHANGED <<timedout, evVars, res, fault, obj, fd, connected, vm, timeout, st, own, rx, eof>>

(***************************************************************************)
(* close and __gc take the context from vm_ctx, which is NULL until the    *)
(* first wait on the object.  An object is collected when no script can    *)
(* reach it any more, which a coroutine that waits on it still can.        *)
(***************************************************************************)
NoContext(s) == fd[s] # None /\ vm[s] = None

Close(c, s) ==
    /\ CanUse(c, s) /\ ~NoContext(s)
    /\ close_helper(s)
    /\ UNCHANGED <<timerVars, coVars, evVars, fault, obj, fd, connected, vm, timeout>>

Waits(c, s) == co[c] = "yielded" /\ handler[c] \in {"connect", "recv"} /\ data[c] = s

Collectable(s) == obj[s] = "live" /\ (\E c \in Co : Runs(c)) /\ (\A c \in Co : ~Waits(c, s))

\* Mutant of Gc: only the memory is released.
GcWithoutClose(s) ==
    /\ Collectable(s) /\ ~NoContext(s)
    /\ obj' = [obj EXCEPT ![s] = "freed"]
    /\ UNCHANGED <<timerVars, coVars, evVars, fault, netVars, fd, connected, active, vm, timeout>>

Gc(s) ==
    /\ Collectable(s) /\ ~NoContext(s)
    /\ close_helper(s)
    /\ obj' = [obj EXCEPT ![s] = "freed"]
    /\ UNCHANGED <<timerVars, coVars, evVars, fault, fd, connected, vm, timeout>>

CloseWithoutContext(s) ==
    /\ NoContext(s)
    /\ Collectable(s) \/ \E c \in Co : CanUse(c, s)
    /\ SockFault("null_ctx")

SockStep(c) ==
    \/ \E s \in Socks :
         \/ NewSocket(c, s)
         \/ \E t \in Timeouts : SetTimeout(c, s, t)
         \/ \E f \in Fds :
              \/ \E closes \in BOOLEAN : ConnectFails(c, s, f, closes)
              \/ ConnectImmediate(c, s, f)
              \/ ConnectStart(c, s, f)
         \/ RecvData(c, s)
         \/ RecvWait(c, s)
         \/ Close(c, s)
    \/ ConnectArm(c)
    \/ RecvArm(c)

-----------------------------------------------------------------------------
(***************************************************************************)
(* Event handlers, called with the context c whose event_t fired; `timed'  *)
(* is ev->timedout.  A socket handler continues the coroutine the OBJECT   *)
(* names (vm), which is not necessarily c.  They change the variables of   *)
(* coVars, connected, active, rx and epollVars, and the timers when not    *)
(* timed.                                                                  *)
(***************************************************************************)
HandlerFault(c, timed) ==
    IF handler[c] \notin {"connect", "recv"} THEN "none"
    ELSE IF obj[data[c]] = "freed" THEN "freed_socket"
    ELSE IF ~timed /\ c \notin tree THEN "del_unlinked"
    ELSE "none"

timer_handler(c) ==
    Resume(c, "ok") /\ UNCHANGED <<connected, active, rx, epollVars>>

\* Mutant of OnTimeout: the coroutine is not told.
OnTimeoutSilent(s) ==
    CtlDel(s) /\ UNCHANGED <<coVars, connected, rx>>

\* The branch of both socket handlers for ev->timedout.
OnTimeout(s) ==
    CtlDel(s) /\ Resume(vm[s], "timeout") /\ UNCHANGED <<connected, rx>>

\* SO_ERROR, or the failure of mtcp_getsockopt.
SoError(s) == fd[s] = None \/ st[fd[s]] \notin {"syn", "est"}

\* After an error the coroutine is not resumed.
connect_handler(s) ==
    /\ IF SoError(s)
       THEN Abandon(vm[s]) /\ UNCHANGED connected
       ELSE Resume(vm[s], "ok") /\ connected' = [connected EXCEPT ![s] = TRUE]
    /\ UNCHANGED <<active, rx, epollVars>>

\* What recv_handler returns to the script after reading to the end.
RecvResult(f) ==
    IF AtEnd(f) = "error" THEN "failed" ELSE IF rx[f] = 0 THEN "closed" ELSE "data"

\* Mutant of recv_handler: it waits on when nothing was read.
recv_handler_OnlyData(s) ==
    /\ IF RecvResult(fd[s]) = "data" THEN Resume(vm[s], "data") ELSE UNCHANGED coVars
    /\ rx' = IF Readable(fd[s]) THEN [rx EXCEPT ![fd[s]] = 0] ELSE rx
    /\ UNCHANGED <<connected, active, epollVars>>

recv_handler(s) ==
    /\ Resume(vm[s], RecvResult(fd[s]))
    /\ rx' = IF Readable(fd[s]) THEN [rx EXCEPT ![fd[s]] = 0] ELSE rx
    /\ UNCHANGED <<connected, active, epollVars>>
=============================================================================
