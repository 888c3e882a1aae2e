------------------------------- MODULE MtcpLua -------------------------------
(***************************************************************************)
(* One core of mtcp_lua: the event loop of thread_entry (main.c) around    *)
(* the timers, the coroutines, their sockets and the mTCP stack.           *)
(*                                                                         *)
(* A core is one application thread plus the stack's thread, so a step is  *)
(* one of three kinds: a step of the event loop (when no Lua code runs),   *)
(* an API call of the coroutine that runs, or a step of the stack or the   *)
(* clock, at any moment.                                                   *)
(***************************************************************************)
EXTENDS SocketTcp

CONSTANTS
    LoopLimit,      \* 10: the loop calls exit(5) in this iteration
    EpollTimeout,   \* 500 ms: mtcp_epoll_wait waits at most this long
    LoopSleep,      \* sleep(1) at the end of an iteration
    MaxNow          \* bound: the clock runs freely up to here

ASSUME LoopAssumption ==
    /\ LoopLimit \in Nat \ {0}
    /\ EpollTimeout \in Nat
    /\ LoopSleep \in Nat
    /\ MaxNow \in Nat

VARIABLES
    phase,      \* where the loop is; "exit": the process has called exit(5)
    batch,      \* events[i .. nevents-1] still to be dispatched
    snap,       \* current_msec of the running event_expire_timers
    count       \* iterations

loopVars == <<phase, batch, snap, count>>
appVars  == <<timerVars, coVars, evVars, fault, sockVars>>
vars     == <<now, appVars, netVars, loopVars>>

LoopTypeOK ==
    /\ phase \in {"wait", "dispatch", "expire", "sleep", "exit"}
    /\ batch \subseteq Fds \X Kinds \X Co
    /\ snap \in 0 .. KeyMod - 1
    /\ count \in Nat

TypeOK == TimerTypeOK /\ CoTypeOK /\ SockTypeOK /\ StackTypeOK(Socks, Co) /\ LoopTypeOK

Init ==
    /\ CoInit
    /\ SockInit
    /\ StackInit
    /\ phase = "wait"
    /\ batch = {}
    /\ snap = 0
    /\ count = 0

-----------------------------------------------------------------------------
(* The loop of thread_entry. *)

Idle(p) == fault = "none" /\ phase = p /\ stack = <<>>

LoopExit ==
    /\ Idle("wait")
    /\ count + 1 = LoopLimit
    /\ phase' = "exit"
    /\ count' = count + 1
    /\ UNCHANGED <<now, appVars, netVars, batch, snap>>

\* mtcp_epoll_wait returns what is ready, or nothing after its timeout; or it
\* fails, and there are no events.
EpollWait(ok) ==
    /\ Idle("wait")
    /\ count + 1 < LoopLimit
    /\ phase' = "dispatch"
    /\ count' = count + 1
    /\ batch' = IF ok THEN {<<e[1], e[2], ptr[e[1]]>> : e \in ready} ELSE {}
    /\ ready' = IF ok THEN {} ELSE ready
    /\ now' = IF ok /\ ready = {} THEN now + EpollTimeout ELSE now
    /\ UNCHANGED <<appVars, snap, st, own, rx, eof, reg, ptr>>

\* Mutant of CallHandler: the socket handlers leave the timer armed.
CallHandlerKeepsTimer(c) ==
    /\ UNCHANGED timerVars
    /\ CASE handler[c] = "NULL"  -> UNCHANGED <<coVars, connected, active, rx, epollVars>>
         [] handler[c] = "timer" -> timer_handler(c)
         [] timedout[c]          -> OnTimeout(data[c])
         [] OTHER                ->
              IF handler[c] = "connect" THEN connect_handler(data[c]) ELSE recv_handler(data[c])

\* ev->handler(ev) for an event of the batch.
CallHandler(c) ==
    CASE handler[c] = "NULL"  -> UNCHANGED <<timerVars, coVars, connected, active, rx, epollVars>>
      [] handler[c] = "timer" -> timer_handler(c) /\ UNCHANGED timerVars
      [] OTHER ->
           IF timedout[c]
           THEN OnTimeout(data[c]) /\ UNCHANGED timerVars
           ELSE /\ event_del_timer(c)
                /\ UNCHANGED timedout
                /\ IF handler[c] = "connect" THEN connect_handler(data[c]) ELSE recv_handler(data[c])

\* One iteration of the loop over the events, with any event left.
Dispatch(e) ==
    /\ Idle("dispatch")
    /\ HandlerFault(e[3], timedout[e[3]]) = "none"
    /\ batch' = batch \ {e}
    /\ CallHandler(e[3])
    /\ UNCHANGED <<now, evVars, fault, obj, fd, vm, timeout, st, own, eof, phase, snap, count>>

DispatchFault(e) ==
    /\ Idle("dispatch")
    /\ HandlerFault(e[3], timedout[e[3]]) # "none"
    /\ SockFault(HandlerFault(e[3], timedout[e[3]]))
    /\ UNCHANGED <<now, loopVars>>

\* event_expire_timers begins with its one reading of the clock.
BeginExpire ==
    /\ Idle("dispatch") /\ batch = {}
    /\ phase' = "expire"
    /\ snap' = current_msec
    /\ UNCHANGED <<now, appVars, netVars, batch, count>>

ExpireOne(c) ==
    /\ Idle("expire")
    /\ HandlerFault(c, TRUE) = "none"
    /\ Expire(c, snap)
    /\ IF handler[c] = "timer" THEN timer_handler(c) ELSE OnTimeout(data[c])
    /\ UNCHANGED <<now, evVars, fault, obj, fd, vm, timeout, st, own, eof, loopVars>>

ExpireFault(c) ==
    /\ Idle("expire")
    /\ IsMin(c) /\ IsDue(c, snap)
    /\ HandlerFault(c, TRUE) # "none"
    /\ SockFault(HandlerFault(c, TRUE))
    /\ UNCHANGED <<now, loopVars>>

EndExpire ==
    /\ Idle("expire")
    /\ NothingDue(snap)
    /\ phase' = "sleep"
    /\ snap' = 0
    /\ UNCHANGED <<now, appVars, netVars, batch, count>>

\* sleep(1)
EndIteration ==
    /\ Idle("sleep")
    /\ phase' = "wait"
    /\ now' = now + LoopSleep
    /\ UNCHANGED <<appVars, netVars, batch, snap, count>>

-----------------------------------------------------------------------------
Alive == fault = "none" /\ phase # "exit"

\* The clock always gets past the reading of a running event_expire_timers.
Tick ==
    /\ Alive
    /\ now < MaxNow \/ (phase = "expire" /\ snap = current_msec)
    /\ now' = now + 1
    /\ UNCHANGED <<appVars, netVars, loopVars>>

\* The process has ended, by exit(5) or by a fault.
Stopped == ~Alive /\ UNCHANGED vars

Api(c) ==
    \/ CoStep(c) /\ UNCHANGED <<now, sockVars, netVars, loopVars>>
    \/ SockStep(c) /\ UNCHANGED <<now, loopVars>>

Collector == \E s \in Socks : (Gc(s) \/ CloseWithoutContext(s)) /\ UNCHANGED <<now, loopVars>>

Loop ==
    \/ LoopExit
    \/ \E ok \in BOOLEAN : EpollWait(ok)
    \/ \E e \in batch : Dispatch(e) \/ DispatchFault(e)
    \/ BeginExpire
    \/ \E c \in Co : ExpireOne(c) \/ ExpireFault(c)
    \/ EndExpire
    \/ EndIteration

Network == Alive /\ StackStep /\ UNCHANGED <<now, appVars, loopVars>>

Next ==
    \/ \E c \in Co : Api(c)
    \/ Collector
    \/ Loop
    \/ Network
    \/ Tick
    \/ Stopped

Spec == Init /\ [][Next]_vars

-----------------------------------------------------------------------------
(***************************************************************************)
(* A coroutine that waits has an armed timer, so that every wait ends; the *)
(* one exception is a connect that has failed, whose script is never told. *)
(***************************************************************************)
WaitIsTimed ==
    \A c \in Co : co[c] = "yielded" /\ c \notin tree => handler[c] = "connect" /\ res[c] = "failed"

(***************************************************************************)
(* A handler called for a coroutine that waits follows no bad pointer, be  *)
(* the event as old as it may: the object has not been collected and the   *)
(* timer is still linked.  What can go wrong does so for a coroutine that  *)
(* has ended, or whose connect has failed.                                 *)
(***************************************************************************)
WaitIsSafe ==
    \A c \in Co : co[c] = "yielded" /\ res[c] # "failed" => HandlerFault(c, timedout[c]) = "none"

(***************************************************************************)
(* A coroutine is resumed with its timer out of the tree, so that the next *)
(* mtcp.sleep does not link it twice.  The one exception is an event of    *)
(* the batch that finds the coroutine asleep: timer_handler takes it for   *)
(* the end of the sleep and leaves the timer (see NeverLinkedTwice).       *)
(***************************************************************************)
ResumedUnlinked ==
    [][\A c \in Co : co[c] = "yielded" /\ co'[c] = "running" /\ c \in tree' =>
          handler[c] = "timer" /\ \E e \in batch \ batch' : e[3] = c]_vars

(***************************************************************************)
(* Whoever takes the timer of a waiting coroutine out of the tree resumes  *)
(* that coroutine, unless it is connect_handler and the connect failed.    *)
(***************************************************************************)
TimerGoneMeansResumed ==
    [][\A c \in Co : co[c] = "yielded" /\ c \in tree \ tree' =>
          co'[c] = "running" \/ (handler[c] = "connect" /\ SoError(data[c]))]_vars

(***************************************************************************)
(* No wakeup is lost: while a coroutine waits, on a connection of its own  *)
(* that its object has registered for it, for something that has already   *)
(* happened, an event for it is on its way, in the stack or in the batch.  *)
(* An object that is not marked active has not registered anything: recv   *)
(* ignores that mtcp_epoll_ctl fails when an earlier user of the id, with  *)
(* another object, has left it registered.                                 *)
(***************************************************************************)
Happened(c, f) ==
    \/ handler[c] = "connect" /\ st[f] = "est"
    \/ handler[c] = "recv" /\ st[f] = "est" /\ (rx[f] > 0 \/ eof[f])

WakeupNotLost ==
    \A c \in Co, s \in Socks :
        LET f == fd[s] IN
        Waits(c, s) /\ f # None /\ own[f] = s /\ ptr[f] = c /\ active[s] /\ Happened(c, f) =>
            \E k \in Kinds : <<f, k>> \in ready \/ <<f, k, c>> \in batch

(***************************************************************************)
(* Whatever the users of an object do to each other, a wait loses its      *)
(* timer without a resume in two cases only: its connect has failed, or    *)
(* another coroutine has waited on the object since, whose name the        *)
(* handler finds in sctx->vm.                                              *)
(***************************************************************************)
LostOnlyToAnother ==
    [][\A c \in Co : co[c] = "yielded" /\ c \in tree \ tree' =>
          \/ co'[c] = "running"
          \/ handler[c] = "connect" /\ SoError(data[c])
          \/ handler[c] \in {"connect", "recv"} /\ vm[data[c]] # c]_vars

(***************************************************************************)
(* mtcp.sleep does not return before its time is over, but for an event of *)
(* the batch that finds the coroutine asleep: the readiness of a socket    *)
(* the coroutine has waited on earlier ends the sleep.                     *)
(***************************************************************************)
SleepsItsTime ==
    [][\A c \in Co : co[c] = "yielded" /\ handler[c] = "timer" /\ co'[c] = "running" =>
          \/ msec_int(key[c], current_msec) <= 0
          \/ \E e \in batch \ batch' : e[3] = c]_vars

(***************************************************************************)
(* Whoever takes the timer of a waiting coroutine out of the tree resumes  *)
(* the coroutine, so that a failed connect is reported to the script.      *)
(***************************************************************************)
WaitEndsInResume ==
    [][\A c \in Co : co[c] = "yielded" /\ c \in tree \ tree' => co'[c] = "running"]_vars

(***************************************************************************)
(* An mTCP connection is forgotten while it is open only by connect: by a  *)
(* second connect, which replaces the object's fd, and by one that fails,  *)
(* whose new id no object ever has.  close, __gc and a failed registration *)
(* close what they let go.                                                 *)
(***************************************************************************)
Holds(s, f) == obj[s] = "live" /\ fd[s] = f /\ own[f] = s

ForgottenOnlyByConnect ==
    [][\A f \in Fds, s \in Socks :
          /\ Holds(s, f) /\ st'[f] # "free" => Holds(s, f)' \/ fd'[s] \in Fds \ {f}
          /\ st[f] = "free" /\ own'[f] = s /\ st'[f] # "idle" => Holds(s, f)']_vars

(***************************************************************************)
(* An object that send and recv accept has a context, so that close and    *)
(* __gc of it do not follow a NULL pointer: an object without one, after a *)
(* connect that succeeded at once, was never usable.                       *)
(***************************************************************************)
ConnectedHasContext == \A s \in Socks : connected[s] => vm[s] # None

(***************************************************************************)
(* A core implements the scheduler: whatever the stack, the timers and     *)
(* stale events do, control passes as in Scheduler.                        *)
(***************************************************************************)
Suspended == {c \in Co : co[c] \in {"new", "yielded"}}

Sched == INSTANCE Scheduler WITH
    Tasks  <- Co,
    First  <- Main,
    calls  <- stack,
    waits  <- [c \in Suspended \cap tree |-> handler[c]],
    lost   <- Suspended \ tree,
    ended  <- {c \in Co : co[c] = "dead"},
    result <- [c \in Co |-> IF co[c] = "running" THEN res[c] ELSE "none"]

ImplementsScheduler == Sched!Spec

(***************************************************************************)
(* send and recv let a call through only for an object that has a          *)
(* connection of its own.                                                  *)
(***************************************************************************)
ConnectedIsOpen ==
    \A s \in Socks : obj[s] = "live" /\ IsConnected(s) => own[fd[s]] = s

(***************************************************************************)
(* A node of the timer tree is never inserted again while it is linked.    *)
(***************************************************************************)
NeverLinkedTwice == fault # "double_insert"
=============================================================================
