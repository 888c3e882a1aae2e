---------------------------- MODULE TimerService ----------------------------
(***************************************************************************)
(* The timers of one core under an arbitrary client: events are armed,     *)
(* re-armed and disarmed at any time, also from handlers in the middle of  *)
(* a pass of event_expire_timers, while the clock runs and the unsigned    *)
(* keys wrap around.                                                       *)
(*                                                                         *)
(* History: want[e] is the time the last event_add_timer asked for, due[e] *)
(* the time that belongs to the key it left in the node; both are times of *)
(* the unbounded clock `now', never reduced modulo KeyMod.                 *)
(***************************************************************************)
EXTENDS EventTimer, FiniteSetsExt

CONSTANTS
    Timers,     \* the delays clients ask for
    Start,      \* the clock's first value
    MaxNow,     \* bound: the clock stops here, and passes begin before
    MaxLag      \* the event loop starts a pass at least this often

ASSUME ServiceAssumption ==
    /\ Timers \subseteq Nat
    /\ Start \in Nat
    /\ MaxNow \in Nat
    /\ MaxLag \in Nat
    \* delays are ints, and far below half the range of the keys
    /\ \A t \in Timers : 2 * (t + MaxLag + LazyDelay) < KeyMod
    /\ \A t \in Timers : 2 * (t + MaxLag + LazyDelay) < IntMod

VARIABLES
    pass,       \* event_expire_timers is running
    at,         \* its reading of the clock
    want,       \* history: the requested deadlines
    due         \* history: the deadlines of the keys in the tree

vars == <<now, tree, key, timer_set, timedout, pass, at, want, due>>

TypeOK ==
    /\ TimerTypeOK
    /\ pass \in BOOLEAN
    /\ at \in Nat
    /\ want \in [Events -> Nat]
    /\ due \in [Events -> Nat]

\* event_timer_init, and event_t's cleared by their owners.
Init ==
    /\ now = Start
    /\ tree = {}
    /\ key = [e \in Events |-> 0]
    /\ timer_set = [e \in Events |-> FALSE]
    /\ timedout = [e \in Events |-> FALSE]
    /\ pass = FALSE
    /\ at = 0
    /\ want = [e \in Events |-> 0]
    /\ due = [e \in Events |-> 0]

\* Every caller of event_add_timer clears ev->timedout first.
Add(e, t) ==
    /\ event_add_timer(e, t)
    /\ timedout' = [timedout EXCEPT ![e] = FALSE]
    /\ want' = [want EXCEPT ![e] = now + t]
    /\ due' = IF KeepsTimer(e, t) THEN due ELSE [due EXCEPT ![e] = now + t]
    /\ UNCHANGED <<now, pass, at>>

\* The history of a timer ends when it leaves the tree.
Forget(e) ==
    /\ want' = [want EXCEPT ![e] = 0]
    /\ due' = [due EXCEPT ![e] = 0]

Del(e) ==
    /\ timer_set[e]
    /\ event_del_timer(e)
    /\ Forget(e)
    /\ UNCHANGED <<now, timedout, pass, at>>

BeginPass ==
    /\ ~pass
    /\ now < MaxNow
    /\ pass' = TRUE
    /\ at' = now
    /\ UNCHANGED <<now, timerVars, want, due>>

\* Mutant of ExpireOne: the clock is read again for every timer.
ExpireOneReadsClock(e) ==
    /\ pass
    /\ Expire(e, now % KeyMod)
    /\ Forget(e)
    /\ UNCHANGED <<now, pass, at>>

ExpireOne(e) ==
    /\ pass
    /\ Expire(e, at % KeyMod)
    /\ Forget(e)
    /\ UNCHANGED <<now, pass, at>>

EndPass ==
    /\ pass
    /\ NothingDue(at % KeyMod)
    /\ pass' = FALSE
    /\ at' = 0
    /\ UNCHANGED <<now, timerVars, want, due>>

\* The clock runs, but the loop never leaves a timer behind for MaxLag.
Tick ==
    /\ now < MaxNow
    /\ \A e \in tree : now - due[e] < MaxLag
    /\ pass => now - at < MaxLag
    /\ now' = now + 1
    /\ UNCHANGED <<timerVars, pass, at, want, due>>

Next ==
    \/ \E e \in Events, t \in Timers : Add(e, t)
    \/ \E e \in Events : Del(e)
    \/ \E e \in Events : ExpireOne(e)
    \/ BeginPass
    \/ EndPass
    \/ Tick

Spec == Init /\ [][Next]_vars

(***************************************************************************)
(* Fairness: a pass takes its next step (each handler returns), and the    *)
(* clock runs.                                                             *)
(***************************************************************************)
FairSpec ==
    /\ Spec
    /\ WF_vars(EndPass \/ \E e \in Events : ExpireOne(e))
    /\ WF_vars(Tick)

-----------------------------------------------------------------------------
(***************************************************************************)
(* The lazy rule of event_add_timer may keep an older key, but never one   *)
(* that is TIMER_LAZY_DELAY or more away from the deadline the caller      *)
(* asked for last, however often the timer is re-armed.                    *)
(***************************************************************************)
LazyWithinDelay ==
    \A e \in tree : \/ due[e] = want[e]
                    \/ /\ due[e] - want[e] < LazyDelay
                       /\ want[e] - due[e] < LazyDelay

(***************************************************************************)
(* event_find_timer returns the time left until the earliest armed         *)
(* deadline, 0 when it is past, also while keys wrap around.               *)
(***************************************************************************)
FindTimerExact ==
    event_find_timer = IF tree = {} THEN -1
                       ELSE LET m == Min({due[e] : e \in tree})
                            IN  IF m > now THEN m - now ELSE 0

(***************************************************************************)
(* event_expire_timers calls handlers in the order of the deadlines and    *)
(* none before its deadline: the signed comparison of wrapped keys agrees  *)
(* with the order of the times they stand for.                             *)
(***************************************************************************)
ExpiryInOrder ==
    [][\A e \in tree : timedout'[e] /\ e \notin tree' =>
            /\ due[e] <= at
            /\ \A o \in tree : due[e] <= due[o]]_vars

(***************************************************************************)
(* A pass of event_expire_timers leaves no timer behind that was due when  *)
(* it read the clock, even one armed by a handler during the pass.         *)
(***************************************************************************)
PassLeavesNothingDue ==
    [][pass /\ ~pass' => \A e \in tree' : due'[e] > at]_vars

(***************************************************************************)
(* A pass of event_expire_timers ends, even if every handler it calls      *)
(* re-arms its timer with 0, as a script that loops over mtcp.sleep(0)     *)
(* does: the pass goes by the one reading of the clock it began with.      *)
(***************************************************************************)
PassEnds == pass ~> ~pass
=============================================================================
