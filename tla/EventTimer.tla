----------------------------- MODULE EventTimer -----------------------------
(***************************************************************************)
(* The timers of one core (event_timer.h, event_timer.c): every event_t    *)
(* has one timer node, and ctx->timer is the tree of the nodes that are    *)
(* armed.  The tree is abstracted to the SET of armed events (module       *)
(* RBTree shows that the pointer structure implements exactly that); the   *)
(* keys keep the code's unsigned arithmetic and signed comparisons.        *)
(*                                                                         *)
(* The operators below are the bodies of the C functions.  They are used   *)
(* by TimerService, which drives them with an arbitrary client, and by     *)
(* MtcpLua, where the coroutines and sockets are the client.               *)
(***************************************************************************)
EXTENDS Msec

CONSTANTS
    Events,     \* the event_t structures, one per coroutine context
    IntMod,     \* 2^32: abs() takes an int
    LazyDelay   \* TIMER_LAZY_DELAY, 300 ms

ASSUME TimerAssumption ==
    /\ IntMod \in Nat \ {0}
    /\ LazyDelay \in Nat

VARIABLES
    now,        \* the clock gettimeofday reads, in msec since the start
    tree,       \* the events whose node is linked into ctx->timer
    key,        \* key[e] = ev->timer.key
    timer_set,  \* ev->timer_set
    timedout    \* ev->timedout

timerVars == <<tree, key, timer_set, timedout>>

TimerTypeOK ==
    /\ now \in Nat
    /\ tree \subseteq Events
    /\ key \in [Events -> 0 .. KeyMod - 1]
    /\ timer_set \in [Events -> BOOLEAN]
    /\ timedout \in [Events -> BOOLEAN]

current_msec == now % KeyMod

\* abs(diff): the long is cut to an int, and abs(INT_MIN) is INT_MIN.
Abs(d) == LET i == Signed(d, IntMod) IN IF i < 0 THEN Signed(-i, IntMod) ELSE i

NewKey(timer) == (current_msec + timer) % KeyMod

\* Mutant of KeepsTimer: any earlier deadline counts as close.
KeepsTimerSigned(e, timer) ==
    timer_set[e] /\ msec_int(NewKey(timer), key[e]) < LazyDelay

(***************************************************************************)
(* event_add_timer keeps the previous key of a timer that is set when the  *)
(* new one is less than LazyDelay away from it.                            *)
(***************************************************************************)
KeepsTimer(e, timer) ==
    timer_set[e] /\ Abs(msec_int(NewKey(timer), key[e])) < LazyDelay

event_add_timer(e, timer) ==
    IF KeepsTimer(e, timer)
    THEN UNCHANGED <<tree, key, timer_set>>
    ELSE /\ tree' = tree \cup {e}
         /\ key' = [key EXCEPT ![e] = NewKey(timer)]
         /\ timer_set' = [timer_set EXCEPT ![e] = TRUE]

\* rbtree_delete also zeroes the key of the node it unlinks.
event_del_timer(e) ==
    /\ tree' = tree \ {e}
    /\ key' = [key EXCEPT ![e] = 0]
    /\ timer_set' = [timer_set EXCEPT ![e] = FALSE]

\* Mutant of IsMin: keys are compared as unsigned numbers.
IsMinUnsigned(e) == e \in tree /\ \A o \in tree : key[e] <= key[o]

(***************************************************************************)
(* rbtree_min: an armed event with no armed event before it.  Which of     *)
(* several equal keys comes first is left open.                            *)
(***************************************************************************)
IsMin(e) == e \in tree /\ \A o \in tree : msec_int(key[e], key[o]) <= 0

\* Mutant of IsDue: < 0 for <= 0.
IsDueStrict(e, at) == msec_int(key[e], at) < 0

\* Mutant of IsDue: a timer with one millisecond left is due.
IsDueEarly(e, at) == msec_int(key[e], at) <= 1

\* The test in the loop of event_expire_timers; `at' is its one reading of
\* the clock.
IsDue(e, at) == msec_int(key[e], at) <= 0

\* One round of the loop of event_expire_timers, up to the handler's call.
Expire(e, at) ==
    /\ IsMin(e)
    /\ IsDue(e, at)
    /\ event_del_timer(e)
    /\ timedout' = [timedout EXCEPT ![e] = TRUE]

\* The loop of event_expire_timers ends: the tree is empty or its least
\* timer is still ahead.
NothingDue(at) == \A e \in tree : IsMin(e) => ~IsDue(e, at)

\* Mutant of event_find_timer: a deadline in the past is not cut to 0.
event_find_timer_Negative ==
    IF tree = {} THEN -1
    ELSE LET m == CHOOSE e \in tree : IsMin(e) IN msec_int(key[m], current_msec)

\* event_find_timer: -1 when nothing is armed.
event_find_timer ==
    IF tree = {} THEN -1
    ELSE LET m == CHOOSE e \in tree : IsMin(e)
             t == msec_int(key[m], current_msec)
         IN  IF t > 0 THEN t ELSE 0

(***************************************************************************)
(* The flag and the tree agree.  event_add_timer and its callers decide by *)
(* the flag alone whether the node is linked: linking it twice or          *)
(* unlinking it when it is not linked corrupts the tree.  In a core it is  *)
(* so until mtcp.sleep clears the flag of a linked node.                   *)
(***************************************************************************)
FlagMatchesTree == \A e \in Events : timer_set[e] <=> e \in tree
=============================================================================
