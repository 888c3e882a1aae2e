-------------------------- MODULE TimerServiceProofs --------------------------
(***************************************************************************)
(* Proofs about the timers under an arbitrary client, for any number of    *)
(* events, any widths of keys and ints and any clock, wrap-around          *)
(* included.  They rest on one fact about the signed comparison            *)
(* (MsecExact) and on ServiceAssumption: delays, the lag of the loop and   *)
(* the lazy delay together stay below half the range of a key.             *)
(***************************************************************************)
EXTENDS TimerService, MsecProofs

\* abs() of a difference that fits into an int.
LEMMA AbsExact ==
    ASSUME NEW d \in Int, -IntMod < 2 * d, 2 * d < IntMod
    PROVE  Abs(d) = IF d < 0 THEN -d ELSE d
<1>1. IntMod \in Nat \ {0}
  BY TimerAssumption
<1>2. ASSUME NEW x \in Int, -IntMod < 2 * x, 2 * x < IntMod PROVE Signed(x, IntMod) = x
  <2> DEFINE q == 0
  <2>1. q \in Int /\ x = IntMod * q + x
    BY <1>1
  <2> HIDE DEF q
  <2> QED BY <1>1, <1>2, <2>1, SignedExact
<1>3. Signed(d, IntMod) = d /\ Signed(-d, IntMod) = -d
  BY <1>1, <1>2
<1> QED BY <1>3 DEF Abs

\* The deadline of an armed timer is behind the clock by at most the lag of the
\* loop, and ahead of it by at most some delay.
InReach(e) ==
    /\ now - due[e] <= MaxLag
    /\ \E d \in Timers : due[e] - now <= d

\* The key of an armed timer is its deadline modulo KeyMod.
KeysMatch ==
    \A e \in tree : key[e] = due[e] % KeyMod /\ InReach(e) /\ ~timedout[e]

PassIsRecent == pass => at <= now /\ now - at <= MaxLag

TInv == TypeOK /\ FlagMatchesTree /\ KeysMatch /\ PassIsRecent /\ LazyWithinDelay

-----------------------------------------------------------------------------
(* Keys and deadlines. *)

\* What the assumptions say about one delay.
LEMMA DelayBounds ==
    ASSUME NEW d \in Timers
    PROVE  /\ d \in Nat /\ MaxLag \in Nat /\ LazyDelay \in Nat /\ KeyMod \in Nat \ {0}
           /\ 2 * (d + MaxLag + LazyDelay) < KeyMod
           /\ 2 * (d + MaxLag + LazyDelay) < IntMod
BY ServiceAssumption, TimerAssumption, KeyModAssumption

\* The key of a new timer is its deadline modulo KeyMod.
LEMMA NewKeyExact ==
    ASSUME TypeOK, NEW d \in Timers PROVE NewKey(d) = (now + d) % KeyMod
<1>1. now \in Nat /\ d \in Nat /\ KeyMod \in Nat \ {0}
  BY DelayBounds DEF TypeOK, TimerTypeOK
<1> DEFINE p == now \div KeyMod
           u == now % KeyMod
           q == (u + d) \div KeyMod
           v == (u + d) % KeyMod
<1>2. p \in Int /\ u \in 0 .. KeyMod - 1 /\ now = KeyMod * p + u
  BY <1>1, DivMod
<1>3. q \in Int /\ v \in 0 .. KeyMod - 1 /\ u + d = KeyMod * q + v
  <2>1. u + d \in Int
    BY <1>1, <1>2
  <2> QED BY <1>1, <2>1, DivMod
<1>4. NewKey(d) = v
  BY DEF NewKey, current_msec
<1> HIDE DEF p, u, q, v
<1>5. now + d = KeyMod * (p + q) + v /\ now + d \in Int /\ p + q \in Int
  BY <1>1, <1>2, <1>3
<1>6. (now + d) % KeyMod = v
  BY <1>1, <1>3, <1>5, Remainder
<1> QED BY <1>4, <1>6

\* The keys of armed timers are in the order of their deadlines.
LEMMA KeyOrder ==
    ASSUME TInv, NEW e \in tree, NEW o \in tree
    PROVE  msec_int(key[e], key[o]) = due[e] - due[o]
<1>1. due[e] \in Nat /\ due[o] \in Nat /\ now \in Nat
  BY DEF TInv, TypeOK, TimerTypeOK
<1>2. PICK d \in Timers : due[e] - now <= d
  BY DEF TInv, KeysMatch, InReach
<1>3. PICK c \in Timers : due[o] - now <= c
  BY DEF TInv, KeysMatch, InReach
<1>4. now - due[e] <= MaxLag /\ now - due[o] <= MaxLag
  BY DEF TInv, KeysMatch, InReach
<1>5. -KeyMod < 2 * (due[e] - due[o]) /\ 2 * (due[e] - due[o]) < KeyMod
  BY <1>1, <1>2, <1>3, <1>4, DelayBounds
<1> QED BY <1>1, <1>5, MsecExact DEF TInv, KeysMatch

\* A key compared with a clock reading not older than MaxLag.
LEMMA KeyAgainstClock ==
    ASSUME TInv, NEW e \in tree, NEW c \in Nat, c <= now, now - c <= MaxLag
    PROVE  msec_int(key[e], c % KeyMod) = due[e] - c
<1>1. due[e] \in Nat /\ now \in Nat
  BY DEF TInv, TypeOK, TimerTypeOK
<1>2. PICK d \in Timers : due[e] - now <= d
  BY DEF TInv, KeysMatch, InReach
<1>3. now - due[e] <= MaxLag
  BY DEF TInv, KeysMatch, InReach
<1>4. -KeyMod < 2 * (due[e] - c) /\ 2 * (due[e] - c) < KeyMod
  BY <1>1, <1>2, <1>3, DelayBounds
<1> QED BY <1>1, <1>4, MsecExact DEF TInv, KeysMatch

\* rbtree_min gives a timer with the earliest deadline.
LEMMA MinIsEarliest ==
    ASSUME TInv, NEW e \in tree PROVE IsMin(e) <=> \A o \in tree : due[e] <= due[o]
<1>1. \A o \in tree : due[e] \in Nat /\ due[o] \in Nat
  BY DEF TInv, TypeOK, TimerTypeOK
<1>2. \A o \in tree : msec_int(key[e], key[o]) <= 0 <=> due[e] <= due[o]
  BY <1>1, KeyOrder
<1> QED BY <1>2 DEF IsMin

\* Some timer of a tree that is not empty is the earliest.
LEMMA MinExists == ASSUME TInv, tree # {} PROVE \E e \in tree : IsMin(e)
<1> DEFINE T == {due[e] : e \in tree}
<1>1. T \in SUBSET Nat /\ T # {}
  BY DEF TInv, TypeOK, TimerTypeOK
<1>2. PICK x \in T : \A y \in T : x <= y
  BY <1>1, LeastNumber
<1>3. PICK e \in tree : x = due[e]
  OBVIOUS
<1>4. \A o \in tree : due[e] <= due[o]
  BY <1>2, <1>3
<1> QED BY <1>4, MinIsEarliest

\* The lazy rule keeps a key only if its deadline is close to the new one.
LEMMA KeepsMeansClose ==
    ASSUME TInv, NEW e \in Events, NEW d \in Timers, KeepsTimer(e, d)
    PROVE  /\ e \in tree
           /\ due[e] - (now + d) < LazyDelay
           /\ (now + d) - due[e] < LazyDelay
<1>1. e \in tree
  BY DEF KeepsTimer, TInv, FlagMatchesTree
<1>2. due[e] \in Nat /\ now \in Nat
  BY DEF TInv, TypeOK, TimerTypeOK
<1>3. PICK c \in Timers : due[e] - now <= c
  BY <1>1 DEF TInv, KeysMatch, InReach
<1>4. now - due[e] <= MaxLag
  BY <1>1 DEF TInv, KeysMatch, InReach
<1> DEFINE diff == (now + d) - due[e]
<1>5. /\ diff \in Int /\ -KeyMod < 2 * diff /\ 2 * diff < KeyMod
      /\ -IntMod < 2 * diff /\ 2 * diff < IntMod
  <2>1. /\ c \in Nat /\ d \in Nat /\ MaxLag \in Nat /\ LazyDelay \in Nat
        /\ 2 * (d + MaxLag + LazyDelay) < KeyMod /\ 2 * (d + MaxLag + LazyDelay) < IntMod
        /\ 2 * (c + MaxLag + LazyDelay) < KeyMod /\ 2 * (c + MaxLag + LazyDelay) < IntMod
    BY DelayBounds
  <2>2. IntMod \in Nat /\ KeyMod \in Nat
    BY TimerAssumption, KeyModAssumption
  <2> QED BY <1>2, <1>3, <1>4, <2>1, <2>2
<1>6. msec_int(NewKey(d), key[e]) = diff
  BY <1>1, <1>2, <1>5, NewKeyExact, MsecExact, DelayBounds DEF TInv, KeysMatch
<1>7. Abs(diff) = IF diff < 0 THEN -diff ELSE diff
  <2> HIDE DEF diff
  <2> QED BY <1>5, AbsExact
<1>8. Abs(diff) < LazyDelay
  BY <1>6 DEF KeepsTimer
<1> QED BY <1>1, <1>2, <1>7, <1>8, DelayBounds

-----------------------------------------------------------------------------
(* The invariant. *)

\* The first state.
LEMMA InitInv == Init => TInv
<1>1. 0 \in 0 .. KeyMod - 1
  BY KeyModAssumption
<1> SUFFICES ASSUME Init PROVE TInv
  OBVIOUS
<1>2. now \in Nat /\ tree = {}
  BY ServiceAssumption DEF Init
<1>3. TypeOK
  BY <1>1, <1>2 DEF Init, TypeOK, TimerTypeOK
<1>4. FlagMatchesTree /\ KeysMatch /\ PassIsRecent /\ LazyWithinDelay
  BY <1>2 DEF Init, FlagMatchesTree, KeysMatch, PassIsRecent, LazyWithinDelay
<1> QED BY <1>3, <1>4 DEF TInv

\* event_add_timer, which sets a new key or keeps a close one.
LEMMA AddInv == ASSUME TInv, NEW e \in Events, NEW d \in Timers, Add(e, d) PROVE TInv'
<1>1. now \in Nat /\ d \in Nat /\ now + d \in Nat /\ now' = now /\ pass' = pass /\ at' = at
  BY DelayBounds DEF TInv, TypeOK, TimerTypeOK, Add
<1>2. /\ want' = [want EXCEPT ![e] = now + d]
      /\ timedout' = [timedout EXCEPT ![e] = FALSE]
  BY DEF Add
<1>3. PassIsRecent'
  BY <1>1 DEF TInv, PassIsRecent
<1>4. CASE KeepsTimer(e, d)
  <2>1. UNCHANGED <<tree, key, timer_set, due>>
    BY <1>4 DEF Add, event_add_timer
  <2>2. /\ e \in tree
        /\ due[e] - (now + d) < LazyDelay
        /\ (now + d) - due[e] < LazyDelay
    BY <1>4, KeepsMeansClose
  <2>3. TypeOK' /\ FlagMatchesTree'
    BY <1>1, <1>2, <2>1 DEF TInv, TypeOK, TimerTypeOK, FlagMatchesTree
  <2>4. KeysMatch'
    BY <1>1, <1>2, <2>1 DEF TInv, TypeOK, TimerTypeOK, KeysMatch, InReach
  <2>5. LazyWithinDelay'
    BY <1>1, <1>2, <2>1, <2>2 DEF TInv, TypeOK, TimerTypeOK, LazyWithinDelay
  <2> QED BY <1>3, <2>3, <2>4, <2>5 DEF TInv
<1>5. CASE ~KeepsTimer(e, d)
  <2>1. /\ tree' = tree \cup {e}
        /\ key' = [key EXCEPT ![e] = NewKey(d)]
        /\ timer_set' = [timer_set EXCEPT ![e] = TRUE]
        /\ due' = [due EXCEPT ![e] = now + d]
    BY <1>5 DEF Add, event_add_timer
  <2>2. NewKey(d) = (now + d) % KeyMod /\ NewKey(d) \in 0 .. KeyMod - 1
    BY <1>1, NewKeyExact, KeyType DEF TInv
  <2>3. TypeOK' /\ FlagMatchesTree'
    BY <1>1, <1>2, <2>1, <2>2 DEF TInv, TypeOK, TimerTypeOK, FlagMatchesTree
  <2>4. KeysMatch'
    <3> SUFFICES ASSUME NEW o \in tree'
                 PROVE  key'[o] = due'[o] % KeyMod /\ InReach(o)' /\ ~timedout'[o]
      BY DEF KeysMatch
    <3>1. CASE o = e
      <4>1. due'[e] = now + d /\ key'[e] = NewKey(d) /\ ~timedout'[e]
        BY <1>2, <2>1 DEF TInv, TypeOK, TimerTypeOK
      <4>2. now - (now + d) <= MaxLag /\ (now + d) - now <= d
        BY <1>1, DelayBounds
      <4> QED BY <1>1, <2>2, <3>1, <4>1, <4>2 DEF InReach
    <3>2. CASE o # e
      BY <1>1, <1>2, <2>1, <3>2 DEF TInv, TypeOK, TimerTypeOK, KeysMatch, InReach
    <3> QED BY <3>1, <3>2
  <2>5. LazyWithinDelay'
    BY <1>1, <1>2, <2>1 DEF TInv, TypeOK, TimerTypeOK, LazyWithinDelay
  <2> QED BY <1>3, <2>3, <2>4, <2>5 DEF TInv
<1> QED BY <1>4, <1>5

\* A timer leaves the tree, by event_del_timer or by event_expire_timers.
LEMMA RemoveInv ==
    ASSUME TInv, NEW e \in Events, event_del_timer(e), Forget(e), UNCHANGED <<now, pass, at>>,
           timedout' \in [Events -> BOOLEAN], \A o \in Events \ {e} : timedout'[o] = timedout[o]
    PROVE  TInv'
<1>1. 0 \in 0 .. KeyMod - 1
  BY KeyModAssumption
<1>2. /\ tree' = tree \ {e} /\ key' = [key EXCEPT ![e] = 0]
      /\ timer_set' = [timer_set EXCEPT ![e] = FALSE]
      /\ want' = [want EXCEPT ![e] = 0] /\ due' = [due EXCEPT ![e] = 0]
  BY DEF event_del_timer, Forget
<1>3. TypeOK' /\ FlagMatchesTree' /\ PassIsRecent'
  BY <1>1, <1>2 DEF TInv, TypeOK, TimerTypeOK, FlagMatchesTree, PassIsRecent
<1>4. \A o \in tree' : /\ o \in tree /\ key'[o] = key[o] /\ due'[o] = due[o]
                       /\ want'[o] = want[o] /\ timedout'[o] = timedout[o]
  BY <1>2 DEF TInv, TypeOK, TimerTypeOK
<1>5. KeysMatch' /\ LazyWithinDelay'
  BY <1>4 DEF TInv, KeysMatch, InReach, LazyWithinDelay
<1> QED BY <1>3, <1>5 DEF TInv

\* The clock runs.
LEMMA TickInv == ASSUME TInv, Tick PROVE TInv'
<1>1. now \in Nat /\ now' = now + 1 /\ MaxLag \in Nat
  BY ServiceAssumption DEF TInv, TypeOK, TimerTypeOK, Tick
<1>2. UNCHANGED <<tree, key, timer_set, timedout, pass, at, want, due>>
  BY DEF Tick, timerVars
<1>3. TypeOK' /\ FlagMatchesTree' /\ LazyWithinDelay'
  BY <1>1, <1>2 DEF TInv, TypeOK, TimerTypeOK, FlagMatchesTree, LazyWithinDelay
<1>4. ASSUME NEW e \in tree PROVE InReach(e)'
  <2>1. due[e] \in Nat /\ now - due[e] < MaxLag
    BY <1>4 DEF TInv, TypeOK, TimerTypeOK, Tick
  <2>2. PICK d \in Timers : due[e] - now <= d
    BY <1>4 DEF TInv, KeysMatch, InReach
  <2>3. due[e] - (now + 1) <= d /\ (now + 1) - due[e] <= MaxLag
    BY <1>1, <2>1, <2>2, DelayBounds
  <2>4. due' = due /\ now' = now + 1
    BY <1>1, <1>2
  <2>5. due'[e] - now' <= d /\ now' - due'[e] <= MaxLag
    BY <2>3, <2>4
  <2> QED BY <2>5 DEF InReach
<1>5. KeysMatch'
  BY <1>2, <1>4 DEF TInv, KeysMatch
<1>6. PassIsRecent'
  <2>1. pass => at \in Nat /\ at <= now /\ now - at < MaxLag
    BY DEF TInv, TypeOK, PassIsRecent, Tick
  <2> QED BY <1>1, <1>2, <2>1 DEF PassIsRecent
<1> QED BY <1>3, <1>5, <1>6 DEF TInv

\* The other steps of a pass.
LEMMA PassInv == ASSUME TInv, BeginPass \/ EndPass PROVE TInv'
<1>1. UNCHANGED <<now, tree, key, timer_set, timedout, want, due>>
  BY DEF BeginPass, EndPass, timerVars
<1>2. now \in Nat /\ MaxLag \in Nat /\ 0 \in Nat
  BY ServiceAssumption DEF TInv, TypeOK, TimerTypeOK
<1>3. pass' \in BOOLEAN /\ at' \in Nat /\ PassIsRecent'
  <2>1. CASE BeginPass
    <3>1. pass' = TRUE /\ at' = now
      BY <2>1 DEF BeginPass
    <3>2. now <= now /\ now - now <= MaxLag
      BY <1>2
    <3> QED BY <1>1, <1>2, <3>1, <3>2 DEF PassIsRecent
  <2>2. CASE EndPass
    BY <1>2, <2>2 DEF EndPass, PassIsRecent
  <2> QED BY <2>1, <2>2
<1> QED BY <1>1, <1>3 DEF TInv, TypeOK, TimerTypeOK, FlagMatchesTree, KeysMatch, InReach, LazyWithinDelay

\* Every step keeps the invariant.
LEMMA NextInv == TInv /\ [Next]_vars => TInv'
<1> SUFFICES ASSUME TInv, [Next]_vars PROVE TInv'
  OBVIOUS
<1>1. ASSUME NEW e \in Events, NEW d \in Timers, Add(e, d) PROVE TInv'
  BY <1>1, AddInv
<1>2. ASSUME NEW e \in Events, Del(e) PROVE TInv'
  <2>1. timedout' \in [Events -> BOOLEAN] /\ timedout' = timedout
    BY <1>2 DEF Del, TInv, TypeOK, TimerTypeOK
  <2> QED BY <1>2, <2>1, RemoveInv DEF Del
<1>3. ASSUME NEW e \in Events, ExpireOne(e) PROVE TInv'
  <2>1. /\ timedout' \in [Events -> BOOLEAN]
        /\ \A o \in Events \ {e} : timedout'[o] = timedout[o]
    BY <1>3 DEF ExpireOne, Expire, TInv, TypeOK, TimerTypeOK
  <2> QED BY <1>3, <2>1, RemoveInv DEF ExpireOne, Expire
<1>4. CASE UNCHANGED vars
  BY <1>4 DEF vars, TInv, TypeOK, TimerTypeOK, FlagMatchesTree, KeysMatch, InReach, PassIsRecent,
              LazyWithinDelay
<1> QED BY <1>1, <1>2, <1>3, <1>4, PassInv, TickInv DEF Next

\* The invariant holds in every reachable state.
LEMMA TimerInvariance == Spec => []TInv
BY InitInv, NextInv, PTL DEF Spec

-----------------------------------------------------------------------------
(* The theorems. *)

(***************************************************************************)
(* However often a timer is re-armed and its key kept by the lazy rule,    *)
(* the deadline in the tree is less than TIMER_LAZY_DELAY away from the    *)
(* one asked for last.                                                     *)
(***************************************************************************)
THEOREM LazyIsClose == Spec => []LazyWithinDelay
<1>1. TInv => LazyWithinDelay
  BY DEF TInv
<1> QED BY <1>1, TimerInvariance, PTL

(***************************************************************************)
(* event_find_timer is the time to the earliest deadline, wherever the     *)
(* wrapped keys are.                                                       *)
(***************************************************************************)
THEOREM FindIsExact == Spec => []FindTimerExact
<1>1. ASSUME TInv PROVE FindTimerExact
  <2>1. CASE tree = {}
    BY <2>1 DEF FindTimerExact, event_find_timer
  <2>2. CASE tree # {}
    <3> DEFINE m == CHOOSE e \in tree : IsMin(e)
               T == {due[e] : e \in tree}
    <3>1. m \in tree /\ IsMin(m)
      BY <1>1, <2>2, MinExists
    <3>2. now \in Nat /\ \A e \in tree : due[e] \in Nat
      BY <1>1 DEF TInv, TypeOK, TimerTypeOK
    <3>3. \A o \in tree : due[m] <= due[o]
      BY <1>1, <3>1, MinIsEarliest
    <3>4. Min(T) = due[m]
      <4>1. due[m] \in T /\ \A y \in T : due[m] <= y
        BY <3>1, <3>3
      <4>2. \A x \in T : (\A y \in T : x <= y) => x = due[m]
        BY <3>1, <3>2, <3>3
      <4> HIDE DEF T, m
      <4> QED BY <4>1, <4>2 DEF Min
    <3>5. msec_int(key[m], current_msec) = due[m] - now
      <4>1. now <= now /\ now - now <= MaxLag
        BY <3>2, ServiceAssumption
      <4> HIDE DEF m
      <4> QED BY <1>1, <3>1, <3>2, <4>1, KeyAgainstClock DEF current_msec
    <3>6. event_find_timer = IF due[m] - now > 0 THEN due[m] - now ELSE 0
      BY <2>2, <3>5 DEF event_find_timer
    <3>7. due[m] - now > 0 <=> due[m] > now
      BY <3>1, <3>2
    <3> HIDE DEF m
    <3> QED BY <2>2, <3>4, <3>6, <3>7 DEF FindTimerExact
  <2> QED BY <2>1, <2>2
<1> QED BY <1>1, TimerInvariance, PTL

(***************************************************************************)
(* event_expire_timers calls the handlers in the order of the deadlines,   *)
(* and none early.                                                         *)
(***************************************************************************)
THEOREM ExpiryOrdered == Spec => ExpiryInOrder
<1> DEFINE Ordered == \A e \in tree : timedout'[e] /\ e \notin tree' =>
                          /\ due[e] <= at
                          /\ \A o \in tree : due[e] <= due[o]
<1>1. ASSUME TInv, Next PROVE Ordered
  <2> SUFFICES ASSUME NEW e \in tree, timedout'[e], e \notin tree'
               PROVE  due[e] <= at /\ \A o \in tree : due[e] <= due[o]
    OBVIOUS
  <2>1. e \in Events /\ ~timedout[e]
    BY <1>1 DEF TInv, TypeOK, TimerTypeOK, KeysMatch
  <2>2. PICK o \in Events : Del(o) \/ ExpireOne(o)
    BY <1>1 DEF Next, Add, event_add_timer, BeginPass, EndPass, Tick, timerVars
  <2>3. o = e
    BY <2>2 DEF Del, ExpireOne, Expire, event_del_timer
  <2>4. ExpireOne(e)
    BY <2>1, <2>2, <2>3 DEF Del
  <2>5. at \in Nat /\ at <= now /\ now - at <= MaxLag /\ due[e] \in Nat
    BY <1>1, <2>1, <2>4 DEF ExpireOne, TInv, TypeOK, PassIsRecent
  <2>6. msec_int(key[e], at % KeyMod) = due[e] - at
    BY <1>1, <2>5, KeyAgainstClock
  <2>7. due[e] - at <= 0
    BY <2>4, <2>6 DEF ExpireOne, Expire, IsDue
  <2>8. \A c \in tree : due[e] <= due[c]
    BY <1>1, <2>4, MinIsEarliest DEF ExpireOne, Expire
  <2> QED BY <2>5, <2>7, <2>8
<1>2. TInv /\ [Next]_vars => [Ordered]_vars
  BY <1>1
<1> QED BY <1>2, TimerInvariance, PTL DEF Spec, ExpiryInOrder

(***************************************************************************)
(* A pass of event_expire_timers ends only when no timer is left that was  *)
(* due at its reading of the clock, one armed by a handler included.       *)
(***************************************************************************)
THEOREM PassIsComplete == Spec => PassLeavesNothingDue
<1> DEFINE Complete == pass /\ ~pass' => \A e \in tree' : due'[e] > at
<1>1. ASSUME TInv, Next PROVE Complete
  <2> SUFFICES ASSUME pass, ~pass', NEW e \in tree' PROVE due'[e] > at
    OBVIOUS
  <2>1. EndPass
    BY <1>1 DEF Next, Add, Del, ExpireOne, BeginPass, Tick
  <2>2. e \in tree /\ due' = due
    BY <2>1 DEF EndPass, timerVars
  <2>3. PICK m \in tree : IsMin(m)
    BY <1>1, <2>2, MinExists
  <2>4. at \in Nat /\ at <= now /\ now - at <= MaxLag /\ due[m] \in Nat /\ due[e] \in Nat
    BY <1>1, <2>2 DEF TInv, TypeOK, TimerTypeOK, PassIsRecent
  <2>5. msec_int(key[m], at % KeyMod) = due[m] - at
    BY <1>1, <2>4, KeyAgainstClock
  <2>6. ~(due[m] - at <= 0)
    BY <2>1, <2>3, <2>5 DEF EndPass, NothingDue, IsDue
  <2>7. due[m] <= due[e]
    BY <1>1, <2>2, <2>3, MinIsEarliest
  <2> QED BY <2>2, <2>4, <2>6, <2>7
<1>2. TInv /\ [Next]_vars => [Complete]_vars
  BY <1>1
<1> QED BY <1>2, TimerInvariance, PTL DEF Spec, PassLeavesNothingDue
=============================================================================
