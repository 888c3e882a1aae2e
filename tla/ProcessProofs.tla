----------------------------- MODULE ProcessProofs -----------------------------
(***************************************************************************)
(* The safety of the process, for any number of cores, any limit and any   *)
(* arguments.                                                              *)
(***************************************************************************)
EXTENDS Process, TLAPS

(***************************************************************************)
(* FATAL is never filtered, so main gets past a failure only if its FATAL  *)
(* came back: to the threads without a stack, or past the join of a thread *)
(* that returned before its loop.  A thread's number is the one main wrote *)
(* for it before it was created.                                           *)
(***************************************************************************)
MainInv ==
    /\ log_level <= FATAL
    /\ pc \in {"conf", "create", "join"} => stack \/ <<"init", 0>> \in came_back
    /\ i <= num_cores /\ num_cores <= MaxCoreLimit
    /\ pc \notin {"create", "join"} => i = 0

Joined(k) == thread[k] = "none" \/ (thread[k] = "returned" /\ <<"join", k>> \in came_back)

ThreadInv ==
    \A k \in Slots :
        /\ thread[k] # "none" => pc \in {"create", "join"} /\ k < num_cores /\ cores[k] = k
        /\ pc = "create" /\ i <= k => thread[k] = "none"
        /\ pc = "join" /\ k < i => Joined(k)
        /\ thread[k] \in {"context", "setup", "loop"} => core[k] = k
        /\ thread[k] # "loop" => count[k] = 0
        /\ Alive => count[k] < LoopLimit

StatusInv == status = 0 => \A k \in Slots : Joined(k)

PInv == TypeOK /\ MainInv /\ ThreadInv /\ StatusInv

\* The initial state satisfies the invariant.
LEMMA PInit == Init => PInv
  <1> SUFFICES ASSUME Init PROVE PInv
    OBVIOUS
  <1>1. TypeOK
    <2>1. count \in [Slots -> 0 .. LoopLimit]
      BY ProcessAssumption DEF Init
    <2>2. cores \in [Slots -> Int] /\ core \in [Slots -> Int]
      BY DEF Init
    <2>3. thread \in [Slots -> ThreadSteps]
      BY DEF Init, ThreadSteps
    <2>4. LogTypeOK
      BY DEF Init, LogInit, LogTypeOK
    <2>5. stack \in BOOLEAN
      BY Zenon DEF Init
    <2>6. num_cores \in Nat /\ i \in Nat /\ status \in {-1, 0, 1, 5, 139}
      BY DEF Init
    <2> QED BY <2>1, <2>2, <2>3, <2>4, <2>5, <2>6 DEF Init, TypeOK, MainSteps
  <1>2. MainInv /\ ThreadInv /\ StatusInv
    BY ProcessAssumption DEF Init, LogInit, MainInv, ThreadInv, StatusInv, Joined, FATAL
  <1> QED BY <1>1, <1>2 DEF PInv

(***************************************************************************)
(* FATAL passes the filter at every level that -l can set: it ends the     *)
(* process, or comes back and is known to have come back.                  *)
(***************************************************************************)
LEMMA FatalIsHeard ==
  ASSUME PInv, NEW ACTION rest, Fatal(rest)
  PROVE  \/ /\ status' \in {1, 139}
            /\ UNCHANGED <<logVars, mainVars, threadVars, came_back>>
         \/ rest /\ came_back' = came_back \cup {<<pc, i>>}
  BY DEF PInv, TypeOK, LogTypeOK, MainInv, Fatal, Written, Exit, FatalStatus, FatalOutcomes, FATAL, DEBUG

\* An end of the process that is not a success keeps the invariant.
LEMMA EndKeeps ==
  ASSUME PInv, status' \in {1, 5, 139}, UNCHANGED <<logVars, mainVars, threadVars, came_back>>
  PROVE  PInv'
  BY DEF PInv, TypeOK, LogTypeOK, MainInv, ThreadInv, StatusInv, Joined, Alive, logVars, mainVars, threadVars

\* The steps of main before there are threads.
LEMMA StartSteps ==
  ASSUME PInv,
         \/ Usage
         \/ \E foreground \in BOOLEAN : Options(foreground)
         \/ ForkFails
         \/ \E level \in Levels, opens \in BOOLEAN : OpenLog(level, opens)
         \/ \E ok \in BOOLEAN : Daemonize(ok) \/ InitStack(ok)
         \/ \E n \in ConfCores, cpus \in CPUs : Configure(n, cpus)
  PROVE  PInv'
  <1> USE DEF PInv, TypeOK, LogTypeOK, MainInv, ThreadInv, StatusInv, Joined, MainSteps, At, Alive,
      logVars, mainVars, threadVars
  <1>1. CASE Usage \/ ForkFails
    BY <1>1 DEF Usage, ForkFails, Exit
  <1>2. CASE \E foreground \in BOOLEAN : Options(foreground)
    BY <1>2 DEF Options
  <1>3. CASE \E level \in Levels, opens \in BOOLEAN : OpenLog(level, opens)
    <2>1. PICK level \in Levels, opens \in BOOLEAN : OpenLog(level, opens)
      BY <1>3
    <2>2. log_level' <= FATAL /\ log_level' \in Int /\ output' \in {"stdout", "file"}
      BY <2>1, ProcessAssumption DEF OpenLog, mtcp_lua_log_init, DEBUG, FATAL
    <2>3. /\ pc \in {"log", "log_file"} /\ pc' = "init" /\ status = -1
          /\ UNCHANGED <<status, stack, num_cores, i, cores, threadVars, came_back>>
      BY <2>1 DEF OpenLog
    <2> QED BY <2>2, <2>3
  <1>4. ASSUME NEW ok \in BOOLEAN, Daemonize(ok) PROVE PInv'
    <2> DEFINE rest == /\ pc' = "log_file"
                       /\ UNCHANGED <<logVars, status, stack, num_cores, i, cores, threadVars>>
    <2>1. Checked(ok, rest) /\ status = -1 /\ pc = "daemonize"
      BY <1>4 DEF Daemonize
    <2>2. ASSUME rest, came_back' \in {came_back, came_back \cup {<<pc, i>>}} PROVE PInv'
      BY <2>1, <2>2
    <2> HIDE DEF rest
    <2>3. CASE ok
      BY <2>1, <2>2, <2>3 DEF Checked
    <2>4. CASE ~ok
      BY <2>1, <2>2, <2>4, FatalIsHeard, EndKeeps DEF Checked
    <2> QED BY <2>3, <2>4
  <1>5. ASSUME NEW ok \in BOOLEAN, InitStack(ok) PROVE PInv'
    <2> DEFINE rest == /\ pc' = "conf"
                       /\ stack' = ok
                       /\ UNCHANGED <<logVars, status, num_cores, i, cores, threadVars>>
    <2>1. Checked(ok, rest) /\ status = -1 /\ pc = "init"
      BY <1>5 DEF InitStack
    <2>2. ASSUME rest, (ok /\ came_back' = came_back) \/ came_back' = came_back \cup {<<pc, i>>}
          PROVE  PInv'
      BY <2>1, <2>2
    <2> HIDE DEF rest
    <2>3. CASE ok
      BY <2>1, <2>2, <2>3 DEF Checked
    <2>4. CASE ~ok
      BY <2>1, <2>2, <2>4, FatalIsHeard, EndKeeps DEF Checked
    <2> QED BY <2>3, <2>4
  <1>6. ASSUME NEW n \in ConfCores, NEW cpus \in CPUs, Configure(n, cpus) PROVE PInv'
    <2>1. Clamp(n, cpus) \in Nat /\ Clamp(n, cpus) <= MaxCoreLimit
      BY ProcessAssumption DEF Clamp
    <2> QED BY <1>6, <2>1 DEF Configure
  <1> QED BY <1>1, <1>2, <1>3, <1>4, <1>5, <1>6

\* Creating the threads.
LEMMA CreateSteps ==
  ASSUME PInv, NEW ok \in BOOLEAN, CreateThread(ok)
  PROVE  PInv'
  <1> DEFINE rest == /\ cores' = [cores EXCEPT ![i] = i]
                     /\ thread' = [thread EXCEPT ![i] = IF ok THEN "started" ELSE @]
                     /\ i' = i + 1
                     /\ UNCHANGED <<logVars, status, pc, stack, num_cores, core, count>>
  <1>1. Checked(ok, rest) /\ At("create") /\ i < num_cores
    BY DEF CreateThread
  <1>2. ASSUME rest, came_back' \in {came_back, came_back \cup {<<pc, i>>}} PROVE PInv'
    <2>1. i \in Slots /\ i + 1 <= num_cores /\ i \in Nat
      BY <1>1, ProcessAssumption DEF PInv, MainInv, TypeOK, Slots
    <2> USE <1>1, <1>2, <2>1 DEF PInv, At, Alive, logVars
    <2>2. TypeOK'
      <3>1. i + 1 \in Nat /\ i \in Int
        BY DEF TypeOK
      <3>2. cores' \in [Slots -> Int] /\ thread' \in [Slots -> ThreadSteps]
        BY <3>1 DEF TypeOK, ThreadSteps
      <3>3. came_back' \subseteq MainSteps \X Nat
        BY DEF TypeOK
      <3> QED BY <3>1, <3>2, <3>3 DEF TypeOK, LogTypeOK, MainSteps
    <2>3. MainInv'
      BY DEF MainInv, TypeOK
    <2>4. ThreadInv'
      BY DEF ThreadInv, TypeOK, Slots
    <2> QED BY <2>2, <2>3, <2>4 DEF StatusInv
  <1> HIDE DEF rest
  <1>3. CASE ok
    BY <1>1, <1>2, <1>3 DEF Checked
  <1>4. CASE ~ok
    BY <1>1, <1>2, <1>4, FatalIsHeard, EndKeeps DEF Checked
  <1> QED BY <1>3, <1>4

\* Joining the threads, and the end of main.
LEMMA JoinSteps ==
  ASSUME PInv, AllCreated \/ Join \/ JoinMissing \/ Destroy
  PROVE  PInv'
  <1> USE DEF PInv, At, Alive
  <1>1. CASE AllCreated
    BY <1>1, ProcessAssumption
    DEF AllCreated, TypeOK, LogTypeOK, MainInv, ThreadInv, StatusInv, Joined, MainSteps,
        logVars, threadVars, Slots
  <1>2. ASSUME NextJoin, At("join"), i < num_cores, came_back' = came_back \cup {<<pc, i>>},
               thread[i] \in {"none", "returned"}
        PROVE  PInv'
    <2>1. i \in Slots /\ i \in Nat /\ num_cores \in Nat
      BY <1>2, ProcessAssumption DEF MainInv, TypeOK, Slots
    <2> USE <1>2, <2>1 DEF NextJoin, logVars, threadVars
    <2>2. TypeOK'
      BY DEF TypeOK, LogTypeOK, MainSteps
    <2>3. MainInv'
      BY DEF MainInv
    <2>4. \A k \in Slots : (k < i => Joined(k)) /\ (k < i + 1 => k < i \/ k = i)
      BY DEF ThreadInv, Slots
    <2>5. ThreadInv' /\ StatusInv'
      BY <2>4 DEF ThreadInv, StatusInv, Joined
    <2> QED BY <2>2, <2>3, <2>5
  <1>3. CASE Join
    BY <1>2, <1>3, FatalIsHeard, EndKeeps DEF Join
  <1>4. CASE JoinMissing
    BY <1>2, <1>4, FatalIsHeard, EndKeeps DEF JoinMissing, Exit
  <1>5. CASE Destroy
    <2>1. \A k \in Slots : Joined(k)
      BY <1>5 DEF Destroy, MainInv, ThreadInv, TypeOK, Slots, Joined
    <2> QED BY <1>5, <2>1 DEF Destroy, Exit, TypeOK, LogTypeOK, MainInv, ThreadInv, StatusInv,
                Joined, logVars, mainVars, threadVars
  <1> QED BY <1>1, <1>3, <1>4, <1>5

\* The steps of a core's thread.
LEMMA ThreadKeeps == ASSUME PInv, NEW k \in Slots, Thread(k) PROVE PInv'
  <1> USE DEF PInv, TypeOK, LogTypeOK, MainInv, ThreadInv, StatusInv, Joined, ThreadSteps, ThreadAt, Alive,
      logVars, mainVars
  <1>1. CASE ReadCore(k)
    BY <1>1 DEF ReadCore, Slots
  <1>2. ASSUME NEW ok \in BOOLEAN, CreateContext(k, ok) PROVE PInv'
    BY <1>2 DEF CreateContext
  <1>3. ASSUME NEW ok \in BOOLEAN, SetUp(k, ok) PROVE PInv'
    <2>1. CASE ok
      BY <1>3, <2>1 DEF SetUp
    <2>2. CASE ~ok
      BY <1>3, <2>2, EndKeeps DEF SetUp, Exit
    <2> QED BY <2>1, <2>2
  <1>4. CASE Iterate(k)
    <2>1. count'[k] = count[k] + 1 /\ count[k] \in 0 .. LoopLimit - 1
      <3>1. count[k] \in 0 .. LoopLimit /\ count[k] < LoopLimit
        BY <1>4 DEF Iterate
      <3>2. count'[k] = count[k] + 1
        BY <1>4 DEF Iterate
      <3> QED BY <3>1, <3>2, ProcessAssumption
    <2>2. status' \in {-1, 5} /\ (status' = -1 => count'[k] < LoopLimit)
      BY <1>4, <2>1, ProcessAssumption DEF Iterate
    <2>3. count' \in [Slots -> 0 .. LoopLimit]
      BY <1>4, <2>1, ProcessAssumption DEF Iterate
    <2>4. \A l \in Slots \ {k} : count'[l] = count[l]
      BY <1>4 DEF Iterate
    <2> QED BY <1>4, <2>1, <2>2, <2>3, <2>4 DEF Iterate
  <1> QED BY <1>1, <1>2, <1>3, <1>4 DEF Thread

\* Every step keeps the invariant.
LEMMA PNext == PInv /\ [Next]_vars => PInv'
  <1> SUFFICES ASSUME PInv, [Next]_vars PROVE PInv'
    OBVIOUS
  <1>1. CASE Main
    BY <1>1, StartSteps, CreateSteps, JoinSteps DEF Main
  <1>2. CASE \E k \in Slots : Thread(k)
    BY <1>2, ThreadKeeps
  <1>3. CASE UNCHANGED vars
    BY <1>3 DEF vars, logVars, mainVars, threadVars, PInv, TypeOK, LogTypeOK, MainInv, ThreadInv,
       StatusInv, Joined, Alive
  <1> QED BY <1>1, <1>2, <1>3 DEF Next, Ended

\* The process keeps PInv: no step of main, of a thread or of exit() leaves it.
LEMMA PInvariance == Spec => []PInv
  BY PInit, PNext, PTL DEF Spec

(***************************************************************************)
(* No two threads write the same global_context, however late they read    *)
(* their number from main's array.                                         *)
(***************************************************************************)
THEOREM ContextsApart == Spec => []OwnContext
  <1>1. PInv => OwnContext
    BY DEF PInv, ThreadInv, OwnContext, UsesContext
  <1> QED BY <1>1, PInvariance, PTL

(***************************************************************************)
(* main and its threads stay within the arrays, because main clamps the    *)
(* configured number of cores.                                             *)
(***************************************************************************)
THEOREM ArraysInBounds == Spec => []InBounds
  <1>1. PInv => InBounds
    BY ProcessAssumption DEF PInv, TypeOK, MainInv, ThreadInv, InBounds, UsesContext, Slots
  <1> QED BY <1>1, PInvariance, PTL

(***************************************************************************)
(* No log level hides a FATAL: there are threads only over a stack that    *)
(* mtcp_init has set up, or after the one FATAL about it came back.        *)
(***************************************************************************)
THEOREM FatalNotSilenced == Spec => []ThreadsHaveStack
  <1>1. PInv => ThreadsHaveStack
    BY DEF PInv, MainInv, ThreadInv, ThreadsHaveStack
  <1> QED BY <1>1, PInvariance, PTL

(***************************************************************************)
(* Exit status 0 tells that no core served a script: every thread returned *)
(* before its loop, and the FATAL of its join came back; mtcp_destroy is   *)
(* not called beside a thread.                                             *)
(***************************************************************************)
THEOREM SuccessServedNothing == Spec => []SuccessMeansNoneServed
  <1>1. PInv => SuccessMeansNoneServed
    BY DEF PInv, ThreadInv, StatusInv, Joined, SuccessMeansNoneServed
  <1> QED BY <1>1, PInvariance, PTL
=============================================================================
