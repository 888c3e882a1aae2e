------------------------------- MODULE Process -------------------------------
(***************************************************************************)
(* The process of mtcp_lua (main.c): main starts one thread per core and   *)
(* joins them; a thread sets its core up and runs the event loop, whose    *)
(* tenth iteration calls exit(5).  An iteration is one step here; MtcpLua  *)
(* models what happens inside it.                                          *)
(*                                                                         *)
(* exit() by any thread ends all of them at once.  In the background it is *)
(* the child of fork() that is followed.                                   *)
(***************************************************************************)
EXTENDS Log

CONSTANTS
    MaxCoreLimit,   \* MAX_CORE_LIMIT, 16
    LoopLimit,      \* 10
    Levels,         \* what atoi makes of the argument of -l
    CPUs,           \* what GetNumCPUs may return
    ConfCores       \* num_cores of mtcp_lua.conf, after mtcp_init

ASSUME ProcessAssumption ==
    /\ MaxCoreLimit \in Nat \ {0}
    /\ LoopLimit \in Nat \ {0}
    /\ Levels \subseteq Int
    /\ CPUs \subseteq Nat \ {0}
    /\ ConfCores \subseteq Nat

\* The entries of app_thread and cores that the loops of main can name.
Slots == 0 .. MaxCoreLimit - 1

VARIABLES
    pc,         \* where main is
    status,     \* what the process ended with, -1 while it runs
    stack,      \* mtcp_init has succeeded
    num_cores,  \* num_cores of main
    i,          \* i of main's two loops
    cores,      \* cores[] of main, on its stack
    thread,     \* thread[k]: how far the k-th thread of main is
    core,       \* its variable `core', -1 before it is set
    count,      \* its variable `count'
    came_back   \* history: the steps of main, with i, whose FATAL was not
                \* filtered and returned

mainVars   == <<pc, stack, num_cores, i, cores>>
threadVars == <<thread, core, count>>
vars       == <<logVars, status, mainVars, threadVars, came_back>>

MainSteps   == {"options", "daemonize", "log", "log_file", "init", "conf", "create", "join"}
ThreadSteps == {"none", "started", "context", "setup", "loop", "returned"}

TypeOK ==
    /\ LogTypeOK
    /\ pc \in MainSteps
    /\ status \in {-1, 0, 1, 5, 139}
    /\ stack \in BOOLEAN
    /\ num_cores \in Nat
    /\ i \in Nat
    /\ cores \in [Slots -> Int]
    /\ thread \in [Slots -> ThreadSteps]
    /\ core \in [Slots -> Int]
    /\ count \in [Slots -> 0 .. LoopLimit]
    /\ came_back \subseteq MainSteps \X Nat

Init ==
    /\ LogInit
    /\ pc = "options"
    /\ status = -1
    /\ stack = FALSE
    /\ num_cores = 0
    /\ i = 0
    /\ cores = [k \in Slots |-> -1]
    /\ thread = [k \in Slots |-> "none"]
    /\ core = [k \in Slots |-> -1]
    /\ count = [k \in Slots |-> 0]
    /\ came_back = {}

Alive == status = -1

Exit(s) == status' = s /\ UNCHANGED <<logVars, mainVars, threadVars, came_back>>

At(p) == Alive /\ pc = p

\* FATAL(...): main goes on with `rest' if the message is filtered or cannot
\* be formatted.
Fatal(rest) ==
    IF Written(FATAL)
    THEN \E outcome \in FatalOutcomes :
            IF outcome = "exit" THEN \E s \in FatalStatus : Exit(s)
            ELSE rest /\ came_back' = came_back \cup {<<pc, i>>}
    ELSE rest /\ UNCHANGED came_back

\* What main does after a call that may fail with FATAL.
Checked(ok, rest) == IF ok THEN rest /\ UNCHANGED came_back ELSE Fatal(rest)

-----------------------------------------------------------------------------
(* main *)

\* -h, an unknown option or not one script: usage() calls exit(0).
Usage == At("options") /\ Exit(0)

Options(foreground) ==
    /\ At("options")
    /\ pc' = IF foreground THEN "log" ELSE "daemonize"
    /\ UNCHANGED <<logVars, status, stack, num_cores, i, cores, threadVars, came_back>>

\* fork() < 0 is taken for the parent's side: the program ends with 0.
ForkFails == At("daemonize") /\ Exit(0)

\* In the child; one of the two chdir() may fail.
Daemonize(ok) ==
    LET rest == /\ pc' = "log_file"
                /\ UNCHANGED <<logVars, status, stack, num_cores, i, cores, threadVars>>
    IN  At("daemonize") /\ Checked(ok, rest)

\* mtcp_lua_log_init; only a process in the background gives a file.
OpenLog(level, opens) ==
    /\ At("log") \/ At("log_file")
    /\ mtcp_lua_log_init(level, pc = "log_file", opens)
    /\ pc' = "init"
    /\ UNCHANGED <<status, stack, num_cores, i, cores, threadVars, came_back>>

InitStack(ok) ==
    LET rest == /\ pc' = "conf"
                /\ stack' = ok
                /\ UNCHANGED <<logVars, status, num_cores, i, cores, threadVars>>
    IN  At("init") /\ Checked(ok, rest)

\* Mutant of Clamp: only the number of CPUs limits the number of cores.
ClampToCPUs(n, cpus) == IF n > cpus THEN cpus ELSE n

Clamp(n, cpus) ==
    LET core_limit == IF cpus < MaxCoreLimit THEN cpus ELSE MaxCoreLimit
    IN  IF n > core_limit THEN core_limit ELSE n

\* mtcp_getconf and mtcp_setconf.
Configure(n, cpus) ==
    /\ At("conf")
    /\ num_cores' = Clamp(n, cpus)
    /\ pc' = "create"
    /\ UNCHANGED <<logVars, status, stack, i, cores, threadVars, came_back>>

CreateThread(ok) ==
    LET rest == /\ cores' = [cores EXCEPT ![i] = i]
                /\ thread' = [thread EXCEPT ![i] = IF ok THEN "started" ELSE @]
                /\ i' = i + 1
                /\ UNCHANGED <<logVars, status, pc, stack, num_cores, core, count>>
    IN  At("create") /\ i < num_cores /\ Checked(ok, rest)

AllCreated ==
    /\ At("create") /\ i = num_cores
    /\ pc' = "join"
    /\ i' = 0
    /\ UNCHANGED <<logVars, status, stack, num_cores, cores, threadVars, came_back>>

NextJoin ==
    /\ i' = i + 1
    /\ UNCHANGED <<logVars, status, pc, stack, num_cores, cores, threadVars>>

\* Mutant of Join: main goes on to the next thread.
JoinQuietly ==
    /\ At("join") /\ i < num_cores /\ thread[i] = "returned"
    /\ NextJoin /\ UNCHANGED came_back

\* The first thread that is joined is fatal: threads should not return.
Join ==
    /\ At("join") /\ i < num_cores /\ thread[i] = "returned"
    /\ Fatal(NextJoin)

\* The join of a thread that was not created, app_thread[i] being 0, crashes
\* or returns an error, which is not looked at.
JoinMissing ==
    /\ At("join") /\ i < num_cores /\ thread[i] = "none"
    /\ Exit(139) \/ Fatal(NextJoin)

\* mtcp_destroy() and the return from main, which is exit(0).
Destroy == At("join") /\ i = num_cores /\ Exit(0)

-----------------------------------------------------------------------------
(* thread_entry *)

ThreadAt(k, p) == Alive /\ thread[k] = p

\* Mutant of ReadCore: one variable instead of cores[], the last value written
\* to it is read.
ReadCoreShared(k) ==
    /\ ThreadAt(k, "started")
    /\ core' = [core EXCEPT ![k] = CHOOSE l \in Slots : cores[l] = l /\ \A m \in Slots : cores[m] <= l]
    /\ thread' = [thread EXCEPT ![k] = "context"]
    /\ UNCHANGED <<logVars, status, mainVars, count, came_back>>

\* int core = *(int *)arg, at any time after main has started the thread.
ReadCore(k) ==
    /\ ThreadAt(k, "started")
    /\ core' = [core EXCEPT ![k] = cores[k]]
    /\ thread' = [thread EXCEPT ![k] = IF cores[k] < 0 \/ cores[k] > MaxCoreLimit
                                      THEN "returned" ELSE "context"]
    /\ UNCHANGED <<logVars, status, mainVars, count, came_back>>

\* mtcp_create_context; then ctx = &global_context[core] is written.
CreateContext(k, ok) ==
    /\ ThreadAt(k, "context")
    /\ thread' = [thread EXCEPT ![k] = IF ok THEN "setup" ELSE "returned"]
    /\ UNCHANGED <<logVars, status, mainVars, core, count, came_back>>

(***************************************************************************)
(* The epoll set, the events, the timers, and mtcp_lua_vm_init, which      *)
(* loads the script: every failure is exit(1), for all cores.              *)
(***************************************************************************)
SetUp(k, ok) ==
    /\ ThreadAt(k, "setup")
    /\ IF ok THEN /\ thread' = [thread EXCEPT ![k] = "loop"]
                  /\ UNCHANGED <<logVars, status, mainVars, core, count, came_back>>
       ELSE Exit(1)

\* Mutant of Iterate: the iterations are not counted.
IterateUncounted(k) == ThreadAt(k, "loop") /\ UNCHANGED vars

Iterate(k) ==
    /\ ThreadAt(k, "loop")
    /\ count' = [count EXCEPT ![k] = @ + 1]
    /\ status' = IF count'[k] = LoopLimit THEN 5 ELSE status
    /\ UNCHANGED <<logVars, mainVars, thread, core, came_back>>

-----------------------------------------------------------------------------
Main ==
    \/ Usage
    \/ \E foreground \in BOOLEAN : Options(foreground)
    \/ ForkFails
    \/ \E level \in Levels, opens \in BOOLEAN : OpenLog(level, opens)
    \/ \E ok \in BOOLEAN : Daemonize(ok) \/ InitStack(ok) \/ CreateThread(ok)
    \/ \E n \in ConfCores, cpus \in CPUs : Configure(n, cpus)
    \/ AllCreated
    \/ Join
    \/ JoinMissing
    \/ Destroy

Thread(k) ==
    \/ ReadCore(k)
    \/ \E ok \in BOOLEAN : CreateContext(k, ok) \/ SetUp(k, ok)
    \/ Iterate(k)

Ended == ~Alive /\ UNCHANGED vars

Next == Main \/ (\E k \in Slots : Thread(k)) \/ Ended

Spec == Init /\ [][Next]_vars

(***************************************************************************)
(* Fairness: main and the threads run.  mtcp_epoll_wait has a timeout, and *)
(* scripts give up control, so an iteration ends.                          *)
(***************************************************************************)
FairSpec == Spec /\ WF_vars(Main) /\ \A k \in Slots : WF_vars(Thread(k))

-----------------------------------------------------------------------------
(***************************************************************************)
(* No two threads work on the same global_context, though every thread     *)
(* reads its number from memory of main, which may be far ahead by then.   *)
(***************************************************************************)
UsesContext(k) == thread[k] \in {"setup", "loop"}

OwnContext ==
    \A k, l \in Slots : UsesContext(k) /\ UsesContext(l) /\ core[k] = core[l] => k = l

(***************************************************************************)
(* app_thread, cores and global_context are only used within their bounds, *)
(* although thread_entry itself would let core = MAX_CORE_LIMIT through.   *)
(***************************************************************************)
InBounds ==
    /\ pc = "create" /\ i < num_cores => i \in Slots
    /\ \A k \in Slots : UsesContext(k) => core[k] \in Slots

(***************************************************************************)
(* -l cannot silence FATAL: there are threads over a stack that was not    *)
(* initialised only if the message about that could not be formatted, so   *)
(* that FATAL came back without having written it.                         *)
(***************************************************************************)
ThreadsHaveStack ==
    \A k \in Slots : thread[k] # "none" => stack \/ <<"init", 0>> \in came_back

(***************************************************************************)
(* The process reports success only if no core served a script, and        *)
(* mtcp_destroy is never called under a running thread: status 0 tells     *)
(* that every thread main started has returned before its loop, and that   *)
(* the FATAL of its join came back.                                        *)
(***************************************************************************)
SuccessMeansNoneServed ==
    status = 0 => \A k \in Slots :
        thread[k] = "none" \/ (thread[k] = "returned" /\ count[k] = 0 /\ <<"join", k>> \in came_back)

(***************************************************************************)
(* The process always ends, also if some cores never get to their loop.    *)
(***************************************************************************)
ProcessEnds == <>~Alive
=============================================================================
