------------------------------ MODULE Coroutine ------------------------------
(***************************************************************************)
(* The Lua coroutines of one core (main.c): mtcp.thread.spawn, mtcp.sleep  *)
(* and mtcp_lua_run_thread, which resumes a coroutine and comes back when  *)
(* it waits or ends.  Every context owns one event_t.                      *)
(*                                                                         *)
(* An access through a NULL or freed pointer, or a second insertion of a   *)
(* node into the timer tree, sets `fault': what the C program does after   *)
(* it is not defined.                                                      *)
(***************************************************************************)
EXTENDS EventTimer, Null, Sequences

CONSTANTS
    Main,       \* the coroutine of the script file itself
    Socks,      \* socket objects, the other thing ev->data points to
    Delays      \* the delays scripts pass to mtcp.sleep

Co == Events

ASSUME CoAssumption ==
    /\ Main \in Co
    /\ None \notin Co
    /\ Delays \subseteq Nat

VARIABLES
    co,         \* co[c]: see CoStates
    stack,      \* nested lua_resume calls: the last one runs, inside spawn
                \* calls of the ones before it
    res,        \* history: what the last wait of c returned to the script, or
                \* would have
    handler,    \* ev->handler
    data,       \* ev->data when it is a socket (None: the context itself)
    fault       \* the first access through a bad pointer, or "none"

coVars == <<co, stack, res>>
evVars == <<handler, data>>

(***************************************************************************)
(* "new": a loaded chunk not resumed yet.  "conn_arm" and "recv_arm": a    *)
(* running coroutine inside connect or recv, about to register with epoll. *)
(***************************************************************************)
CoStates == {"none", "new", "running", "conn_arm", "recv_arm", "yielded", "dead"}
Results  == {"none", "ok", "timeout", "data", "closed", "failed"}
Faults   == {"none", "double_insert", "del_unlinked", "null_ctx", "freed_socket"}

CoTypeOK ==
    /\ co \in [Co -> CoStates]
    /\ stack \in Seq(Co)
    /\ res \in [Co -> Results]
    /\ handler \in [Co -> {"NULL", "timer", "connect", "recv"}]
    /\ data \in [Co -> Socks \cup {None}]
    /\ fault \in Faults

(***************************************************************************)
(* event_timer_init and mtcp_lua_vm_init: the tree is empty but for the    *)
(* main script, armed with delay 0 and timer_handler.  A context that does *)
(* not exist yet holds what spawn will put into it.                        *)
(***************************************************************************)
CoInit ==
    /\ now = 0
    /\ tree = {Main}
    /\ key = [c \in Co |-> 0]
    /\ timer_set = [c \in Co |-> c = Main]
    /\ timedout = [c \in Co |-> FALSE]
    /\ co = [c \in Co |-> IF c = Main THEN "new" ELSE "none"]
    /\ stack = <<>>
    /\ res = [c \in Co |-> "none"]
    /\ handler = [c \in Co |-> IF c = Main THEN "timer" ELSE "NULL"]
    /\ data = [c \in Co |-> None]
    /\ fault = "none"

\* c is the coroutine that runs, in its script or inside an API call.
OnTop(c, state) ==
    fault = "none" /\ stack # <<>> /\ stack[Len(stack)] = c /\ co[c] = state

Runs(c) == OnTop(c, "running")

(***************************************************************************)
(* mtcp_lua_run_thread.  lua_resume enters a coroutine that waits; on one  *)
(* that is dead it only returns an error, which is printed.                *)
(***************************************************************************)
Resume(c, result) ==
    IF co[c] \in {"new", "yielded"}
    THEN /\ co' = [co EXCEPT ![c] = "running"]
         /\ stack' = Append(stack, c)
         /\ res' = [res EXCEPT ![c] = result]
    ELSE UNCHANGED coVars

\* A handler returns without a resume: the script is never told the result.
Abandon(c) ==
    /\ res' = IF co[c] = "yielded" THEN [res EXCEPT ![c] = "failed"] ELSE res
    /\ UNCHANGED <<co, stack>>

\* lua_resume returns to its caller: the event loop, or a spawn call.
Leave(c, status) ==
    /\ co' = [co EXCEPT ![c] = status]
    /\ stack' = SubSeq(stack, 1, Len(stack) - 1)

\* What connect, recv and sleep write into the event before they wait.
PrepareWait(c, h, d) ==
    /\ handler' = [handler EXCEPT ![c] = h]
    /\ data' = [data EXCEPT ![c] = d]
    /\ timedout' = [timedout EXCEPT ![c] = FALSE]
    /\ res' = [res EXCEPT ![c] = "none"]

-----------------------------------------------------------------------------
(***************************************************************************)
(* mtcp.thread.spawn: the new coroutine runs at once, nested in the        *)
(* caller.  lua_xmove moves one value, the last argument: with arguments   *)
(* after the function, what is resumed is not a function, and the          *)
(* coroutine ends with a run-time error before it runs anything.           *)
(***************************************************************************)
Spawn(c, d) ==
    /\ Runs(c) /\ co[d] = "none"
    /\ co' = [co EXCEPT ![d] = "running"]
    /\ stack' = Append(stack, d)
    /\ UNCHANGED <<timerVars, evVars, res, fault>>

SpawnWithArguments(c, d) ==
    /\ Runs(c) /\ co[d] = "none"
    /\ co' = [co EXCEPT ![d] = "dead"]
    /\ UNCHANGED <<timerVars, evVars, stack, res, fault>>

\* The function returns, or an error ends the coroutine.
Return(c) ==
    /\ Runs(c)
    /\ Leave(c, "dead")
    /\ UNCHANGED <<timerVars, evVars, res, fault>>

(***************************************************************************)
(* mtcp.sleep clears timer_set before event_add_timer looks at it, so the  *)
(* node is inserted, with a new key, even if it is still linked.  In that  *)
(* case the state is the one rbtree_insert is called in, the flag clear.   *)
(***************************************************************************)
Sleep(c, delay) ==
    /\ Runs(c) /\ c \notin tree
    /\ tree' = tree \cup {c}
    /\ key' = [key EXCEPT ![c] = NewKey(delay)]
    /\ timer_set' = [timer_set EXCEPT ![c] = TRUE]
    /\ PrepareWait(c, "timer", None)
    /\ Leave(c, "yielded")
    /\ UNCHANGED fault

SleepWhileLinked(c, delay) ==
    /\ Runs(c) /\ c \in tree
    /\ key' = [key EXCEPT ![c] = NewKey(delay)]
    /\ timer_set' = [timer_set EXCEPT ![c] = FALSE]
    /\ PrepareWait(c, "timer", None)
    /\ fault' = "double_insert"
    /\ UNCHANGED <<tree, co, stack>>

CoStep(c) ==
    \/ \E d \in Co : Spawn(c, d) \/ SpawnWithArguments(c, d)
    \/ Return(c)
    \/ \E delay \in Delays : Sleep(c, delay) \/ SleepWhileLinked(c, delay)
=============================================================================
