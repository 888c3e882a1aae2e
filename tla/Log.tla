--------------------------------- MODULE Log ---------------------------------
(***************************************************************************)
(* The log (mtcp_lua_log.c): a level below which messages are dropped, a   *)
(* file descriptor, and FATAL, which ends the process after its message    *)
(* was written.  What a message says is left out.                          *)
(***************************************************************************)
EXTENDS Integers

DEBUG == 1
FATAL == 5

VARIABLES
    log_level,  \* static int log_level
    output      \* static int output: "stdout" or the "file"

logVars == <<log_level, output>>

LogTypeOK == log_level \in Int /\ output \in {"stdout", "file"}

LogInit == log_level = 0 /\ output = "stdout"

\* Mutant of mtcp_lua_log_init: any level is taken.
log_init_AnyLevel(level, logfile, opens) ==
    /\ log_level' = level
    /\ output' = IF logfile /\ opens THEN "file" ELSE output

\* A level out of range leaves everything as it was: the file is not opened either.
mtcp_lua_log_init(level, logfile, opens) ==
    IF level \in DEBUG .. FATAL
    THEN /\ log_level' = level
         /\ output' = IF logfile /\ opens THEN "file" ELSE output
    ELSE UNCHANGED logVars

Written(level) == level \in DEBUG .. FATAL /\ level >= log_level

(***************************************************************************)
(* What mtcp_lua_log(FATAL, ...) does with a message that passes the       *)
(* filter.  log_level_string has five entries, from 0, and is indexed by   *)
(* the level: the label of FATAL is read from behind the array, and        *)
(* snprintf gets whatever is there as a string.  That may crash; a long    *)
(* string makes `last' wrap around, and vsnprintf may refuse a size as     *)
(* large.  If vsnprintf fails the function returns before it writes and    *)
(* before it exits.                                                        *)
(***************************************************************************)
FatalStatus == {1, 139}

FatalOutcomes == {"exit", "return"}
=============================================================================
