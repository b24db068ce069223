----------------------------- MODULE DebugStops -----------------------------
(***************************************************************************)
(* Debugger with a memory of the stops that exec() forgets.                *)
(*                                                                         *)
(* A guest that stops at a breakpoint leaves exec() with NEMU_BREAK, and   *)
(* the next command then resumes it.  If the stop comes with the last      *)
(* instruction of `si N', or a watchpoint is found with it, exec() leaves  *)
(* with NEMU_READY instead (cpu.c:125, cpu.c:100): nothing arms the        *)
(* breakpoint again, and "info" goes on listing it as enabled.  Here       *)
(* `forgotten' tells these breakpoints from all others, for which the      *)
(* properties below hold.                                                  *)
(***************************************************************************)
EXTENDS Debugger

VARIABLE forgotten      \* history: addresses left disarmed by a forgotten stop

Leaves == pc # "ui" /\ pc' = "ui"
Forget == IF Leaves /\ nemu_state' = "READY" THEN {bp'} \ {None} ELSE {}
Remember == forgotten' = {a \in forgotten \union Forget : text'[a] # "int3"}

StopsInit == Init /\ forgotten = {}
StopsNext == Next /\ Remember
StopsSpec == StopsInit /\ [][StopsNext]_<<vars, forgotten>>
-----------------------------------------------------------------------------
(* In the monitor, every breakpoint listed as enabled (breakpoint.c:144)   *)
(* is armed, except the one the guest is stopped at and those of forgotten *)
(* stops: deletions, watchpoints, interrupts taken after a stop, and guest *)
(* code that runs over it leave no other disarmed.                         *)
ListedIsArmed ==
  pc = "ui" => \A a \in BpAddrs : \/ text[a] = "int3" \/ a \in forgotten
                                  \/ nemu_state = "BREAK" /\ bp = a

(* An instruction with a breakpoint is executed only by the command that   *)
(* resumes from a stop at it, or after that stop was forgotten.            *)
BreakpointsStop ==
  [][Running /\ text[eip] = "op" /\ eip \in BpAddrs /\ pc' # pc
       => (rerun /\ bp = eip) \/ eip \in forgotten]_vars
=============================================================================
