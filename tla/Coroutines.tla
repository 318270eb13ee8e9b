------------------------------ MODULE Coroutines ------------------------------
(***************************************************************************)
(* class Coroutine of coroutine.cc: each coroutine runs on a stack of its  *)
(* own and hands control to main and back with setjmp and longjmp.  The    *)
(* one context of main, main_ctx, is used for all of them.  main resumes   *)
(* no coroutine that has finished: its __exit would return to nowhere.     *)
(***************************************************************************)
CONSTANTS Coros,     \* the Coroutine objects of the program
          MainStack       \* main's stack

VARIABLES running,   \* whose stack the processor is on
          point,     \* where the running coroutine is
          ctx,       \* ctx[c]: where setjmp(c.ctx) was last called
          main_ctx   \* whether the frame that last called setjmp(main_ctx) is still there

vars == <<running, point, ctx, main_ctx>>

Init ==
    /\ running = MainStack /\ point = "none"
    /\ ctx = [c \in Coros |-> "none"]
    /\ main_ctx = "unset"

\* The constructor saves main_ctx and jumps to __entry on the new stack.
Construct(c) ==
    /\ running = MainStack /\ ctx[c] = "none"
    /\ main_ctx' = "live"
    /\ running' = c /\ point' = "entry"
    /\ UNCHANGED ctx

\* switch_to(coro->ctx, main_ctx): main goes on in the frame it saved, which it then leaves.
SwitchToMain(from) ==
    /\ running \in Coros /\ point = from
    /\ ctx' = [ctx EXCEPT ![running] = from]
    /\ running' = MainStack /\ point' = "none"
    /\ main_ctx' = "left"

\* __entry gives control back at once, and __exit when the body has returned into it.
Yield == SwitchToMain("entry")
Exit == SwitchToMain("exit")

SavedBefore == main_ctx
SavedNow == "live"

\* switch_to(main_ctx, c.ctx)
Resume(c) ==
    /\ running = MainStack /\ ctx[c] = "entry"
    /\ main_ctx' = SavedNow
    /\ running' = c /\ point' = "working"
    /\ UNCHANGED ctx

Work ==
    /\ running \in Coros /\ point = "working"
    /\ point' = "exit"
    /\ UNCHANGED <<running, ctx, main_ctx>>

Next == (\E c \in Coros : Construct(c) \/ Resume(c)) \/ Yield \/ Work \/ Exit

Spec == Init /\ [][Next]_vars
-----------------------------------------------------------------------------
(***************************************************************************)
(* One stack runs, and contexts are where setjmp is called.                *)
(***************************************************************************)
TypeOK ==
    /\ running \in Coros \cup {MainStack} /\ point \in {"none", "entry", "working", "exit"}
    /\ ctx \in [Coros -> {"none", "entry", "exit"}]
    /\ main_ctx \in {"unset", "live", "left"}

(***************************************************************************)
(* While a coroutine runs, main_ctx refers to a frame of main that is      *)
(* there to go on in.                                                      *)
(***************************************************************************)
MainCanGoOn == running # MainStack => main_ctx = "live"
=============================================================================
