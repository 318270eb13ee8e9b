------------------------------ MODULE LifoStack ------------------------------
(***************************************************************************)
(* What lockless_stack of lockless_stack.cc promises: a last-in first-out  *)
(* stack without bound.  pop takes the top element and returns it later.   *)
(***************************************************************************)
EXTENDS Naturals, Sequences

CONSTANTS Poppers,   \* the threads that call pop
          Values,    \* the elements
          NoValue    \* "nothing in hand"

VARIABLES stk,       \* the elements, top first
          taken      \* taken[c]: the element c has popped and not returned yet

stackVars == <<stk, taken>>

StackInit == stk = <<>> /\ taken = [c \in Poppers |-> NoValue]

Push(v) == stk' = <<v>> \o stk /\ UNCHANGED taken

Pop(c) ==
    /\ taken[c] = NoValue
    /\ stk # <<>>
    /\ stk' = Tail(stk)
    /\ taken' = [taken EXCEPT ![c] = Head(stk)]

Return(c) ==
    /\ taken[c] # NoValue
    /\ taken' = [taken EXCEPT ![c] = NoValue]
    /\ UNCHANGED stk

StackNext ==
    \/ \E v \in Values : Push(v)
    \/ \E c \in Poppers : Pop(c) \/ Return(c)

StackSpec == StackInit /\ [][StackNext]_stackVars
=============================================================================
