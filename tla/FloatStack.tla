----------------------------- MODULE FloatStack -----------------------------
(***************************************************************************)
(* What a program expects of the FPU: a stack of floating point numbers    *)
(* on which the operations have the results of a table.                    *)
(***************************************************************************)
EXTENDS Naturals, Sequences

CONSTANTS Results,      \* of an operation on two numbers: those it may have
          Loads,        \* the numbers in memory
          NR_REG        \* the most numbers there may be on the stack

VARIABLE stack          \* the numbers on the FPU, the top first
-----------------------------------------------------------------------------
Init == stack = <<>>

Push == /\ Len(stack) < NR_REG /\ stack' # <<>>
        /\ Head(stack') \in Loads
        /\ Tail(stack') = stack
Pop == stack # <<>> /\ stack' = Tail(stack)

\* the top and a number of memory, into the top
Operate == /\ stack # <<>> /\ stack' # <<>>
           /\ Tail(stack') = Tail(stack)
           /\ \E op \in DOMAIN Results, v \in Loads :
                Head(stack') \in Results[op][Head(stack)][v]

\* the top and the i-th number, into the k-th
OperateWithin(op, i, k) ==
  \E z \in Results[op][stack[1]][stack[i]] : stack' = [stack EXCEPT ![k] = z]
AddAndPop(i) ==
  \E z \in Results["add"][stack[1]][stack[i]] : stack' = Tail([stack EXCEPT ![i] = z])

Exchange(i) == stack' = [stack EXCEPT ![1] = stack[i], ![i] = stack[1]]
Copy(i) == stack' = [stack EXCEPT ![i] = stack[1]]
CopyAndPop(i) == stack' = Tail([stack EXCEPT ![i] = stack[1]])

Next == \/ Push \/ Pop \/ Operate
        \/ \E i \in DOMAIN stack :
             \/ AddAndPop(i) \/ Exchange(i) \/ Copy(i) \/ CopyAndPop(i)
             \/ \E op \in {"add", "mul"}, k \in {1, i} : OperateWithin(op, i, k)

Spec == Init /\ [][Next]_stack
=============================================================================
