--------------------------- MODULE InOrderMachine ---------------------------
(***************************************************************************)
(* What a trace means: its instructions one after the other.  Each reads   *)
(* the registers and then the memory as the instructions before it left    *)
(* them; a value is the number of the instruction that wrote it, 0 at the  *)
(* start.  This is what the out-of-order core promises at retirement.      *)
(***************************************************************************)
EXTENDS Naturals, Sequences

CONSTANTS Addr, Reg, Traces

VARIABLES
  trace,   \* the program
  pc,      \* how many instructions are done
  regs,    \* the last writer of each register
  memory,  \* the last writer of each address
  seen     \* what each finished instruction has read

vars == <<trace, pc, regs, memory, seen>>

Written(old, places, n) == [x \in DOMAIN old |-> IF x \in places THEN n ELSE old[x]]

Elements(q) == {q[i] : i \in DOMAIN q}

Init ==
  /\ trace \in Traces
  /\ pc = 0
  /\ regs = [r \in Reg |-> 0]
  /\ memory = [a \in Addr |-> 0]
  /\ seen = <<>>

Step ==
  /\ pc < Len(trace)
  /\ LET op == trace[pc + 1] IN
     /\ seen' = Append(seen, [regs  |-> [r \in op.reads |-> regs[r]],
                              loads |-> [j \in DOMAIN op.loads |-> memory[op.loads[j]]]])
     /\ regs' = Written(regs, op.writes, pc + 1)
     /\ memory' = Written(memory, Elements(op.stores), pc + 1)
  /\ pc' = pc + 1
  /\ UNCHANGED trace

Spec == Init /\ [][Step]_vars
=============================================================================
