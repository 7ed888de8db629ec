----------------------------- MODULE RoundRobin -----------------------------
(***************************************************************************)
(* What TaskChanger promises: up to N - 1 tasks beside the loop function,  *)
(* one of which runs.  A task that gives way goes on later exactly where   *)
(* it stopped, with its own interrupt enable, and control passes to the    *)
(* next task that is registered.                                           *)
(***************************************************************************)
EXTENDS Integers

CONSTANTS
  N,               \* tasks, the loop function (task 0) included; 4 in the code
  Points, Start,   \* places in the text of a task, and the first of them
  Absent

VARIABLES
  run,             \* the running task
  place            \* where each task is, and whether it has interrupts on

rvars == <<run, place>>

Tasks  == 0 .. N - 1
Places == [point : Points, iflag : BOOLEAN]
Fresh  == [point |-> Start, iflag |-> TRUE]

\* The tasks passed over on the way round from i to j.
Between(i, j) == {k \in Tasks : IF i < j THEN i < k /\ k < j ELSE i < k \/ k < j}

IsNext(j) == place'[j] # Absent /\ \A k \in Between(run, j) : place'[k] = Absent

Init == run = 0 /\ place = [i \in Tasks |-> IF i = 0 THEN Fresh ELSE Absent]

\* The running task goes on.
Move == \E p \in Places : place' = [place EXCEPT ![run] = p] /\ UNCHANGED run

Register(i) == i # run /\ place' = [place EXCEPT ![i] = Fresh] /\ UNCHANGED run
Remove(i)   == i # run /\ place' = [place EXCEPT ![i] = Absent] /\ UNCHANGED run

Pass == \E j \in Tasks : UNCHANGED place /\ run' = j /\ IsNext(j)

Finish == /\ run # 0
          /\ place' = [place EXCEPT ![run] = Absent]
          /\ \E j \in Tasks : run' = j /\ IsNext(j)

Next == \/ Move \/ Pass \/ Finish
        \/ \E i \in Tasks \ {0} : Register(i) \/ Remove(i)

Spec == Init /\ [][Next]_rvars
=============================================================================
