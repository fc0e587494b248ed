------------------------------ MODULE FifoQueue ------------------------------
(***************************************************************************)
(* What queue.c promises the threads that share one QUEUE, with no mutex,  *)
(* no linked list and no counter: items leave in the order in which they   *)
(* were added, and each goes to exactly one consumer.                      *)
(***************************************************************************)
EXTENDS Sequences, SequencesExt

CONSTANTS Nodes,       \* the QUEUE_ITEMs the process can allocate
          Consumers,   \* threads that call Get_Queue_Item
          NULL

VARIABLES waiting,     \* the items added and not yet taken, oldest first
          got          \* the item each consumer holds

fifoVars == <<waiting, got>>

Init ==
  /\ waiting = <<>>
  /\ got = [c \in Consumers |-> NULL]

Held == {got[c] : c \in Consumers}

Put(n) ==
  /\ n \notin ToSet(waiting) \union Held
  /\ waiting' = Append(waiting, n)
  /\ UNCHANGED got

Take(c) ==
  /\ waiting # <<>>
  /\ got[c] = NULL
  /\ got' = [got EXCEPT ![c] = Head(waiting)]
  /\ waiting' = Tail(waiting)

Release(c) ==
  /\ got[c] # NULL
  /\ got' = [got EXCEPT ![c] = NULL]
  /\ UNCHANGED waiting

Next ==
  \/ \E n \in Nodes : Put(n)
  \/ \E c \in Consumers : Take(c) \/ Release(c)

Spec == Init /\ [][Next]_fifoVars
=============================================================================
