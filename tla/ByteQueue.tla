----------------------------- MODULE ByteQueue -----------------------------
(***************************************************************************)
(* What a queue of the communications driver promises: characters leave in *)
(* the order they entered, each once, and never more than Size are held.   *)
(* The only other thing that may happen to the queue is that all of it is  *)
(* given up at once ($FLUSH, $SETQUE, closing the port).                   *)
(***************************************************************************)
EXTENDS Sequences, Naturals

CONSTANTS Item, Size

VARIABLE queue

Init == queue = << >>

Enter(c) == Len(queue) < Size /\ queue' = Append(queue, c)

Leave == queue # << >> /\ queue' = Tail(queue)

GiveUp == queue' = << >>

Next == (\E c \in Item : Enter(c)) \/ Leave \/ GiveUp

Spec == Init /\ [][Next]_queue

=============================================================================
