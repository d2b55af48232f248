---------------------------- MODULE ThreadSafeQueue ----------------------------
(***************************************************************************)
(* ThreadSafeQueue (include/engine/threading/threadSafeQueue.hpp): a FIFO  *)
(* queue that drops its oldest element when it is full.  Each member is    *)
(* one critical section, so one function from queue to queue.  The wait of *)
(* waitPop is a step of the thread that waits.                             *)
(***************************************************************************)
LOCAL INSTANCE Integers
LOCAL INSTANCE Sequences

NewQueue == [items |-> <<>>, dropped |-> 0]

Full(q, capacity) == capacity # 0 /\ Len(q.items) = capacity

\* Slip: what is dropped is not counted.
Push_Uncounted(q, capacity, value) ==
    [q EXCEPT !.items = Append(IF Full(q, capacity) THEN Tail(@) ELSE @, value)]

Push(q, capacity, value) ==
    IF Full(q, capacity)
    THEN [items |-> Append(Tail(q.items), value), dropped |-> q.dropped + 1]
    ELSE [q EXCEPT !.items = Append(@, value)]

HasItem(q) == q.items # <<>>
Front(q)   == Head(q.items)
Popped(q)  == [q EXCEPT !.items = Tail(@)]
=============================================================================
