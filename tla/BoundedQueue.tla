---------------------------- MODULE BoundedQueue ----------------------------
(***************************************************************************)
(* What boost::lockfree::queue promises to threads that call bounded_push  *)
(* and pop concurrently, and all that QueuePool relies on: a FIFO whose    *)
(* elements, and whose operations in progress, share Capacity nodes.  A    *)
(* push takes a node, or is refused because there is none, and then links  *)
(* it; a pop unlinks the front, or misses because the queue has been empty *)
(* at some moment of the call, and then gives a node back.                 *)
(***************************************************************************)
EXTENDS Naturals, Sequences, FiniteSets

CONSTANTS Threads, Values, NoValue, Capacity

VARIABLES items,        \* the values in the queue, oldest first
          status,       \* what each thread is doing
          value,        \* the argument of its push, the result of its pop
          sawEmpty      \* the threads whose pop has found the queue empty

Holders == {t \in Threads : status[t] \in {"holding", "freeing"}}
InUse == Len(items) + Cardinality(Holders)

Become(t, from, to, v) ==
    /\ status[t] = from
    /\ status' = [status EXCEPT ![t] = to]
    /\ value' = [value EXCEPT ![t] = v]

Push(t, v) == Become(t, "idle", "pushing", v) /\ UNCHANGED <<items, sawEmpty>>
Take(t) ==
    /\ InUse < Capacity
    /\ Become(t, "pushing", "holding", value[t]) /\ UNCHANGED <<items, sawEmpty>>
Refuse(t) ==
    /\ InUse >= Capacity
    /\ Become(t, "pushing", "idle", NoValue) /\ UNCHANGED <<items, sawEmpty>>
Link(t) ==
    /\ Become(t, "holding", "idle", NoValue)
    /\ items' = Append(items, value[t]) /\ UNCHANGED sawEmpty

Pop(t) == Become(t, "idle", "popping", NoValue) /\ UNCHANGED <<items, sawEmpty>>
Look(t) ==
    /\ status[t] = "popping"
    /\ sawEmpty' = IF items = <<>> THEN sawEmpty \cup {t} ELSE sawEmpty \ {t}
    /\ UNCHANGED <<items, status, value>>
Miss(t) ==
    /\ items = <<>> \/ t \in sawEmpty
    /\ Become(t, "popping", "idle", NoValue)
    /\ sawEmpty' = sawEmpty \ {t} /\ UNCHANGED items
Unlink(t) ==
    /\ items # <<>>
    /\ Become(t, "popping", "freeing", Head(items))
    /\ items' = Tail(items) /\ sawEmpty' = sawEmpty \ {t}
GiveBack(t) == Become(t, "freeing", "idle", NoValue) /\ UNCHANGED <<items, sawEmpty>>

Init ==
    /\ items = <<>> /\ sawEmpty = {}
    /\ status = [t \in Threads |-> "idle"] /\ value = [t \in Threads |-> NoValue]

Next ==
    \E t \in Threads :
       \/ \E v \in Values : Push(t, v)
       \/ Take(t) \/ Refuse(t) \/ Link(t) \/ Pop(t) \/ Look(t) \/ Miss(t) \/ Unlink(t)
       \/ GiveBack(t)

Spec == Init /\ [][Next]_<<items, status, value, sawEmpty>>
=============================================================================
