----------------------------- MODULE AtomicMap ------------------------------
(***************************************************************************)
(* What a map of listeners promises to threads that call AddToMap and      *)
(* GetFromMap concurrently: each call takes effect in one step between its *)
(* begin and its return.  QueuePool relies on this, and SafeUnorderedMap   *)
(* implements it.                                                          *)
(***************************************************************************)
EXTENDS ListenerMap

CONSTANTS Threads, NoRequest

VARIABLES
    status,     \* per thread: "idle", "called", "done"
    request,    \* per thread: its latest call
    answer      \* per thread: what its latest GetFromMap returned

vars == <<map, status, request, answer>>

Request == [op: {"AddToMap"}, key: Keys, listener: Listeners]
             \cup [op: {"GetFromMap"}, key: Keys, listener: {Null}]

Goto(t, from, to) == status[t] = from /\ status' = [status EXCEPT ![t] = to]

Call(t, r) ==
    /\ Goto(t, "idle", "called")
    /\ request' = [request EXCEPT ![t] = r]
    /\ UNCHANGED <<map, answer>>

Add(t) ==
    /\ Goto(t, "called", "done")
    /\ request[t].op = "AddToMap"
    /\ AddToMap(request[t].key, request[t].listener)
    /\ UNCHANGED <<request, answer>>

Get(t) ==
    /\ Goto(t, "called", "done")
    /\ request[t].op = "GetFromMap"
    /\ answer' = [answer EXCEPT ![t] = Found(request[t].key)]
    /\ LookedUp(request[t].key)
    /\ UNCHANGED request

Return(t) == Goto(t, "done", "idle") /\ UNCHANGED <<map, request, answer>>

Init ==
    /\ map = [k \in Keys |-> Absent]
    /\ status = [t \in Threads |-> "idle"]
    /\ request = [t \in Threads |-> NoRequest]
    /\ answer = [t \in Threads |-> Null]

Next ==
    \E t \in Threads :
        (\E r \in Request : Call(t, r)) \/ Add(t) \/ Get(t) \/ Return(t)

Spec == Init /\ [][Next]_vars
=============================================================================
