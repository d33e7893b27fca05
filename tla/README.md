# A verification project for QueuePool

`QueuePool` (QueuePool.h) multiplexes any number of logical queues, each told apart by a
key, onto one queue of (key, value) nodes. Any number of producer threads call `Enqueue`;
one detached consumer thread pops the nodes and hands each value to the listener
(`IConsumer`) that was subscribed for its key. This directory holds a TLA+ model of the
pool, the instances TLC checks, and proofs that TLAPS checks for every instance.

## 1. Inventory

| component | state | operations | interacts with |
|---|---|---|---|
| `QueuePool`, `QueuePoolBase` (QueuePool.h) | `queue_`, `map_`, `stop_command_`, two mutexes and two condition variables, `consumers_finished_` | `Create`, `Subscribe`, `Enqueue`, `Dequeue`, `StopProcessing`, destructor | producers call `Enqueue`; the consumer thread runs `Dequeue`; the owner stops and deletes |
| `SignConsumerFinished` (QueuePool.h) | `consumers_left_`, `event_` | increase, decrease, wait | the consumer thread counts itself in and out, `StopProcessing` waits |
| `Event` (Event.h) | a flag that is never lowered, a mutex, a condition variable | `NotifyOne`, `NotifyAll`, `Wait` | `SignConsumerFinished`, the tests |
| queue traits | a locked `std::list`, or `boost::lockfree::queue` of fixed capacity | `Enqueue`, `Dequeue` | called by the pool without any lock of its own |
| `boost::lockfree::queue` (queue.hpp, detail/freelist.hpp) | `head_`, `tail_`, an array of nodes, `pool_`, all of them tagged indices of 16 + 16 bits | `bounded_push`, `pop`; `construct` and `destruct` of a node | producers push, the consumer pops; any thread may be stopped between two accesses |
| map traits | a locked `std::map`, or `SafeUnorderedMap` (buckets with a `shared_mutex` each) | `AddToMap`, `GetFromMap` | `Subscribe` writes, the consumer reads (and, in `SafeUnorderedMap`, also writes) |
| tests (QueuePoolTests.cpp) | counters, a stop event, detached producers | a load test (Test000) and two stop-on-empty tests (Test004, Test008) over the four combinations of traits | all of the above |

What is hard here:

* every notification is made without the mutex its receiver waits under, so it can fall
  between the receiver's predicate and its sleep;
* both waits have a predicate with a side effect: the consumer's pops, the producer's
  pushes, and the producer's is negated the wrong way round;
* the consumer reads the stop request three times on its way through `Dequeue`, and each
  reading can see something else;
* the consumer is detached, and only an optional `SignConsumerFinished` keeps the pool from
  being deleted under it;
* a lookup in `SafeUnorderedMap` inserts;
* in the lock-free queue a node is freed and used again while other threads still hold its
  index, and the same word is its `next` in the queue and its link in the free list;
* a test returns, and its locals go, while threads it has detached may still be running.

What makes each component correct: the *pool* loses and doubles no message, keeps the order
of each producer, routes by key, lets no thread sleep that has something to do, stops
within the message in hand, and is not used after it is deleted; *SignConsumerFinished* and
*Event* let a waiter go exactly when the last consumer has finished; a *queue trait* is a
FIFO, of bounded size for the lock-free one, whatever the interleaving of its accesses; a
*map trait* is a map; a *test* ends, Test000 has seen every message when it stops the pool, and a test
leaves nothing behind that still uses its locals.

## 2. Modules

* `CondVar` is the external part: one `std::mutex` with the `std::condition_variable` that
  is waited on under it. `wait(lock)` releases the mutex and joins the waiters in one step,
  notifications may come from a thread that does not hold the mutex, a notification that
  finds nobody is lost, and a waiter may wake spuriously. The pool has three instances of
  it: `Consume` (`consume_condvar_`), `Produce` (`enqueue_condvar_`) and `Finish` (Event).
* `QueuePool` is the pool. Each thread has a program counter, and each action is the code
  between two points at which another thread can interfere.

  | variables | in the code |
  |---|---|
  | `queue` | `queue_` |
  | `map` | `map_`: per key no entry, an entry with an empty pointer, or a listener |
  | `stop` | `stop_command_` |
  | `signature`, `consumers_left`, `notify_flag` | whether `Create` was given a `SignConsumerFinished`, its counter, and the flag of its `Event` |
  | `cpc`, `node`, `listener` | the consumer thread, `node_local` and `listener` of `Dequeue` (`node = NoMsg`: not filled) |
  | `ppc`, `msg`, `sent` | the producers inside `Enqueue`, their argument, their completed calls |
  | `opc`, `deleting`, `alive` | the owner inside `StopProcessing`, called by itself or by the destructor |
  | `subscriptions`, `overflowed`, `log`, `repeated`, `missed` | history, read by no guard |

  The consumer: `CStart` counts itself, `CLoop` is the loop's test, `CPop` the first
  attempt to pop, `CLock`, `CEval`, `CEvalStop`, `CBlock`, `CUnlock` the wait and the two
  halves of its predicate, `CCheck` the test after it, `CLookup`, `CConsume`,
  `CNotifyCapacity` the delivery, `CDecrease`, `CSetFlag`, `CNotifyFinished` the end of the
  thread. A producer: `Enqueue` (the call), `PConstruct` and `PLink` (the two halves of a
  push), `PLock`, `PRetry`, `PBlock`, `PUnlock` the overflow wait, `PNotify`. The owner:
  `Subscribe`, `StopProcessing`, `ONotifyStop`, `OEventLock` to `OEventUnlock`, `OReturn`.

  Two constants choose the traits. `QueueTraits = "lockfree"` gives a push and a pop two
  halves each: a push takes a node from the free list (or fails) and then links it, a pop
  unlinks a node and then gives it back (`CFree`), so that nodes in flight count against
  the capacity. With `"mutex"` the queue never refuses; `CFree` is then the end of the same
  pop. `MapTraits = "safe"` gives `AddToMap` the semantics of `emplace` and lets
  `LookedUp` insert an empty listener.
* `ListenerMap` is the variable `map` and what the map traits do to it, each operation in
  one step: `AddToMap` is `Assign` or `Emplace`, `Found` what a lookup returns and
  `LookedUp` what it leaves behind. `QueuePool` extends it.
* `QueuePoolProperties` states what is checked and proved of the pool; `MCQueuePool`
  instantiates it; `QueuePoolProofs`, `QueuePoolMessageProofs` and `QueuePoolOrderProofs`
  hold the proofs.
* `BoundedQueue` says what a lock-free queue promises to threads that call it
  concurrently: a FIFO whose elements and whose operations in progress share `Capacity`
  nodes. A push takes a node (`Take`) or is refused when there is none (`Refuse`), and then
  links it; a pop unlinks the front (`Unlink`), or misses if the queue was empty at some moment
  of the call (`Look`, `Miss`), and then gives its node back.
* `FreeList` is detail/freelist.hpp: `pool` (`pool_`) and the `next` of each node, changed by
  compare-and-exchange of tagged indices. `AllocLoad`, `AllocNext`, `AllocCas` are
  `allocate_impl`, `FreeLoad`, `FreeLink`, `FreeCas` are `deallocate_impl`; each access to
  shared memory is a step, but for the constructor of a node that is not yet linked
  (`Construct`, below).
* `LockfreeQueue` extends it to queue.hpp: `head`, `tail`, `data`, and for each thread `pc`
  and its `local` variables. `bounded_push` goes on with the free list, `Construct` (the
  node's constructor, which moves the tag of `next` on; its write of `data`, its read and
  its write of `next` are one step: the node has been taken and is not linked, and a thread that
  still has its index from an earlier life reads `next` first and `data` after it, so that it sees no
  more combinations of old and new between the writes than before and after them), `PushTail`, `PushNext`, `PushCheck`,
  `Link`, `Swing`; `pop` with `PopHead`, `PopTail`, `PopNext`, `PopEmpty` or `PopCheck`,
  `Copy`, `Unlink` and the free list again; `Help` moves a `tail` that lags, for either.
  Memory is sequentially consistent in the model, and `compare_exchange_weak` does not fail
  spuriously (on the x86 and x64 targets of QueuePool.vcxproj it is a locked `cmpxchg`; a
  spurious failure would be one more round of the loop). `LockfreeQueueProperties` states that
  it implements `BoundedQueue` (the mapping: `Items`, `Status`, `ValueOf`), and `QueuePool`
  with `QueueTraits = "lockfree"` is stated, and proved, to make no other use of its queue than
  `BoundedQueue` allows (`UsesBoundedQueue`): the two halves of its pushes and pops are
  `Take`/`Link` and `Unlink`/`GiveBack`.
* `LockfreeQueueTags` says what the tags are for. Its history variables `stalePool`,
  `staleHead`, `staleTail` and `staleNext` hold the threads whose reading of a word is older
  than the last change of that word's tag; no guard reads them, and `Record` gives each a value
  in every step, so `TaggedSpec` has the behaviours of `Spec`. `NoLap` says that no comparison
  succeeds with such a reading: only a full round of tags within one call could make it.
  `ListInv` is the inductive invariant of the proofs, and `BudgetInv` that of the
  theorem that `NoLap` holds for a limited number of calls. `MCLockfreeQueue` instantiates this module;
  `LockfreeQueueProofs` and `LockfreeQueueListProofs` hold the proofs.
* `QueuePoolTests` extends the pool by QueuePoolTests.cpp. `Script` has the statements of each
  test in their order; `MainEnqueue` to `MainFinish` are these statements, where the owner of
  the pool is the thread of the test. `ConsumeCount`, `ConsumeRaise`, `ConsumeNotify` are
  `TestListenerBase::Consume`, run by the consumer thread inside the pool's `CConsume`;
  `ThreadEnqueue`, `InsideEnqueue`, `ThreadCount` are the loop of a detached thread. `StopEvent`
  is another instance of `CondVar`. Test000 starts one thread per queue; in Test004 and Test008
  the first thread stands for the test itself, which enqueues. `MCQueuePoolTests`
  instantiates it, `QueuePoolTestsProofs` holds the proofs. `MainFinish`, the second wait of a test for the
  same event, is a guard on its flag: `StopProcessing` has waited for it, and a flag that is never
  lowered lets the wait through without sleeping.
* `AtomicMap` extends `ListenerMap` too. It says what a map promises to threads that call
  it concurrently: a call (`Call`) takes effect in one step (`Add` or `Get`) and returns
  (`Return`).
* `SafeUnorderedMap` is the code of SafeUnorderedMap.h: `data` (a map per bucket),
  `writer` and `readers` (its `shared_mutex`), and for each thread `pc`, `request` and
  `result`. `Set` is `SetLock`, `SetEmplace`, `SetUnlock`; `GetAndCreate` is `FindLock`,
  `Find`, after a miss `FindUnlock`, `CreateLock`, `Create`, `CreateUnlock`, `Relock`, and then
  `Read` (the copy that `GetFromMap` makes through the `Reference`) and `Release` (the end of
  that `Reference`). `SafeMapProperties` states that it implements `AtomicMap` (the
  refinement mapping: `Map`, `Status`, `Answer`), which is what lets `QueuePool` treat a
  `Subscribe` or a lookup as one step; `MCSafeMap` instantiates it, `SafeMapProofs` proves it.
* `SignConsumerFinished` is the class of that name over `Event`, shared by the consumer
  threads of several pools and waited for by several threads. `Increase`, `Decrease` and
  `Test` are the counter (the decrement and the test of zero are two accesses), `SetFlag` and
  `NotifyAll` the event, `Wait`, `Lock`, `Eval`, `Block`, `Unlock` the wait; it has its own
  instance of `CondVar`. `cohort`, `emptied` and `missed` are history. `QueuePool` has the
  same code for one consumer and one waiter, where the decrement and its test are one step
  (nobody else touches the counter). `SignatureProperties`, `MCSignature` and
  `SignatureProofs` go with it.

What `QueuePool` assumes of its users (its action `Call`): the pool is not deleted while a
producer is inside `Enqueue`, and nothing is called during or after the deletion;
`Subscribe` and `StopProcessing` are called by one thread. `QueuePoolTests` makes the calls
that the tests make instead, and these do delete the pool while a producer is inside its last
`Enqueue` (`OnlyLastStepsOutlive`). `Consume` of a listener returns and does not call the
pool. A pool that was created without a `SignConsumerFinished` and deleted has a thread that
goes on as if the storage were still intact; no property is about what it does there except
those that hold of it in any case.

## 3. Runs

The runs of the pool have one consumer and one owner, who may subscribe, stop any number of
times, and delete at any time. `MaxEnqueues` bounds the calls of each producer and is the
only bound on the behaviours; everything else is finite by itself. `SafeUnorderedMap` and
`SignConsumerFinished` need no bound besides the sets of threads, keys and listeners. In
`LockfreeQueue`, `MaxCalls` bounds the calls of each thread. Deadlock is not checked: a stopped
pool, a pool that nobody uses, a waiter whose notification was missed, a thread that has made
its calls and a test that is over, stop; `CallsReturn`, `LockFree` and `TestEnds` say more.

| run | instance | shows |
|---|---|---|
| `pool_mutex` | list + std::map, 2 producers with 2 calls | types; `ExactlyOnce`; `SubscribedNeverUnknown`; `AtMostOneStopDrop`; `NeverDispatchesEmptyNode`; `StopWakesConsumer`; `FinishWakesOwner`; `ConsumerNeverOutlivesPool` |
| `pool_lockfree` | lock-free with one node + SafeUnorderedMap, 2 producers | `IInv`, `OverflowConfined`, `SleepHasCause`, `QuietAfterStop`, `UsesBoundedQueue` |
| `pool_delivery` | lock-free with two nodes + std::map, 3 calls of one producer for 2 keys | `RoutedToSubscriber`, `DeliveryOrder` |
| `pool_liveness` | list + SafeUnorderedMap, 2 producers, fair | `QueuedIsTaken`, `StopEndsConsumer`, `StopReturnsOrStalls` |
| `map` | SafeUnorderedMap, 2 threads, 3 keys in 2 buckets, 2 listeners, fair | its `IInv`, `WritersAlone`, `ImplementsAtomicMap`, `EntriesKeep`, `CallsReturn` |
| `signature` | 3 consumers and 2 waiters on one SignConsumerFinished, fair | its `IInv`, `WaitCoversCohort`, `LastRaisesFlag`, `FlagWakesWaiters`, `FinishReleasesWaiters` |
| `lockfree_queue` | 2 threads with 3 calls of `bounded_push` or `pop` each, 2 nodes and the dummy, 4 tags | `TypeOK`, `NoLap`, `ListInv`, `NullNeverFollowed`, `NodesAccounted`, `TailLagsByOne`, `ImplementsBoundedQueue`, `LockFree` |
| `tests` | Test000, Test004, Test008, 2 queues and listeners, 2 messages per thread, fair | `ListenerGetsOwnId`, `StopEventMeansAllConsumed`, `OnlyLastStepsOutlive`, `TestEnds` |

Why the bounds are enough: the interesting situations involve the consumer, the owner and at
most two producers (one that has notified too early, one that has not yet); one node makes
every second push overflow; two calls per producer let a message follow another, three make
the order of the queue visible; two keys suffice to confuse keys.
In the map, a lookup that misses and one other thread make every race of the two gaps; of
three keys two share a bucket. Three consumers let one leave, one overlap and one come late.
In the lock-free queue three calls of one thread free a node, take it and free it again inside
one call of the other, which is what the tags are for. With four tags the tags of `pool_` and of
the links come round in the run. With two or three, a thread can be overtaken by a full round of
changes and the exchange succeeds on an old value (`NoLap` fails, then `NodesAccounted`); the code
has 65536, and is as safe as no thread sleeps through that many changes of one word. Two queues of two
messages let one listener's thread finish before the other starts.
The two producers are interchangeable, so the safety runs with both use symmetry; the
liveness run does not.

`ExactlyOnce` is checked on the unbounded queue only: on one that can overflow it does not
hold, as the runs of section 4 show. What holds there is `OverflowConfined`: the history variable
`overflowed` has the calls whose first push found no node, and every other call is still served
exactly once, next to overflow waits that lose their message or send it again at every wakeup.
With one node and two producers each of them can be the one that overflows, while the other's
message is queued, in the consumer's hand or yet to come. `SubscribedNeverUnknown` is checked,
and proved, for the locked std::map; it does not hold for SafeUnorderedMap.

**Fairness.** Weak fairness for the consumer thread, for each producer inside `Enqueue` and
for the owner inside `StopProcessing`: the operating system schedules every runnable
thread. Calls are not fair (nobody has to send, subscribe or stop), nor are spurious
wakeups, which the standard allows and does not promise. A thread that waits for a mutex
is weakly fair too. `LockFree` assumes less: only the thread whose call is to return keeps
running, and the others may stop anywhere; they make no more than `MaxCalls` calls, so that
none can be overtaken for ever, which a lock-free queue does not exclude. In `tests` the
consumer thread, the test and each detached thread are weakly fair. The standard promises no
more of a mutex, so where callers may come back for ever (`CallsReturn`,
`FinishReleasesWaiters`) the property says "unless new calls keep coming" and no strong
fairness is assumed.

**Progress up to lost wakeups.** The three liveness properties excuse a thread that sleeps
because its notification came too early. The history variable `missed` says exactly
that: `NotifyConsumerMissed` records the consumer when somebody notifies while it is between
its predicate and its sleep, and the next evaluation of the predicate clears it.
`SleepHasCause`, `StopWakesConsumer` and `FinishWakesOwner` are the safety counterparts:
they say that this window, and a producer that has yet to notify, are the *only* ways to
sleep when there is something to do. `TestEnds` excuses a test in the same way, and besides by
name a message that the consumer of Test004 or Test008 has seen before its listener was
subscribed: these tests enqueue first, and then never reach their final count.

## 4. What the code does not do

Four runs check what a comment or a test says of the program, and find it violated.

* `doc_overflow_lost`, `doc_overflow_repeated`: QueuePool.h:30
  announces a wait when the queue overflows. The predicate of that wait (219-221) is
  `!Traits::Enqueue(...)`. If the retry fails, the predicate is true, the wait ends, and
  `Enqueue` returns without having queued its value. If it succeeds the value is queued,
  and the producer goes to sleep; whenever it is woken it queues the value again.
* `doc_lost_wakeup`: the tests take "does not hang" as their criterion. A `notify_one` of
  `Enqueue` or a `notify_all` of `StopProcessing` between the consumer's predicate and its
  sleep wakes nobody, because neither is made under `condit_consume_mutex_`; the consumer
  then sleeps on a message or through a stop, which `StopProcessing` waits for.
* `doc_subscribe_ignored`: after one message for a key without listener,
  `SafeUnorderedMap` holds an empty entry which `Subscribe` does not replace.

## 5. Proofs

The theorems hold for any finite set of producers, any keys and listeners, any capacity and
number of calls, and (except where said) any choice of traits. They rest on the assumptions
named in `QueuePool`: the threads are distinct, `TotalCapacity` is positive, the sentinels
are not values.

The inductive invariant `IInv` (QueuePoolProperties) adds to the types what a step needs to
know of the others:

* `CounterInv`: the consumer counts as one from its start to its decrement (or the
  counter could leave {0, 1});
* `NodeInv`: a node that is being freed, looked up or consumed is filled, and `Dequeue`
  comes out of its wait without a node only if a stop was requested. Stop requests are
  never withdrawn, hence `NeverDispatchesEmptyNode`;
* `ProducerInv`: a producer inside `Enqueue` has its message;
* `WaitInv`: a waiter is at its wait, so that evaluating a predicate, which clears
  `missed`, is never done by a thread that counts as asleep;
* `StopInv`: the event's flag goes up only after the consumer's last step in the pool, and
  the owner does not come out of `StopProcessing` without it. This is
  `ConsumerNeverOutlivesPool` and `QuietAfterStop`;
* `SleepHasCause`, `StopWakesConsumer`, `FinishWakesOwner` are inductive relative to these.

`QueuePoolProofs` proves that every step preserves each of these and ends in `TypeCorrect`,
`NodesAreFilled`, `SleepIsCaused`, `StopWakes`, `FinishWakes`, `PoolOutlivesConsumer` and
`StopIsQuiet`. `QueuePoolMessageProofs` proves `Routing` (with `RoutingInv`: the map and the
listener in hand are subscribed), `OneStopDrop` (with `StopDropInv`: after a drop the
thread only leaves), and `KnownIsServed` for the locked map (with `KnownInv`: messages whose key
was subscribed find a listener).

`QueuePoolOrderProofs` follows the messages. `OrderInv`: along the way from the queue over the
consumer's node to the log, the numbers of one producer's calls never fall back behind one that
is ahead: they rise, or repeat if the call is in `overflowed`, whose wait pushes again; and none belongs to a
call yet to come. It needs `NodeFinished` (a pop never overwrites a node in hand) and `CallInv` (which
call a producer is in, and that it is in the overflow wait only if it is in `overflowed`). `InOrder`
follows for all traits. Of a call that has not overflowed the numbers rise strictly, so its message is in
at most one place; `PlaceInv` says that once it is linked it is in at least one, since only a pop takes
it from the queue and only the end of a round of `Dequeue` from the consumer's hand. That is
`OverflowIsConfined`, for every trait and capacity, and where no call overflows it is
`NoneLostNoneDoubled`. None does under `NeverFull`: the queue is
the locked list, or the lock-free queue has a node for every call. Then each node in use belongs
to a different call (`NodesAreCalls`: the one that queued its message, holds it or is taking it
out, told apart by the strict order), a producer about to push has a call that none of
them belongs to, and so a node is left (`NeverExhausted`). The 65500 nodes of the tests are
such a queue for their 4004 calls.

Nearly all of these lemmas are stated for `AnyNext`, which has the calls of the users at any
time, rather than for `Next`, whose users delete the pool only when no producer is inside it: the
tests do not wait for their threads.

`QueuePoolTestsProofs` carries the invariants over to the three test programs, for any number of
listeners, threads and calls (`TestsAssumption`: each queue has a thread of its own, and no more
messages than calls are allowed). A step of a test is one of the pool or only changes who misses a
notification (`TestIsPoolStep`). `OwnId` is the assertion of `TestListenerBase::Consume`, from
`Routing` and from what the tests subscribe. `CountInv` says that `result_counter_` is the number
of different calls whose message a listener has been given; since no message is consumed
twice (`NeverFull`), the count reaches its final value only when every call of every thread has
been consumed: `StopEventIsTheEnd`. A consumed call is one that has been made, whence
`NothingOutlives`.

`QueuePoolMessageProofs` also proves `UsesQueue`: each step of the pool on the lock-free queue is one
step of `BoundedQueue` or changes nothing of it. The consumer is one of its threads and each
producer another, and the nodes in use (`NodesInUse`) are those `BoundedQueue` counts.

`LockfreeQueueProofs` proves, for any threads, capacity and number of tags, `TypeCorrect` (no
step leaves the range of indices and tags) and `HandlesAreOfNodes`: at its next access, and at
every later one, a thread follows the index of a node. The invariant says for each place of the
code which of the thread's own variables have been tested against the null handle, and that
`head_` and `tail_` never become null. It does not depend on tags, and it holds although tags wrap.

`LockfreeQueueListProofs` proves the rest of the queue's safety under the assumption `[]NoLap`,
again for any threads, capacity, calls and number of tags. The assumption is needed (with few tags
and long calls the code, too, is wrong) and it is all that the tags are relied upon for; the run
shows that it holds there although tags wrap. `ListInv` says that

* the nodes reached from `head_` and those reached from `pool_` are two sequences of different
  nodes, and every node is in one of them or in the hands of one thread (`IsChain`, `Partition`);
* `tail_` is the last node or the one before (`Lag`), and then its linker has not moved it yet;
* what a thread has read is still true, or the tag it will compare has moved on: that the node it
  is about to take is the first free one and its link is right (`Allocates`), that the node it
  links behind is the last (`Links`), that the node it helps `tail_` to is the next one (`Helps`),
  that the node after the dummy is still the one it has read and the copied value is that node's
  (`Unlinks`); and its own node is filled and its link as it left it (`Fills`, `Frees`).

The proof names the two sequences and shows for each action what it makes of them: `AllocCas`
takes the head of the free list, `FreeCas` puts a node before it, `Link` appends to the queue,
`Unlink` drops its head, and all other steps leave both alone, but may change what one thread has
read. It rests on lemmas about chains (`TailChain`, `ConsChain`, `AppendChain`) and on `ChainIs`,
that the function `Chain` of `FreeList`, which follows the links, returns such a sequence. `NodesKept`
and `TailFollows` follow. `Linearizable` is the refinement: a push takes effect when its `Link`
succeeds, a pop when its `Unlink` does, a refusal when the free list is seen empty (then all
`Capacity` nodes besides the dummy are in the queue or in somebody's hands: `UseCount`, by
cardinalities), and a pop that returns false has seen the dummy as the last node and `head_`
unchanged since. With `UsesQueue` it closes the gap between the pool and the accesses of boost.

`TagsLast` gives the assumption for a limited number of calls: it proves `NoLap` under `FewCalls`, for
a finite set of threads whose calls are together fewer than half the number of tags, which for 16
bits is 32768. `LinearizableForFewCalls` is the refinement without `[]NoLap`. The argument is a budget.
`Ahead(P)` is the set of calls that are yet to be made or still in one of the places `P` of the code;
a call leaves `P` once and does not come back (`Flows`). A node is taken, made, linked and unlinked
by a call at most once, so the tag of `pool_`, of `head_` or of a link, plus the calls that may still
change it, never grows (`Budgeted`). `tail_` is moved by anybody, any number of times in a call, but
only after a link that it has yet to follow (`Behind`), so it too is paid for by a push: this is where
the budget needs `ListInv`, and why the two are proved together. A link is changed twice by a push,
once in the constructor and once when another node is linked to it, hence "half". While no tag comes
round, a stale reading has a smaller tag than its word (`Older`), and no comparison takes one for the
other. `BudgetInv` is checked with the configuration of `lockfree_queue` by giving it 13 tags; the
run itself keeps 4, so that tags do come round.

`SafeMapProofs` proves the map for any threads, keys, hash and number of buckets. The
invariant says who holds which lock from where the threads are (`LockInv`, whence
`Exclusion`), that a call knows its request, and `FoundInv`: once a call has found or made its
entry, the entry is there. Only `Emplace` writes, so entries are permanent (`Permanence`);
so the answer a lookup will read is fixed when it hits or inserts, however many steps
other threads take in the gaps. That is the heart of `Implements`: a `Set` takes effect at
its `emplace`, a lookup at its `find` or, after a miss, at its own `emplace`, and every
other step changes nothing in the abstract map.

`SignatureProofs` proves the counter to be the number of running consumers (`CountInv`,
with the library's facts about cardinality), that the flag follows its return to zero
(`RaiseInv`, `CohortInv`), and from these `WaitCovers`, `FlagIsRaised` and `FlagWakes`. What a
shared signature does *not* give is visible in `WaitCoversCohort`: a consumer that counts
itself in after the counter has come back to zero is not waited for.

Only model-checked: the liveness properties, for which TLAPS here has no rules (ENABLED and
fairness); and `NoLap` for more than half as many calls as there are tags. It does not hold for
every value of the constants: with few tags and enough calls a tag comes round within one call of
a thread, as in the code after 65536 changes of one word. `ExactlyOnce` and the last two properties of the tests are proved where the
queue cannot overflow and `SubscribedNeverUnknown` for the locked map; elsewhere `ExactlyOnce` and
`SubscribedNeverUnknown` do not hold (section 4).

## 6. Not modelled

* `Unsubscribe`, and `Get` and `Erase` of `SafeUnorderedMap`, do not compile when
  instantiated. Failures of allocation and of the start of the thread are left out.
* `Event::NotifyOne` and a `Wait` with a callback of the caller's, which nothing uses, and
  `IsConsumersFinished`, which changes nothing and which nobody calls.
* The operations of `boost::lockfree::queue` that the traits do not call, its queues without
  compile-time capacity, and weak memory: the model interleaves the accesses of the code one
  by one.
* The end of the locals of a test and of a signature's life. `OnlyLastStepsOutlive` says which
  steps of other threads may come after it, and that no others do; what these do to a
  condition variable or a counter that is gone is undefined and not modelled. Nor is the lambda
  that Test000 passes to `CreatePool`: it is a temporary of that statement (167-185), which ends before the
  test waits, while the detached threads hold a reference to it and go on calling it.
* What the code does, and nothing in the repository says whether it should: a second `Subscribe`
  of a key replaces the listener in `MapWithMutexTraits` and is ignored by `SafeUnorderedMap`; a message
  looked up before a `Subscribe` goes to the old listener after it; a consumer that counts itself into a
  `SignConsumerFinished` whose counter has been back at zero is not waited for; Test004 and Test008
  may end early on an old count. Both sides are in the models, and no property claims either.
* A listener that calls the pool from `Consume`. If it stops or deletes the pool it waits for
  the thread it runs on.
* `TestSleep`, which orders nothing.
* Vendored code (boost apart from the queue and its free list, googletest) and the build
  files have no part in the logic. They are nearly all of the lines of this repository: its own
  code is about a thousand lines.

An abstract pool (a FIFO of accepted messages and what became of each) would say no more than
`ExactlyOnce`, `DeliveryOrder` and `RoutedToSubscriber` together, and these are proved directly;
the abstract specifications are those of the parts whose interleavings need one, `AtomicMap` and
`BoundedQueue`.
