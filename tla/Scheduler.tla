----------------------------- MODULE Scheduler -----------------------------
(***************************************************************************)
(* Thread scheduler of KOS (src/scheduler.c) on the boot CPU.              *)
(*                                                                         *)
(* runqueues[0] is an intrusive singly linked FIFO (head, tail, t->next,   *)
(* nr_running) under rq->lock.  process_create appends a new thread;      *)
(* schedule() re-enqueues the current thread, dequeues the head, makes it  *)
(* c->current_thread and calls context_switch when it differs from prev.   *)
(*                                                                         *)
(* Nothing preempts: the LAPIC timer is never started and its handler is   *)
(* never installed in the IDT, so the only calls into the scheduler are    *)
(* the executing context's own process_create and yield, and each is one   *)
(* step.  The model separates the label c->current_thread (current) from   *)
(* the context the CPU really executes (ctx): "boot" is kernel_main's      *)
(* context, a thread id is a thread running on its own stack, HALTED is a  *)
(* CPU that took an unhandled exception.                                   *)
(*                                                                         *)
(* context_switch (lines 184-194) is a C function that loads rsp in inline *)
(* asm; what its epilogue then does depends on the code the compiler       *)
(* emits, and the model takes it as a choice made once per build:         *)
(*   "leave": the epilogue restores rsp from rbp, so the switch is undone  *)
(*            and schedule() carries on in the caller's context;           *)
(*   "ret":   the epilogue pops from the new stack, which resumes a        *)
(*            context saved by an earlier switch, or, on a fresh thread's  *)
(*            initial frame, jumps to the first word of that frame.        *)
(***************************************************************************)
EXTENDS Integers, FiniteSets, Sequences

CONSTANTS
    Threads,      \* thread ids next_tid can hand out: 1 .. MaxThreads
    StackBases,   \* results pmm_alloc_pages(4) can return; 0 is failure
    Builds,       \* subset of {"leave", "ret"}
    NULL, HALTED, BOOT,
    FRESH         \* t->rsp still points at the initial frame

STACK_OFFSET == 65536      \* the "+ 0x10000" added to the allocation
STACK_BYTES == 4 * 4096    \* pmm_alloc_pages(4)


\* The initial frame process_create writes, from t->rsp upwards (lines
\* 164-171): R15, R14, R13, R12, RBX, RBP, entry, return address 0.
ENTRY == 4096   \* (uint64_t)entry: any nonzero code address
InitialFrame == <<0, 0, 0, 0, 0, 0, ENTRY, 0>>

VARIABLES
    head, tail, nr,  \* runqueues[0].head, .tail, .nr_running
    next,            \* t->next
    locked,          \* runqueues[0].lock is held
    current,         \* c->current_thread of the boot CPU
    ctx,             \* the context the CPU executes
    saved,           \* what t->rsp resumes: FRESH or a context
    created,         \* threads process_create has returned
    alloc,           \* what pmm_alloc_pages(4) returned for t's stack
    stack,           \* t->kernel_stack
    entered,         \* threads whose entry function started
    build            \* the code generated for context_switch

vars == <<head, tail, nr, next, locked, current, ctx, saved, created, alloc, stack, entered, build>>

Contexts == Threads \cup {BOOT}

-----------------------------------------------------------------------------
(* enqueue (lines 43-55) and dequeue (lines 57-68) on the pointer fields.  *)
(* A queue is a record [head, tail, nr, next].                              *)

\* enqueue without "rq->tail->next = t" on a non-empty queue.
EnqueueNoLink(q, t) ==
    IF q.head = NULL
    THEN [q EXCEPT !.head = t, !.tail = t, !.next[t] = NULL, !.nr = @ + 1]
    ELSE [q EXCEPT !.tail = t, !.next[t] = NULL, !.nr = @ + 1]

\* enqueue linking the thread in at the head (LIFO).
EnqueueAtHead(q, t) ==
    IF q.head = NULL
    THEN [q EXCEPT !.head = t, !.tail = t, !.next[t] = NULL, !.nr = @ + 1]
    ELSE [q EXCEPT !.next[t] = q.head, !.head = t, !.nr = @ + 1]

Enqueue(q, t) ==
    IF q.head = NULL
    THEN [q EXCEPT !.head = t, !.tail = t, !.next[t] = NULL, !.nr = @ + 1]
    ELSE [q EXCEPT !.next[q.tail] = t, !.tail = t, !.next[t] = NULL, !.nr = @ + 1]

\* dequeue without "if (!rq->head) rq->tail = NULL".
DequeueKeepTail(q) ==
    IF q.head = NULL THEN [t |-> NULL, q |-> q]
    ELSE [t |-> q.head, q |-> [q EXCEPT !.head = q.next[q.head], !.nr = @ - 1, !.next[q.head] = NULL]]

\* dequeue without "rq->nr_running--".
DequeueNoCount(q) ==
    IF q.head = NULL THEN [t |-> NULL, q |-> q]
    ELSE LET q1 == [q EXCEPT !.head = q.next[q.head]]
         IN  [t |-> q.head, q |-> [IF q1.head = NULL THEN [q1 EXCEPT !.tail = NULL] ELSE q1
                                   EXCEPT !.next[q.head] = NULL]]

\* The thread dequeue returns and the queue it leaves.
Dequeue(q) ==
    IF q.head = NULL THEN [t |-> NULL, q |-> q]
    ELSE LET t  == q.head
             q1 == [q EXCEPT !.head = q.next[t]]
             q2 == IF q1.head = NULL THEN [q1 EXCEPT !.tail = NULL] ELSE q1
         IN  [t |-> t, q |-> [q2 EXCEPT !.nr = @ - 1, !.next[t] = NULL]]

RQ == [head |-> head, tail |-> tail, nr |-> nr, next |-> next]

SetRQ(q) == /\ head' = q.head /\ tail' = q.tail /\ nr' = q.nr /\ next' = q.next

-----------------------------------------------------------------------------
(* process_create, lines 139-182.  kzalloc failures return before any      *)
(* scheduler state changes.  The thread takes tid next_tid, a kernel stack *)
(* at pmm_alloc_pages(4) + 0x10000 (0x10000 when that fails) with the      *)
(* initial frame below it, and is enqueued on runqueues[0] without taking  *)
(* its lock.                                                               *)

ProcessCreate(base) ==
    /\ ctx # HALTED
    /\ created # Threads
    /\ LET t == Cardinality(created) + 1
       IN  /\ SetRQ(Enqueue(RQ, t))
           /\ created' = created \cup {t}
           /\ alloc' = [alloc EXCEPT ![t] = base]
           /\ stack' = [stack EXCEPT ![t] = base + STACK_OFFSET]
           /\ saved' = [saved EXCEPT ![t] = FRESH]
    /\ UNCHANGED <<locked, current, ctx, entered, build>>

-----------------------------------------------------------------------------
(* schedule, lines 70-98, as called by yield (100-102) or sleep (104-109). *)
(* prev is read before the lock; every thread has state TASK_RUNNING, so   *)
(* prev is re-enqueued whenever it is not NULL.                            *)

\* What the CPU executes after "mov new_rsp, %rsp" and the epilogue, and
\* whether that context goes on to spin_unlock.
AfterSwitch(from, to) ==
    CASE build = "leave"    -> [ctx |-> from, unlocks |-> TRUE]
      [] saved[to] # FRESH  -> [ctx |-> saved[to], unlocks |-> TRUE]
      [] OTHER              -> IF Head(InitialFrame) = ENTRY
                               THEN [ctx |-> to, unlocks |-> FALSE]
                               ELSE [ctx |-> HALTED, unlocks |-> FALSE]

Schedule ==
    /\ ctx \notin {HALTED}
    /\ ~locked
    /\ LET prev == current
           q1   == IF prev # NULL THEN Enqueue(RQ, prev) ELSE RQ
           d    == Dequeue(q1)
           nxt  == d.t
           sw   == prev # NULL /\ prev # nxt
           res  == AfterSwitch(ctx, nxt)
       IN  /\ SetRQ(d.q)
           /\ current' = IF nxt = NULL THEN current ELSE nxt
           /\ IF nxt # NULL /\ sw
              THEN /\ saved' = [saved EXCEPT ![prev] = ctx]
                   /\ ctx' = res.ctx
                   /\ locked' = ~res.unlocks
                   /\ entered' = IF res.ctx \in Threads /\ saved[nxt] = FRESH
                                 THEN entered \cup {nxt} ELSE entered
              ELSE UNCHANGED <<saved, ctx, locked, entered>>
    /\ UNCHANGED <<created, alloc, stack, build>>

Init ==
    /\ head = NULL /\ tail = NULL /\ nr = 0
    /\ next = [t \in Threads |-> NULL]
    /\ locked = FALSE
    /\ current = NULL
    /\ ctx = BOOT
    /\ saved = [t \in Threads |-> FRESH]
    /\ created = {}
    /\ alloc = [t \in Threads |-> 0]
    /\ stack = [t \in Threads |-> 0]
    /\ entered = {}
    /\ build \in Builds

Next ==
    \/ \E b \in StackBases : ProcessCreate(b)
    \/ Schedule

Spec == Init /\ [][Next]_vars
FairSpec == Spec /\ WF_vars(Schedule)

-----------------------------------------------------------------------------
(* Properties.                                                             *)

\* The threads met following t->next from runqueues[0].head, at most k.
RECURSIVE Chain(_, _)
Chain(t, k) == IF t = NULL \/ k = 0 THEN <<>> ELSE <<t>> \o Chain(next[t], k - 1)

Queue == Chain(head, Cardinality(Threads) + 1)
Queued == { Queue[i] : i \in DOMAIN Queue }

TypeOK ==
    /\ head \in Threads \cup {NULL} /\ tail \in Threads \cup {NULL}
    /\ nr \in 0 .. Cardinality(Threads)
    /\ next \in [Threads -> Threads \cup {NULL}]
    /\ locked \in BOOLEAN
    /\ current \in Threads \cup {NULL}
    /\ ctx \in Contexts \cup {HALTED}
    /\ saved \in [Threads -> Contexts \cup {FRESH}]
    /\ created \subseteq Threads /\ entered \subseteq created
    /\ build \in Builds

\* The run queue is a well-formed list after every enqueue and dequeue:
\* nr_running is the length of the chain from head, the chain has no
\* cycle, and tail is its last element (NULL exactly when it is empty).
QueueWellFormed ==
    /\ Len(Queue) = nr
    /\ Len(Queue) = Cardinality(Queued)
    /\ IF nr = 0 THEN head = NULL /\ tail = NULL
       ELSE tail = Queue[nr] /\ next[tail] = NULL

\* Spec section 8: no thread appears twice, and none is lost: every thread
\* process_create returned is either c->current_thread or reachable in
\* runqueues[0], never both, across schedule's re-enqueue of prev and
\* dequeue of next.
NoLostThread ==
    /\ created = Queued \cup ({current} \ {NULL})
    /\ current \notin Queued

\* Spec scenario 4 (FIFO, then round-robin): a thread waiting in the run
\* queue eventually becomes c->current_thread, as long as the executing
\* context keeps calling yield.
QueuedEventuallyCurrent ==
    \A t \in Threads : t \in Queued ~> current = t

\* Spec section 5: every created thread eventually starts at its entry
\* point through the initial frame and the first context switch to it.
EntryReached ==
    \A t \in Threads : t \in created ~> t \in entered

====
