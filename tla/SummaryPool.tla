----------------------------- MODULE SummaryPool -----------------------------
(***************************************************************************)
(* The background summaries of AI sessions                                 *)
(* (backend/src/services/ai/memory/summary.c): request threads queue a     *)
(* task when a session nears its token budget, two pool threads call the   *)
(* model and stage the answer, and the next request of the session writes  *)
(* it to the database.  A ring of slots keeps a session from being queued  *)
(* twice.  Saving the AI settings (ai_usecase_settings_update) stops the   *)
(* pool and starts it again with new threads while other requests go on.   *)
(*                                                                         *)
(* A critical section is one action.  A summary is known by the task it    *)
(* comes from; tasks are numbered in the order they took their slots.      *)
(***************************************************************************)
EXTENDS Integers, Sequences, FiniteSets

CONSTANTS
    Sessions, Requests, None,
    Savers,        \* request threads that also save the settings
    Slots,         \* SUMMARY_INFLIGHT_SLOTS (256)
    QueueCap,      \* SUMMARY_QUEUE_CAP (64)
    PendingCap,    \* SUMMARY_PENDING_SLOTS (64)
    MaxTasks, MaxStarts   \* bounds: tasks, starts of the pool

ASSUME SummaryAssumption ==
    /\ Savers \subseteq Requests
    /\ None \notin Sessions \cup Requests
    /\ {Slots, QueueCap, PendingCap, MaxStarts} \subseteq Nat \ {0}
    /\ MaxTasks \in Nat
    \* 256 slots for at most 64 + 2 + 2 tasks
    /\ IsFiniteSet(Requests) /\ Slots >= QueueCap + 2 + Cardinality(Requests)

Slot   == 0..Slots - 1
Thread == 1..2 * MaxStarts
Task   == [session : Sessions, slot : Slot, no : 1..MaxTasks]

VARIABLES
    pool,     \* s_pool without its queue: initialized, shutdown, workers
    queue,    \* the tasks waiting for a pool thread
    slots,    \* the session each in-flight slot is taken by
    taken,    \* slots taken so far: s_inflight_head before the wrap
    staged,   \* s_pending: summaries waiting to be written
    stored,   \* ai_session_summaries: number of the task, 0 when none
    thread,   \* pool threads
    req       \* request threads; rival is history: another request has served
              \* the session while this one held a summary to write

vars == <<pool, queue, slots, taken, staged, stored, thread, req>>

-----------------------------------------------------------------------------
Idle == [pc |-> "idle", session |-> None, task |-> None, on |-> None,
         rival |-> FALSE]
Born == [pc |-> "check", task |-> None]

Goto(r, p) == req' = [req EXCEPT ![r].pc = p]
Finish(r)  == req' = [req EXCEPT ![r] = Idle]

\* inflight_release
Free(S) == slots' = [k \in Slot |-> IF k \in S THEN None ELSE slots[k]]

Waiting == {t \in Thread : thread[t].pc = "wait"}

\* pthread_cond_signal, pthread_cond_broadcast
WakeOne == IF Waiting = {} THEN UNCHANGED thread
           ELSE \E t \in Waiting : thread' = [thread EXCEPT ![t].pc = "check"]
WakeAll == thread' = [t \in Thread |-> IF t \in Waiting
                          THEN [thread[t] EXCEPT !.pc = "check"] ELSE thread[t]]

Init == /\ pool = [initialized |-> TRUE, shutdown |-> FALSE, workers |-> <<1, 2>>]
        /\ queue = <<>>
        /\ slots = [k \in Slot |-> None]
        /\ taken = 0
        /\ staged = {}
        /\ stored = [s \in Sessions |-> 0]
        /\ thread = [t \in Thread |-> IF t <= 2 THEN Born
                                      ELSE [Born EXCEPT !.pc = "unborn"]]
        /\ req = [r \in Requests |-> Idle]

-----------------------------------------------------------------------------
(* Request threads: ai_summary_flush_pending, ai_summary_maybe_trigger       *)

Visit(r) == \E s \in Sessions :
    /\ req[r].pc = "idle"
    /\ req' = [q \in Requests |->
                 IF q = r THEN [Idle EXCEPT !.pc = "flush", !.session = s]
                 ELSE IF req[q].pc = "write" /\ req[q].session = s
                 THEN [req[q] EXCEPT !.rival = TRUE] ELSE req[q]]
    /\ UNCHANGED <<pool, queue, slots, taken, staged, stored, thread>>

\* Take the staged summary of the session.
Flush(r) ==
    LET mine == {x \in staged : x.session = req[r].session}
    IN  /\ req[r].pc = "flush"
        /\ \/ mine = {} /\ Goto(r, "due") /\ UNCHANGED staged
           \/ \E x \in mine :
                /\ staged' = staged \ {x}
                /\ req' = [req EXCEPT ![r].pc = "write", ![r].task = x,
                     ![r].rival = \E q \in Requests \ {r} :
                                     req[q].session = req[r].session]
        /\ UNCHANGED <<pool, queue, slots, taken, stored, thread>>

\* mf_ai_summary_upsert, with no lock held.
WriteSummary(r) ==
    /\ req[r].pc = "write"
    /\ stored' = [stored EXCEPT ![req[r].session] = req[r].task.no]
    /\ req' = [req EXCEPT ![r].pc = "due", ![r].rival = FALSE]
    /\ UNCHANGED <<pool, queue, slots, taken, staged, thread>>

\* Below the ratio of the token budget, or no trigger in this request.
NotDue(r) == /\ req[r].pc = "due"
             /\ Finish(r)
             /\ UNCHANGED <<pool, queue, slots, taken, staged, stored, thread>>

TakeSlot(r) ==
    LET s == req[r].session
        k == taken % Slots
    IN  /\ slots' = [slots EXCEPT ![k] = s]
        /\ taken' = taken + 1
        /\ req' = [req EXCEPT ![r].pc = "build", ![r].task =
                     [session |-> s, slot |-> k, no |-> taken + 1]]

\* A slip: no look for a task of the same session.
AcquireAlways(r) == /\ req[r].pc = "due" /\ taken < MaxTasks
                    /\ TakeSlot(r)
                    /\ UNCHANGED <<pool, queue, staged, stored, thread>>

\* inflight_acquire: the next slot of the ring, taken or not.
Acquire(r) ==
    /\ req[r].pc = "due" /\ taken < MaxTasks
    /\ IF \E k \in Slot : slots[k] = req[r].session
       THEN Finish(r) /\ UNCHANGED <<slots, taken>>
       ELSE TakeSlot(r)
    /\ UNCHANGED <<pool, queue, staged, stored, thread>>

\* The prompt is built, or cannot be: no history, memory or provider key.
Build(r) == /\ req[r].pc = "build"
            /\ \E p \in {"queue", "giveup"} : Goto(r, p)
            /\ UNCHANGED <<pool, queue, slots, taken, staged, stored, thread>>

\* Slips: the bound of the queue forgotten, the signal forgotten.
EnqueueUnbounded(r) ==
    /\ req[r].pc = "queue"
    /\ IF ~pool.initialized \/ pool.shutdown
       THEN Goto(r, "giveup") /\ UNCHANGED <<queue, thread>>
       ELSE /\ queue' = Append(queue, req[r].task)
            /\ WakeOne
            /\ Finish(r)
    /\ UNCHANGED <<pool, slots, taken, staged, stored>>
EnqueueSilent(r) ==
    /\ req[r].pc = "queue"
    /\ IF ~pool.initialized \/ pool.shutdown \/ Len(queue) >= QueueCap
       THEN Goto(r, "giveup") /\ UNCHANGED queue
       ELSE queue' = Append(queue, req[r].task) /\ Finish(r)
    /\ UNCHANGED <<pool, slots, taken, staged, stored, thread>>

Enqueue(r) ==
    /\ req[r].pc = "queue"
    /\ IF ~pool.initialized \/ pool.shutdown \/ Len(queue) >= QueueCap
       THEN Goto(r, "giveup") /\ UNCHANGED <<queue, thread>>
       ELSE /\ queue' = Append(queue, req[r].task)
            /\ WakeOne
            /\ Finish(r)
    /\ UNCHANGED <<pool, slots, taken, staged, stored>>

GiveUp(r) == /\ req[r].pc = "giveup"
             /\ Free({req[r].task.slot})
             /\ Finish(r)
             /\ UNCHANGED <<pool, queue, taken, staged, stored, thread>>

-----------------------------------------------------------------------------
(* Pool threads: summary_pool_worker_entry, summary_worker                   *)

Look(t) ==
    /\ thread[t].pc = "check"
    /\ IF pool.shutdown
       THEN thread' = [thread EXCEPT ![t].pc = "ended"] /\ UNCHANGED queue
       ELSE IF queue = <<>>
       THEN thread' = [thread EXCEPT ![t].pc = "wait"] /\ UNCHANGED queue
       ELSE /\ thread' = [thread EXCEPT ![t] = [pc |-> "call", task |-> Head(queue)]]
            /\ queue' = Tail(queue)
    /\ UNCHANGED <<pool, slots, taken, staged, stored, req>>

\* pthread_cond_wait may return without a signal.
SpuriousWake(t) ==
    /\ thread[t].pc = "wait"
    /\ thread' = [thread EXCEPT ![t].pc = "check"]
    /\ UNCHANGED <<pool, queue, slots, taken, staged, stored, req>>

\* A slip: the slot given back when the model answers, before staging.
AnswerEarly(t) ==
    /\ thread[t].pc = "call"
    /\ \E p \in {"stage", "release"} : thread' = [thread EXCEPT ![t].pc = p]
    /\ Free({thread[t].task.slot})
    /\ UNCHANGED <<pool, queue, taken, staged, stored, req>>

\* The model answers, or the call fails or times out.
Answer(t) ==
    /\ thread[t].pc = "call"
    /\ \E p \in {"stage", "release"} : thread' = [thread EXCEPT ![t].pc = p]
    /\ UNCHANGED <<pool, queue, slots, taken, staged, stored, req>>

\* The call never returns: the ollama driver knows no timeout_ms.
Hang(t) ==
    /\ thread[t].pc = "call"
    /\ thread' = [thread EXCEPT ![t].pc = "hung"]
    /\ UNCHANGED <<pool, queue, slots, taken, staged, stored, req>>

\* summary_stage_result: over the staged summary of the same session, else in a
\* free place, else over the oldest; created_at counts seconds, so any may be.
Stage(t) ==
    LET x    == thread[t].task
        rest == {y \in staged : y.session # x.session}
    IN  /\ thread[t].pc = "stage"
        /\ \/ Cardinality(rest) < PendingCap /\ staged' = rest \cup {x}
           \/ /\ Cardinality(rest) = PendingCap
              /\ \E y \in rest : staged' = (rest \ {y}) \cup {x}
        /\ thread' = [thread EXCEPT ![t].pc = "release"]
        /\ UNCHANGED <<pool, queue, slots, taken, stored, req>>

Release(t) == /\ thread[t].pc = "release"
              /\ Free({thread[t].task.slot})
              /\ thread' = [thread EXCEPT ![t] = Born]
              /\ UNCHANGED <<pool, queue, taken, staged, stored, req>>

-----------------------------------------------------------------------------
(* Saving the settings: ai_summary_pool_shutdown, ai_summary_pool_init       *)

Saving == {"join1", "join2", "drain", "clear", "start"}

\* The bound MaxStarts: every save under way can still start its threads.
SpareThreads ==
    LET saves == {r \in Requests : req[r].pc \in Saving}
    IN  Cardinality({t \in Thread : thread[t].pc = "unborn"})
            > 2 * Cardinality(saves)

\* A slip: the waiting threads are not woken.
StopSilent(r) ==
    /\ r \in Savers /\ req[r].pc = "idle"
    /\ SpareThreads
    /\ IF pool.initialized
       THEN pool' = [pool EXCEPT !.shutdown = TRUE] /\ Goto(r, "join1")
       ELSE Goto(r, "start") /\ UNCHANGED pool
    /\ UNCHANGED <<queue, slots, taken, staged, stored, thread>>

Stop(r) ==
    /\ r \in Savers /\ req[r].pc = "idle"
    /\ SpareThreads
    /\ IF pool.initialized
       THEN pool' = [pool EXCEPT !.shutdown = TRUE] /\ WakeAll /\ Goto(r, "join1")
       ELSE Goto(r, "start") /\ UNCHANGED <<pool, thread>>
    /\ UNCHANGED <<queue, slots, taken, staged, stored>>

\* pthread_join on s_pool.workers[i], read without the lock.  A thread that is
\* gone or has a joiner is undefined behaviour: the call returns an error.
Join(r, i, here, next) ==
    LET t == pool.workers[i]
    IN  /\ req[r].pc = here /\ req[r].on = None
        /\ IF thread[t].pc = "joined" \/ \E q \in Requests : req[q].on = t
           THEN Goto(r, next)
           ELSE req' = [req EXCEPT ![r].on = t]
        /\ UNCHANGED <<pool, queue, slots, taken, staged, stored, thread>>

Joined(r, here, next) ==
    LET t == req[r].on
    IN  /\ req[r].pc = here /\ t # None
        /\ thread[t].pc = "ended"
        /\ thread' = [thread EXCEPT ![t].pc = "joined"]
        /\ req' = [req EXCEPT ![r].on = None, ![r].pc = next]
        /\ UNCHANGED <<pool, queue, slots, taken, staged, stored>>

\* A slip: the queued tasks dropped with their slots still taken.
DrainKeepSlots(r) ==
    /\ req[r].pc = "drain"
    /\ queue' = <<>>
    /\ pool' = [pool EXCEPT !.initialized = FALSE]
    /\ Goto(r, "clear")
    /\ UNCHANGED <<slots, taken, staged, stored, thread>>

Drain(r) ==
    /\ req[r].pc = "drain"
    /\ Free({queue[i].slot : i \in DOMAIN queue})
    /\ queue' = <<>>
    /\ pool' = [pool EXCEPT !.initialized = FALSE]
    /\ Goto(r, "clear")
    /\ UNCHANGED <<taken, staged, stored, thread>>

Clear(r) == /\ req[r].pc = "clear"
            /\ staged' = {}
            /\ Goto(r, "start")
            /\ UNCHANGED <<pool, queue, slots, taken, stored, thread>>

Start(r) ==
    /\ req[r].pc = "start"
    /\ IF pool.initialized
       THEN UNCHANGED <<pool, queue, thread>>
       ELSE \E t \in Thread :
            /\ thread[t].pc = "unborn" /\ t % 2 = 1
            /\ \A u \in Thread : u < t => thread[u].pc # "unborn"
            /\ thread' = [thread EXCEPT ![t] = Born, ![t + 1] = Born]
            /\ pool' = [initialized |-> TRUE, shutdown |-> FALSE,
                        workers |-> <<t, t + 1>>]
            /\ queue' = <<>>
    /\ Finish(r)
    /\ UNCHANGED <<slots, taken, staged, stored>>

-----------------------------------------------------------------------------
Proceed(r) == \/ Flush(r) \/ WriteSummary(r) \/ NotDue(r) \/ Acquire(r)
              \/ Build(r) \/ Enqueue(r) \/ GiveUp(r)
              \/ Join(r, 1, "join1", "join2") \/ Joined(r, "join1", "join2")
              \/ Join(r, 2, "join2", "drain") \/ Joined(r, "join2", "drain")
              \/ Drain(r) \/ Clear(r) \/ Start(r)
Work(t) == Look(t) \/ Answer(t) \/ Stage(t) \/ Release(t)

Next == \/ \E r \in Requests : Visit(r) \/ Stop(r) \/ Proceed(r)
        \/ \E t \in Thread : Work(t) \/ SpuriousWake(t) \/ Hang(t)

(* Threads that can run do run, and a call of the model that does not hang  *)
(* ends.  Nobody has to visit a session or to save the settings, and any    *)
(* call may hang.                                                           *)
Fairness == /\ \A r \in Requests : WF_vars(Proceed(r))
            /\ \A t \in Thread : WF_vars(Work(t))

Spec == Init /\ [][Next]_vars /\ Fairness

-----------------------------------------------------------------------------
(* Properties *)

ReqPc == {"idle", "flush", "write", "due", "build", "queue", "giveup",
          "join1", "join2", "drain", "clear", "start"}
ThreadPc == {"unborn", "check", "wait", "call", "hung", "stage", "release",
             "ended", "joined"}

RequestType == [pc : ReqPc, session : Sessions \cup {None},
                task : Task \cup {None}, on : Thread \cup {None},
                rival : BOOLEAN]
ThreadType  == [pc : ThreadPc, task : Task \cup {None}]

(* The shapes of the C structures, and the fixed arrays never overrun.     *)
TypeOK ==
    /\ pool \in [initialized : BOOLEAN, shutdown : BOOLEAN,
                 workers : Thread \X Thread]
    /\ queue \in Seq(Task) /\ Len(queue) <= QueueCap
    /\ slots \in [Slot -> Sessions \cup {None}]
    /\ taken \in 0..MaxTasks
    /\ staged \subseteq Task /\ Cardinality(staged) <= PendingCap
    /\ stored \in [Sessions -> 0..MaxTasks]
    /\ thread \in [Thread -> ThreadType]
    /\ req \in [Requests -> RequestType]

\* The tasks under way: being built, queued, or with a pool thread.
Live == {req[r].task : r \in {q \in Requests :
                                req[q].pc \in {"build", "queue", "giveup"}}}
        \cup {queue[i] : i \in DOMAIN queue}
        \cup {thread[t].task : t \in {u \in Thread :
                                thread[u].pc \in {"call", "hung", "stage", "release"}}}

(* A taken slot belongs to a task under way: whatever fails, and however   *)
(* the pool is restarted, no session is locked out of summaries for good   *)
(* (every path of ai_summary_maybe_trigger, summary_worker and shutdown    *)
(* releases its slot).                                                     *)
SlotHeld == \A k \in Slot : slots[k] # None =>
                \E x \in Live : x.slot = k /\ x.session = slots[k]

(* Until the ring of slots has gone round once, a session never has two    *)
(* tasks under way (inflight_acquire).  After that a slow task may lose    *)
(* its slot to another session, whose release frees it for a third.        *)
OneTaskUntilWrap == \A x, y \in Live :
    x.session = y.session /\ x.no < y.no => y.no > Slots

(* A stored summary is only replaced by an older one if another request    *)
(* served the session between Flush, which takes the summary under the     *)
(* lock, and WriteSummary, or after the ring of slots has gone round.      *)
NeverOlder == \A s \in Sessions : stored'[s] < stored[s] =>
    stored[s] > Slots \/ \E r \in Requests : req[r].session = s /\ req[r].rival
SummaryOrder == [][NeverOlder]_stored

Hung(t) == thread[t].pc = "hung"

\* Whom calls that hang can hold up: their own task; every task, when they have
\* both threads of the pool, or when a request that saves the settings waits for
\* one of them.
HeldUp(n) == \/ \E t \in Thread : Hung(t) /\ thread[t].task.no = n
             \/ \A i \in 1..2 : Hung(pool.workers[i])
             \/ \E r \in Requests : req[r].on # None /\ Hung(req[r].on)

(* Every task under way ends: a signal is never lost, a full queue and a   *)
(* restart of the pool leave nothing behind, and one call that never       *)
(* returns does not keep the other thread of the pool from the rest.       *)
TaskEnds == \A n \in 1..MaxTasks :
    (\E x \in Live : x.no = n) ~> ((\A x \in Live : x.no # n) \/ HeldUp(n))

(* Saving the settings ends: both threads are joined and the pool runs     *)
(* again, unless the call of the thread it is joining never returns.       *)
SaveEnds == \A r \in Requests :
    req[r].pc \in Saving ~>
        (req[r].pc = "idle" \/ (req[r].on # None /\ Hung(req[r].on)))
=============================================================================
