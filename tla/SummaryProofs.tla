---------------------------- MODULE SummaryProofs ----------------------------
(* For any number of sessions, requests and slots: the types of            *)
(* SummaryPool, that a slot of the ring is only taken while the task that  *)
(* took it is under way, and that a session has one task under way until   *)
(* the ring has gone round.                                                *)
EXTENDS SummaryPool, FiniteSetTheorems, SequenceTheorems, TLAPS

OnSession == {"flush", "write", "due", "build", "queue", "giveup"}
OnTask    == {"write", "build", "queue", "giveup"}
Working   == {"call", "hung", "stage", "release"}

\* A request thread has the session and the task its program counter needs.
ReqOK ==
    /\ req \in [Requests -> RequestType]
    /\ \A r \in Requests : req[r].pc \in OnSession => req[r].session \in Sessions
    /\ \A r \in Requests : req[r].pc \in OnTask => req[r].task \in Task

\* So has a pool thread; the threads are started in pairs.
ThreadOK ==
    /\ thread \in [Thread -> ThreadType]
    /\ \A t \in Thread : thread[t].pc \in Working => thread[t].task \in Task
    /\ \A t \in Thread : t % 2 = 1 /\ thread[t].pc = "unborn"
                            => thread[t + 1].pc = "unborn"

\* The queue is empty while the pool is stopped.
QueueOK ==
    /\ pool \in [initialized : BOOLEAN, shutdown : BOOLEAN,
                 workers : Thread \X Thread]
    /\ queue \in Seq(Task) /\ Len(queue) <= QueueCap
    /\ ~pool.initialized => queue = <<>>

SlotsOK == /\ slots \in [Slot -> Sessions \cup {None}]
           /\ taken \in 0..MaxTasks

StagedOK == /\ staged \subseteq Task /\ IsFiniteSet(staged)
            /\ Cardinality(staged) <= PendingCap

StoredOK == stored \in [Sessions -> 0..MaxTasks]

PoolInv == ReqOK /\ ThreadOK /\ QueueOK /\ SlotsOK /\ StagedOK /\ StoredOK

LEMMA PoolInvTypes == PoolInv => TypeOK
BY DEF PoolInv, ReqOK, ThreadOK, QueueOK, SlotsOK, StagedOK, StoredOK, TypeOK

-----------------------------------------------------------------------------
(* Records and threads                                                     *)

LEMMA IdleType == /\ Idle \in RequestType /\ Idle.pc = "idle" /\ Idle.on = None
                  /\ Idle.session = None
BY DEF Idle, RequestType, ReqPc

LEMMA BornType == Born \in ThreadType /\ Born.pc = "check"
BY DEF Born, ThreadType, ThreadPc

\* The threads of a pair are both threads, and pairs do not overlap.
LEMMA Pairs ==
    ASSUME NEW t \in Thread, t % 2 = 1
    PROVE  /\ t + 1 \in Thread /\ (t + 1) % 2 = 0
           /\ \A u \in Thread : u % 2 = 1 /\ u # t => u + 1 # t /\ u + 1 # t + 1
<1>1. MaxStarts \in Nat \ {0} /\ t \in 1..2 * MaxStarts
  BY SummaryAssumption DEF Thread
<1>2. t + 1 \in Thread /\ (t + 1) % 2 = 0
  BY <1>1 DEF Thread
<1>3. ASSUME NEW u \in Thread, u % 2 = 1, u # t
      PROVE  u + 1 # t /\ u + 1 # t + 1
  <2>1. u \in Nat /\ t \in Nat
    BY <1>1 DEF Thread
  <2> QED BY <1>3, <2>1
<1> QED BY <1>2, <1>3

LEMMA ThreadsAre == Thread \subseteq Nat /\ 1 \in Thread /\ 2 \in Thread
BY SummaryAssumption DEF Thread

-----------------------------------------------------------------------------
(* How a step changes the request threads                                  *)

\* A request thread is given a new record that fits its program counter.
LEMMA NewReq ==
    ASSUME ReqOK, NEW r \in Requests, NEW v \in RequestType,
           req' = [req EXCEPT ![r] = v],
           v.pc \in OnSession => v.session \in Sessions,
           v.pc \in OnTask => v.task \in Task
    PROVE  ReqOK' /\ req'[r] = v /\ \A q \in Requests \ {r} : req'[q] = req[q]
BY DEF ReqOK

\* A request thread moves on to another program counter.
LEMMA GotoReq ==
    ASSUME ReqOK, NEW r \in Requests, NEW p \in ReqPc, Goto(r, p),
           p \in OnSession => req[r].pc \in OnSession,
           p \in OnTask => req[r].pc \in OnTask
    PROVE  /\ ReqOK'
           /\ req'[r].pc = p /\ req'[r].task = req[r].task
           /\ req'[r].on = req[r].on
           /\ \A q \in Requests \ {r} : req'[q] = req[q]
<1> DEFINE v == [req[r] EXCEPT !.pc = p]
<1>1. req[r] \in RequestType
  BY DEF ReqOK
<1>2. /\ v \in RequestType /\ v.pc = p /\ v.session = req[r].session
      /\ v.task = req[r].task /\ v.on = req[r].on
  BY <1>1 DEF RequestType
<1>3. req' = [req EXCEPT ![r] = v]
  BY DEF Goto, ReqOK
<1>4. /\ v.pc \in OnSession => v.session \in Sessions
      /\ v.pc \in OnTask => v.task \in Task
  BY <1>2 DEF ReqOK
<1> HIDE DEF v
<1>5. ReqOK' /\ req'[r] = v /\ \A q \in Requests \ {r} : req'[q] = req[q]
  BY <1>2, <1>3, <1>4, NewReq
<1> QED BY <1>2, <1>5

\* A request thread is done.
LEMMA FinishReq ==
    ASSUME ReqOK, NEW r \in Requests, Finish(r)
    PROVE  /\ ReqOK' /\ req'[r].pc = "idle"
           /\ \A q \in Requests \ {r} : req'[q] = req[q]
<1>1. "idle" \notin OnSession /\ "idle" \notin OnTask
  BY DEF OnSession, OnTask
<1>2. req' = [req EXCEPT ![r] = Idle]
  BY DEF Finish
<1> QED BY <1>1, <1>2, IdleType, NewReq

-----------------------------------------------------------------------------
(* How a step changes the pool threads                                     *)

\* A pool thread that has been started is given a new record.
LEMMA NewThread ==
    ASSUME ThreadOK, NEW t \in Thread, NEW v \in ThreadType,
           thread' = [thread EXCEPT ![t] = v],
           thread[t].pc # "unborn", v.pc # "unborn",
           v.pc \in Working => v.task \in Task
    PROVE  /\ ThreadOK' /\ thread'[t] = v
           /\ \A u \in Thread \ {t} : thread'[u] = thread[u]
<1>1. /\ thread' \in [Thread -> ThreadType] /\ thread'[t] = v
      /\ \A u \in Thread \ {t} : thread'[u] = thread[u]
  BY DEF ThreadOK
<1>2. ASSUME NEW u \in Thread, u % 2 = 1, thread'[u].pc = "unborn"
      PROVE  thread'[u + 1].pc = "unborn"
  <2>1. u # t /\ thread[u].pc = "unborn"
    BY <1>1, <1>2
  <2>2. thread[u + 1].pc = "unborn" /\ u + 1 \in Thread
    BY <1>2, <2>1, Pairs DEF ThreadOK
  <2> QED BY <1>1, <2>2
<1> QED BY <1>1, <1>2 DEF ThreadOK

\* A pool thread that has been started moves on to another program counter.
LEMMA GotoThread ==
    ASSUME ThreadOK, NEW t \in Thread, NEW p \in ThreadPc,
           thread' = [thread EXCEPT ![t].pc = p],
           thread[t].pc # "unborn", p # "unborn",
           p \in Working => thread[t].pc \in Working
    PROVE  /\ ThreadOK'
           /\ thread'[t].pc = p /\ thread'[t].task = thread[t].task
           /\ \A u \in Thread \ {t} : thread'[u] = thread[u]
<1> DEFINE v == [thread[t] EXCEPT !.pc = p]
<1>1. thread[t] \in ThreadType
  BY DEF ThreadOK
<1>2. v \in ThreadType /\ v.pc = p /\ v.task = thread[t].task
  BY <1>1 DEF ThreadType
<1>3. thread' = [thread EXCEPT ![t] = v]
  BY DEF ThreadOK
<1>4. v.pc \in Working => v.task \in Task
  BY <1>2 DEF ThreadOK
<1> HIDE DEF v
<1>5. /\ ThreadOK' /\ thread'[t] = v
      /\ \A u \in Thread \ {t} : thread'[u] = thread[u]
  BY <1>2, <1>3, <1>4, NewThread
<1> QED BY <1>2, <1>5

\* A wake-up only changes waiting threads.
LEMMA WakeKeeps ==
    ASSUME ThreadOK, WakeOne \/ WakeAll
    PROVE  /\ ThreadOK'
           /\ \A t \in Thread : \/ thread'[t] = thread[t]
                                \/ thread[t].pc = "wait"
<1>1. CASE UNCHANGED thread
  BY <1>1 DEF ThreadOK
<1>2. ASSUME NEW t \in Waiting, thread' = [thread EXCEPT ![t].pc = "check"]
      PROVE  /\ ThreadOK'
             /\ \A u \in Thread : thread'[u] = thread[u] \/ thread[u].pc = "wait"
  <2>1. t \in Thread /\ thread[t].pc = "wait"
    BY DEF Waiting
  <2>2. "check" \in ThreadPc /\ "check" \notin Working
    BY DEF ThreadPc, Working
  <2> QED BY <1>2, <2>1, <2>2, GotoThread
<1>3. CASE WakeAll
  <2>1. ASSUME NEW t \in Thread
        PROVE  /\ [thread[t] EXCEPT !.pc = "check"] \in ThreadType
               /\ [thread[t] EXCEPT !.pc = "check"].pc = "check"
    <3>1. thread[t] \in ThreadType
      BY DEF ThreadOK
    <3> QED BY <3>1 DEF ThreadType, ThreadPc
  <2>2. ASSUME NEW t \in Thread
        PROVE  /\ thread'[t] \in ThreadType
               /\ \/ thread'[t] = thread[t]
                  \/ thread[t].pc = "wait" /\ thread'[t].pc = "check"
    <3>1. CASE t \in Waiting
      <4>1. thread'[t] = [thread[t] EXCEPT !.pc = "check"]
        BY <1>3, <3>1 DEF WakeAll
      <4> QED BY <2>1, <3>1, <4>1 DEF Waiting
    <3>2. CASE t \notin Waiting
      BY <1>3, <3>2 DEF WakeAll, ThreadOK
    <3> QED BY <3>1, <3>2
  <2>3. thread' \in [Thread -> ThreadType]
    <3>1. DOMAIN thread' = Thread /\ thread' = [t \in Thread |-> thread'[t]]
      BY <1>3 DEF WakeAll
    <3> QED BY <2>2, <3>1
  <2>4. \A t \in Thread : thread'[t].pc \in Working => thread'[t].task \in Task
    BY <2>2 DEF ThreadOK, Working
  <2>5. ASSUME NEW t \in Thread, t % 2 = 1, thread'[t].pc = "unborn"
        PROVE  thread'[t + 1].pc = "unborn"
    <3>1. thread[t].pc = "unborn"
      BY <2>2, <2>5
    <3>2. t + 1 \in Thread /\ thread[t + 1].pc = "unborn"
      BY <2>5, <3>1, Pairs DEF ThreadOK
    <3> QED BY <2>2, <3>2
  <2> QED BY <2>2, <2>3, <2>4, <2>5 DEF ThreadOK
<1> QED BY <1>1, <1>2, <1>3 DEF WakeOne

-----------------------------------------------------------------------------
(* The invariant holds initially and every step of a request thread keeps  *)
(* it                                                                       *)

LEMMA PoolInit == Init => PoolInv
<1> SUFFICES ASSUME Init PROVE PoolInv
  OBVIOUS
<1>1. ReqOK
  BY IdleType DEF Init, ReqOK, OnSession, OnTask
<1>2. ThreadOK
  <2>1. [Born EXCEPT !.pc = "unborn"] \in ThreadType
        /\ [Born EXCEPT !.pc = "unborn"].pc = "unborn"
    BY DEF Born, ThreadType, ThreadPc
  <2>2. thread \in [Thread -> ThreadType]
    BY <2>1, BornType DEF Init
  <2>3. \A t \in Thread : thread[t].pc = IF t <= 2 THEN "check" ELSE "unborn"
    BY <2>1, BornType DEF Init
  <2>4. ASSUME NEW t \in Thread, t % 2 = 1, thread[t].pc = "unborn"
        PROVE  thread[t + 1].pc = "unborn"
    <3>1. t + 1 \in Thread /\ t \in Nat /\ ~(t <= 2)
      BY <2>3, <2>4, Pairs, ThreadsAre
    <3> QED BY <2>3, <3>1
  <2> QED BY <2>2, <2>3, <2>4 DEF ThreadOK, Working
<1>3. QueueOK
  <2>1. queue \in Seq(Task) /\ Len(queue) = 0 /\ QueueCap \in Nat
    BY EmptySeq, SummaryAssumption DEF Init
  <2> QED BY <2>1, ThreadsAre DEF Init, QueueOK
<1>4. SlotsOK /\ StoredOK
  BY SummaryAssumption DEF Init, SlotsOK, StoredOK
<1>5. StagedOK
  BY FS_EmptySet, SummaryAssumption DEF Init, StagedOK
<1> QED BY <1>1, <1>2, <1>3, <1>4, <1>5 DEF PoolInv

\* A visit begins; the requests that hold a summary of the session have a rival.
LEMMA VisitReq ==
    ASSUME PoolInv, NEW r \in Requests, NEW s \in Sessions,
           req' = [q \in Requests |->
                     IF q = r THEN [Idle EXCEPT !.pc = "flush", !.session = s]
                     ELSE IF req[q].pc = "write" /\ req[q].session = s
                     THEN [req[q] EXCEPT !.rival = TRUE] ELSE req[q]]
    PROVE  /\ ReqOK' /\ req'[r].pc = "flush" /\ req'[r].session = s
           /\ \A q \in Requests \ {r} :
                 /\ req'[q].pc = req[q].pc /\ req'[q].session = req[q].session
                 /\ req'[q].task = req[q].task /\ req'[q].on = req[q].on
                 /\ req'[q].rival = (req[q].rival
                        \/ (req[q].pc = "write" /\ req[q].session = s))
<1> DEFINE v == [Idle EXCEPT !.pc = "flush", !.session = s]
           W(q) == [req[q] EXCEPT !.rival = TRUE]
<1>1. v \in RequestType /\ v.pc = "flush" /\ v.session = s
  BY DEF Idle, RequestType, ReqPc
<1>2. ASSUME NEW q \in Requests
      PROVE  /\ W(q) \in RequestType /\ W(q).pc = req[q].pc
             /\ W(q).session = req[q].session /\ W(q).task = req[q].task
             /\ W(q).on = req[q].on /\ W(q).rival = TRUE
             /\ req[q] \in RequestType /\ req[q].rival \in BOOLEAN
  <2>1. req[q] \in RequestType
    BY DEF PoolInv, ReqOK
  <2> QED BY <2>1 DEF RequestType
<1>3. req'[r] = v
  OBVIOUS
<1>4. \A q \in Requests \ {r} : req'[q] =
          IF req[q].pc = "write" /\ req[q].session = s THEN W(q) ELSE req[q]
  OBVIOUS
<1>5. req' = [q \in Requests |-> req'[q]]
  OBVIOUS
<1> HIDE DEF v, W
<1> DEFINE hit(q) == req[q].pc = "write" /\ req[q].session = s
<1>6. ASSUME NEW q \in Requests \ {r}
      PROVE  /\ req'[q] \in RequestType
             /\ req'[q].pc = req[q].pc /\ req'[q].session = req[q].session
             /\ req'[q].task = req[q].task /\ req'[q].on = req[q].on
             /\ req'[q].rival = (req[q].rival \/ hit(q))
  <2>1. req'[q] = IF hit(q) THEN W(q) ELSE req[q]
    BY <1>4
  <2> HIDE DEF hit
  <2>2. CASE hit(q)
    BY <1>2, <2>1, <2>2
  <2>3. CASE ~hit(q)
    BY <1>2, <2>1, <2>3
  <2> QED BY <2>2, <2>3
<1>7. req' \in [Requests -> RequestType]
  BY ONLY <1>1, <1>3, <1>5, <1>6
<1>8. "flush" \notin OnTask
  BY DEF OnTask
<1>9. ReqOK'
  BY <1>1, <1>3, <1>6, <1>7, <1>8 DEF PoolInv, ReqOK
<1> QED BY <1>1, <1>3, <1>6, <1>9

LEMMA VisitMarks ==
    ASSUME PoolInv, NEW r \in Requests, Visit(r)
    PROVE  \E s \in Sessions :
             /\ ReqOK' /\ req'[r].pc = "flush" /\ req'[r].session = s
             /\ \A q \in Requests \ {r} :
                   /\ req'[q].pc = req[q].pc /\ req'[q].session = req[q].session
                   /\ req'[q].task = req[q].task /\ req'[q].on = req[q].on
                   /\ req'[q].rival = (req[q].rival
                          \/ (req[q].pc = "write" /\ req[q].session = s))
<1>1. PICK s \in Sessions :
        req' = [q \in Requests |->
                     IF q = r THEN [Idle EXCEPT !.pc = "flush", !.session = s]
                     ELSE IF req[q].pc = "write" /\ req[q].session = s
                     THEN [req[q] EXCEPT !.rival = TRUE] ELSE req[q]]
  BY DEF Visit
<1> QED BY <1>1, VisitReq

LEMMA VisitInv == ASSUME PoolInv, NEW r \in Requests, Visit(r) PROVE PoolInv'
<1>1. ReqOK'
  BY VisitMarks
<1> QED BY <1>1 DEF PoolInv, ThreadOK, QueueOK, SlotsOK, StagedOK, StoredOK, Visit

\* What Flush and WriteSummary do to the request.
LEMMA FlushReq ==
    ASSUME PoolInv, NEW r \in Requests, Flush(r)
    PROVE  /\ \A q \in Requests \ {r} : req'[q] = req[q]
           /\ req'[r].session = req[r].session
           /\ \/ req'[r].pc = "due" /\ UNCHANGED staged
              \/ \E x \in staged :
                    /\ x.session = req[r].session /\ staged' = staged \ {x}
                    /\ req'[r].pc = "write" /\ req'[r].task = x
                    /\ req'[r].rival = \E q \in Requests \ {r} :
                                          req[q].session = req[r].session
<1> DEFINE b == \E q \in Requests \ {r} : req[q].session = req[r].session
<1>1. req \in [Requests -> RequestType] /\ req[r] \in RequestType
  BY DEF PoolInv, ReqOK
<1>2. \/ Goto(r, "due") /\ UNCHANGED staged
      \/ \E x \in staged :
            /\ x.session = req[r].session /\ staged' = staged \ {x}
            /\ req' = [req EXCEPT ![r].pc = "write", ![r].task = x, ![r].rival = b]
  BY DEF Flush
<1> HIDE DEF b
<1>3. CASE Goto(r, "due") /\ UNCHANGED staged
  BY <1>1, <1>3 DEF Goto, RequestType
<1>4. ASSUME NEW x \in staged, x.session = req[r].session, staged' = staged \ {x},
             req' = [req EXCEPT ![r].pc = "write", ![r].task = x, ![r].rival = b]
      PROVE  /\ \A q \in Requests \ {r} : req'[q] = req[q]
             /\ req'[r].session = req[r].session
             /\ req'[r].pc = "write" /\ req'[r].task = x /\ req'[r].rival = b
  BY <1>1, <1>4 DEF RequestType
<1>5. /\ \A q \in Requests \ {r} : req'[q] = req[q]
      /\ req'[r].session = req[r].session
      /\ \/ req'[r].pc = "due" /\ UNCHANGED staged
         \/ \E x \in staged :
               /\ x.session = req[r].session /\ staged' = staged \ {x}
               /\ req'[r].pc = "write" /\ req'[r].task = x /\ req'[r].rival = b
  BY <1>2, <1>3, <1>4
<1> QED BY <1>5 DEF b

LEMMA WriteReq ==
    ASSUME PoolInv, NEW r \in Requests, WriteSummary(r)
    PROVE  /\ \A q \in Requests \ {r} : req'[q] = req[q]
           /\ req'[r].session = req[r].session /\ req'[r].pc = "due"
<1>1. req \in [Requests -> RequestType] /\ req[r] \in RequestType
  BY DEF PoolInv, ReqOK
<1> QED BY <1>1 DEF WriteSummary, RequestType

LEMMA FlushInv == ASSUME PoolInv, NEW r \in Requests, Flush(r) PROVE PoolInv'
<1> DEFINE mine == {x \in staged : x.session = req[r].session}
<1>1. req[r].pc = "flush" /\ "flush" \in OnSession
  BY DEF Flush, OnSession
<1>2. ThreadOK' /\ QueueOK' /\ SlotsOK' /\ StoredOK'
  BY DEF Flush, PoolInv, ThreadOK, QueueOK, SlotsOK, StoredOK
<1>3. CASE Goto(r, "due") /\ UNCHANGED staged
  <2>1. "due" \in ReqPc /\ "due" \notin OnTask
    BY DEF ReqPc, OnTask
  <2>2. ReqOK'
    BY <1>1, <1>3, <2>1, GotoReq DEF PoolInv
  <2> QED BY <1>2, <1>3, <2>2 DEF PoolInv, StagedOK
<1>4. ASSUME NEW x \in mine, staged' = staged \ {x},
             NEW b \in BOOLEAN,
             req' = [req EXCEPT ![r].pc = "write", ![r].task = x, ![r].rival = b]
      PROVE  PoolInv'
  <2>1. x \in staged /\ x \in Task /\ IsFiniteSet(staged)
    BY DEF PoolInv, StagedOK
  <2>2. StagedOK'
    <3>1. Cardinality(staged) \in Nat /\ Cardinality(staged) <= PendingCap
      BY <2>1, FS_CardinalityType DEF PoolInv, StagedOK
    <3>2. IsFiniteSet(staged') /\ Cardinality(staged') = Cardinality(staged) - 1
      BY <1>4, <2>1, FS_RemoveElement
    <3> QED BY <1>4, <3>1, <3>2, SummaryAssumption DEF PoolInv, StagedOK
  <2> DEFINE v == [req[r] EXCEPT !.pc = "write", !.task = x, !.rival = b]
  <2>3. req[r] \in RequestType
    BY DEF PoolInv, ReqOK
  <2>4. /\ v \in RequestType /\ v.pc = "write" /\ v.task = x
        /\ v.session = req[r].session
    BY <2>1, <2>3 DEF RequestType, ReqPc
  <2>5. req' = [req EXCEPT ![r] = v]
    BY <1>4 DEF PoolInv, ReqOK
  <2>6. req[r].session \in Sessions
    BY <1>1 DEF PoolInv, ReqOK
  <2> HIDE DEF v
  <2>7. ReqOK'
    BY <2>1, <2>4, <2>5, <2>6, NewReq DEF PoolInv
  <2> QED BY <1>2, <2>2, <2>7 DEF PoolInv
<1>5. (\E q \in Requests \ {r} : req[q].session = req[r].session) \in BOOLEAN
  OBVIOUS
<1> QED BY <1>3, <1>4, <1>5 DEF Flush

LEMMA WriteInv ==
    ASSUME PoolInv, NEW r \in Requests, WriteSummary(r) PROVE PoolInv'
<1>1. req[r].pc = "write" /\ "write" \in OnSession /\ "write" \in OnTask
  BY DEF WriteSummary, OnSession, OnTask
<1>2. req[r].task.no \in 0..MaxTasks
  BY <1>1, SummaryAssumption DEF PoolInv, ReqOK, Task
<1>3. StoredOK'
  BY <1>2 DEF WriteSummary, PoolInv, StoredOK
<1> DEFINE v == [req[r] EXCEPT !.pc = "due", !.rival = FALSE]
<1>4. req[r] \in RequestType /\ "due" \notin OnTask
  BY DEF PoolInv, ReqOK, OnTask
<1>5. v \in RequestType /\ v.pc = "due" /\ v.session = req[r].session
  BY <1>4 DEF RequestType, ReqPc
<1>6. req' = [req EXCEPT ![r] = v] /\ req[r].session \in Sessions
  BY <1>1 DEF WriteSummary, PoolInv, ReqOK
<1> HIDE DEF v
<1>7. ReqOK'
  BY <1>4, <1>5, <1>6, NewReq DEF PoolInv
<1> QED BY <1>3, <1>7
        DEF WriteSummary, PoolInv, ThreadOK, QueueOK, SlotsOK, StagedOK

LEMMA NotDueInv == ASSUME PoolInv, NEW r \in Requests, NotDue(r) PROVE PoolInv'
BY FinishReq
   DEF NotDue, PoolInv, ThreadOK, QueueOK, SlotsOK, StagedOK, StoredOK

\* The slot a task takes is one of the ring.
LEMMA SlotTaken ==
    ASSUME SlotsOK, taken < MaxTasks
    PROVE  taken \in Nat /\ taken + 1 \in 1..MaxTasks /\ taken % Slots \in Slot
BY SummaryAssumption DEF SlotsOK, Slot

\* The request holds the task it took the slot for.
LEMMA TakeSlotReq ==
    ASSUME PoolInv, NEW r \in Requests, req[r].pc = "due", taken < MaxTasks,
           TakeSlot(r)
    PROVE  /\ ReqOK' /\ SlotsOK'
           /\ slots' = [slots EXCEPT ![taken % Slots] = req[r].session]
           /\ taken % Slots \in Slot
           /\ req[r].session \in Sessions
           /\ req'[r].pc = "build"
           /\ req'[r].task.slot = taken % Slots
           /\ req'[r].task.session = req[r].session
           /\ \A q \in Requests \ {r} : req'[q] = req[q]
<1>1. taken \in Nat /\ taken + 1 \in 1..MaxTasks /\ taken % Slots \in Slot
  BY SlotTaken DEF PoolInv
<1>2. req[r].session \in Sessions /\ req[r] \in RequestType
  BY DEF PoolInv, ReqOK, OnSession
<1> DEFINE x == [session |-> req[r].session, slot |-> taken % Slots,
                 no |-> taken + 1]
           v == [req[r] EXCEPT !.pc = "build", !.task = x]
<1>3. x \in Task /\ x.slot = taken % Slots /\ x.session = req[r].session
  BY <1>1, <1>2 DEF Task
<1>4. /\ slots' = [slots EXCEPT ![taken % Slots] = req[r].session]
      /\ taken' = taken + 1
      /\ req' = [req EXCEPT ![r].pc = "build", ![r].task = x]
  BY DEF TakeSlot
<1> HIDE DEF x
<1>5. req' = [req EXCEPT ![r] = v]
  BY <1>4 DEF PoolInv, ReqOK
<1>6. /\ v \in RequestType /\ v.pc = "build" /\ v.task = x
      /\ v.session = req[r].session
  BY <1>2, <1>3 DEF RequestType, ReqPc
<1> HIDE DEF v
<1>7. ReqOK' /\ req'[r] = v /\ \A q \in Requests \ {r} : req'[q] = req[q]
  BY <1>2, <1>3, <1>5, <1>6, NewReq DEF PoolInv
<1>8. SlotsOK'
  BY <1>1, <1>2, <1>4, SummaryAssumption DEF PoolInv, SlotsOK
<1> QED BY <1>1, <1>2, <1>3, <1>4, <1>6, <1>7, <1>8

LEMMA AcquireInv == ASSUME PoolInv, NEW r \in Requests, Acquire(r) PROVE PoolInv'
<1>1. ThreadOK' /\ QueueOK' /\ StagedOK' /\ StoredOK'
  BY DEF Acquire, PoolInv, ThreadOK, QueueOK, StagedOK, StoredOK
<1>2. CASE Finish(r) /\ UNCHANGED <<slots, taken>>
  BY <1>1, <1>2, FinishReq DEF PoolInv, SlotsOK
<1>3. CASE TakeSlot(r)
  BY <1>1, <1>3, TakeSlotReq DEF Acquire, PoolInv
<1> QED BY <1>2, <1>3 DEF Acquire

LEMMA BuildInv == ASSUME PoolInv, NEW r \in Requests, Build(r) PROVE PoolInv'
<1>1. PICK p \in {"queue", "giveup"} : Goto(r, p)
  BY DEF Build
<1>2. /\ p \in ReqPc /\ req[r].pc \in OnSession /\ req[r].pc \in OnTask
  BY DEF Build, ReqPc, OnSession, OnTask
<1>3. ReqOK'
  BY <1>1, <1>2, GotoReq DEF PoolInv
<1> QED BY <1>3
        DEF Build, PoolInv, ThreadOK, QueueOK, SlotsOK, StagedOK, StoredOK

LEMMA EnqueueInv == ASSUME PoolInv, NEW r \in Requests, Enqueue(r) PROVE PoolInv'
<1>1. req[r].pc \in OnSession /\ req[r].pc \in OnTask /\ "giveup" \in ReqPc
  BY DEF Enqueue, OnSession, OnTask, ReqPc
<1>2. SlotsOK' /\ StagedOK' /\ StoredOK'
  BY DEF Enqueue, PoolInv, SlotsOK, StagedOK, StoredOK
<1>3. CASE Goto(r, "giveup") /\ UNCHANGED <<queue, thread>>
  <2>1. ReqOK'
    BY <1>1, <1>3, GotoReq DEF PoolInv
  <2> QED BY <1>2, <1>3, <2>1 DEF Enqueue, PoolInv, ThreadOK, QueueOK
<1>4. CASE ~(~pool.initialized \/ pool.shutdown \/ Len(queue) >= QueueCap)
  <2>1. /\ queue' = Append(queue, req[r].task) /\ WakeOne /\ Finish(r)
        /\ UNCHANGED pool
    BY <1>4 DEF Enqueue
  <2>2. req[r].task \in Task /\ queue \in Seq(Task)
    BY <1>1 DEF PoolInv, ReqOK, QueueOK
  <2>3. queue' \in Seq(Task) /\ Len(queue') = Len(queue) + 1
    BY <2>1, <2>2, AppendProperties
  <2>4. Len(queue) \in Nat /\ QueueCap \in Nat
    BY <2>2, LenProperties, SummaryAssumption
  <2>5. QueueOK'
    BY <1>4, <2>1, <2>3, <2>4 DEF PoolInv, QueueOK
  <2>6. ReqOK' /\ ThreadOK'
    BY <2>1, FinishReq, WakeKeeps DEF PoolInv
  <2> QED BY <1>2, <2>5, <2>6 DEF PoolInv
<1> QED BY <1>3, <1>4 DEF Enqueue

\* Slots given back leave the ring well typed.
LEMMA FreeSlots == ASSUME SlotsOK, NEW S, Free(S), UNCHANGED taken PROVE SlotsOK'
BY DEF SlotsOK, Free

LEMMA GiveUpInv == ASSUME PoolInv, NEW r \in Requests, GiveUp(r) PROVE PoolInv'
<1>1. ReqOK' /\ SlotsOK'
  BY FinishReq, FreeSlots DEF GiveUp, PoolInv
<1> QED BY <1>1 DEF GiveUp, PoolInv, ThreadOK, QueueOK, StagedOK, StoredOK

-----------------------------------------------------------------------------
(* Every step of a pool thread keeps the invariant                         *)

LEMMA LookInv == ASSUME PoolInv, NEW t \in Thread, Look(t) PROVE PoolInv'
<1>1. ReqOK' /\ SlotsOK' /\ StagedOK' /\ StoredOK'
  BY DEF Look, PoolInv, ReqOK, SlotsOK, StagedOK, StoredOK
<1>2. ASSUME NEW p \in {"ended", "wait"},
             thread' = [thread EXCEPT ![t].pc = p], UNCHANGED queue
      PROVE  PoolInv'
  <2>1. p \in ThreadPc /\ p \notin Working /\ p # "unborn"
    BY DEF ThreadPc, Working
  <2>2. ThreadOK'
    BY <1>2, <2>1, GotoThread DEF Look, PoolInv
  <2> QED BY <1>1, <1>2, <2>2 DEF Look, PoolInv, QueueOK
<1>3. CASE /\ queue # <<>>
           /\ thread' = [thread EXCEPT
                            ![t] = [pc |-> "call", task |-> Head(queue)]]
           /\ queue' = Tail(queue)
  <2>1. queue \in Seq(Task) /\ Len(queue) <= QueueCap /\ QueueCap \in Nat
    BY SummaryAssumption DEF PoolInv, QueueOK
  <2>2. /\ Head(queue) \in Task /\ Tail(queue) \in Seq(Task)
        /\ Len(Tail(queue)) = Len(queue) - 1
    BY <1>3, <2>1, HeadTailProperties
  <2>3. Len(queue) \in Nat
    BY <2>1, LenProperties
  <2>4. QueueOK'
    <3>1. pool' = pool /\ pool.initialized
      BY <1>3 DEF Look, PoolInv, QueueOK
    <3>2. Len(queue) - 1 <= QueueCap
      BY <2>1, <2>3
    <3> QED BY <1>3, <2>2, <3>1, <3>2 DEF PoolInv, QueueOK
  <2> DEFINE v == [pc |-> "call", task |-> Head(queue)]
  <2>5. v \in ThreadType /\ v.pc = "call" /\ v.task \in Task
    BY <2>2 DEF ThreadType, ThreadPc
  <2> HIDE DEF v
  <2>6. ThreadOK'
    BY <1>3, <2>5, NewThread DEF v, Look, PoolInv
  <2> QED BY <1>1, <2>4, <2>6 DEF PoolInv
<1> QED BY <1>2, <1>3 DEF Look

LEMMA SpuriousWakeInv ==
    ASSUME PoolInv, NEW t \in Thread, SpuriousWake(t) PROVE PoolInv'
<1>1. "check" \in ThreadPc /\ "check" \notin Working
  BY DEF ThreadPc, Working
<1>2. ThreadOK'
  BY <1>1, GotoThread DEF SpuriousWake, PoolInv
<1> QED BY <1>2
        DEF SpuriousWake, PoolInv, ReqOK, QueueOK, SlotsOK, StagedOK, StoredOK

LEMMA AnswerInv == ASSUME PoolInv, NEW t \in Thread, Answer(t) PROVE PoolInv'
<1>1. PICK p \in {"stage", "release"} : thread' = [thread EXCEPT ![t].pc = p]
  BY DEF Answer
<1>2. p \in ThreadPc /\ p # "unborn" /\ thread[t].pc \in Working
  BY DEF Answer, ThreadPc, Working
<1>3. ThreadOK'
  BY <1>1, <1>2, GotoThread DEF Answer, PoolInv
<1> QED BY <1>3
        DEF Answer, PoolInv, ReqOK, QueueOK, SlotsOK, StagedOK, StoredOK

LEMMA HangInv == ASSUME PoolInv, NEW t \in Thread, Hang(t) PROVE PoolInv'
<1>1. "hung" \in ThreadPc /\ "hung" # "unborn" /\ thread[t].pc \in Working
  BY DEF Hang, ThreadPc, Working
<1>2. ThreadOK'
  BY <1>1, GotoThread DEF Hang, PoolInv
<1> QED BY <1>2
        DEF Hang, PoolInv, ReqOK, QueueOK, SlotsOK, StagedOK, StoredOK

\* One summary more in a finite set.
LEMMA AddOne ==
    ASSUME NEW S, IsFiniteSet(S), NEW x, NEW n \in Nat, Cardinality(S) < n
    PROVE  IsFiniteSet(S \cup {x}) /\ Cardinality(S \cup {x}) <= n
<1>1. Cardinality(S) \in Nat
  BY FS_CardinalityType
<1>2. /\ IsFiniteSet(S \cup {x})
      /\ Cardinality(S \cup {x}) = Cardinality(S)
            \/ Cardinality(S \cup {x}) = Cardinality(S) + 1
  BY FS_AddElement
<1> QED BY <1>1, <1>2

LEMMA StageInv == ASSUME PoolInv, NEW t \in Thread, Stage(t) PROVE PoolInv'
<1> DEFINE x    == thread[t].task
           rest == {y \in staged : y.session # x.session}
<1>1. x \in Task /\ thread[t].pc \in Working /\ PendingCap \in Nat \ {0}
  BY SummaryAssumption DEF Stage, PoolInv, ThreadOK, Working
<1>2. IsFiniteSet(rest) /\ rest \subseteq Task
  BY FS_Subset DEF PoolInv, StagedOK
<1>3. StagedOK'
  <2>1. CASE Cardinality(rest) < PendingCap /\ staged' = rest \cup {x}
    BY <1>1, <1>2, <2>1, AddOne DEF StagedOK
  <2>2. ASSUME NEW y \in rest, Cardinality(rest) = PendingCap,
               staged' = (rest \ {y}) \cup {x}
        PROVE  StagedOK'
    <3>1. /\ IsFiniteSet(rest \ {y})
          /\ Cardinality(rest \ {y}) = Cardinality(rest) - 1
      BY <1>2, FS_RemoveElement
    <3>2. Cardinality(rest \ {y}) < PendingCap
      BY <1>1, <2>2, <3>1
    <3>3. rest \ {y} \subseteq Task
      BY <1>2
    <3> HIDE DEF rest
    <3> QED BY <1>1, <2>2, <3>1, <3>2, <3>3, AddOne DEF StagedOK
  <2> QED BY <2>1, <2>2 DEF Stage
<1>4. "release" \in ThreadPc
  BY DEF ThreadPc
<1>5. ThreadOK'
  BY <1>1, <1>4, GotoThread DEF Stage, PoolInv
<1> QED BY <1>3, <1>5 DEF Stage, PoolInv, ReqOK, QueueOK, SlotsOK, StoredOK

LEMMA ReleaseInv == ASSUME PoolInv, NEW t \in Thread, Release(t) PROVE PoolInv'
<1>1. Born.pc \notin Working /\ Born.pc # "unborn" /\ Born \in ThreadType
  BY BornType DEF Working
<1>2. ThreadOK'
  BY <1>1, NewThread DEF Release, PoolInv
<1>3. SlotsOK'
  BY FreeSlots DEF Release, PoolInv
<1> QED BY <1>2, <1>3 DEF Release, PoolInv, ReqOK, QueueOK, StagedOK, StoredOK

-----------------------------------------------------------------------------
(* Every step of saving the settings keeps the invariant                   *)

LEMMA StopInv == ASSUME PoolInv, NEW r \in Requests, Stop(r) PROVE PoolInv'
<1>1. /\ {"join1", "start"} \subseteq ReqPc
      /\ \A p \in {"join1", "start"} : p \notin OnSession /\ p \notin OnTask
  BY DEF ReqPc, OnSession, OnTask
<1>2. SlotsOK' /\ StagedOK' /\ StoredOK'
  BY DEF Stop, PoolInv, SlotsOK, StagedOK, StoredOK
<1>3. CASE pool' = [pool EXCEPT !.shutdown = TRUE] /\ WakeAll /\ Goto(r, "join1")
  <2>1. ReqOK' /\ ThreadOK'
    BY <1>1, <1>3, GotoReq, WakeKeeps DEF PoolInv
  <2>2. QueueOK'
    BY <1>3 DEF Stop, PoolInv, QueueOK
  <2> QED BY <1>2, <2>1, <2>2 DEF PoolInv
<1>4. CASE Goto(r, "start") /\ UNCHANGED <<pool, thread>>
  <2>1. ReqOK'
    BY <1>1, <1>4, GotoReq DEF PoolInv
  <2> QED BY <1>2, <1>4, <2>1 DEF Stop, PoolInv, ThreadOK, QueueOK
<1> QED BY <1>3, <1>4 DEF Stop

\* The program counters of a save that the joins lead to.
Joins == {"join1", "join2", "drain"}

LEMMA JoinsAre == /\ Joins \subseteq ReqPc
                  /\ \A p \in Joins : p \notin OnSession /\ p \notin OnTask
BY DEF Joins, ReqPc, OnSession, OnTask

\* A saver that joins goes from one of these to the next, on no session.
LEMMA JoinReq ==
    ASSUME PoolInv, NEW r \in Requests,
           \/ \E i \in {1, 2}, here, next \in Joins : Join(r, i, here, next)
           \/ \E here, next \in Joins : Joined(r, here, next)
    PROVE  req'[r].pc \in Joins /\ req'[r].session = req[r].session
<1>1. req \in [Requests -> RequestType] /\ req[r] \in RequestType
  BY DEF PoolInv, ReqOK
<1>2. ASSUME NEW i \in {1, 2}, NEW here \in Joins, NEW next \in Joins,
             Join(r, i, here, next)
      PROVE  req'[r].pc \in Joins /\ req'[r].session = req[r].session
  <2>1. CASE Goto(r, next)
    BY <1>1, <2>1 DEF Goto, RequestType
  <2>2. CASE req' = [req EXCEPT ![r].on = pool.workers[i]]
    <3>1. req'[r].pc = req[r].pc /\ req'[r].session = req[r].session
      BY <1>1, <2>2 DEF RequestType
    <3> QED BY <1>2, <3>1 DEF Join
  <2> QED BY <1>2, <2>1, <2>2 DEF Join
<1>3. ASSUME NEW here \in Joins, NEW next \in Joins, Joined(r, here, next)
      PROVE  req'[r].pc \in Joins /\ req'[r].session = req[r].session
  BY <1>1, <1>3 DEF Joined, RequestType
<1> QED BY <1>2, <1>3

LEMMA JoinInv ==
    ASSUME PoolInv, NEW r \in Requests, NEW i \in {1, 2},
           NEW here \in Joins, NEW next \in Joins, Join(r, i, here, next)
    PROVE  PoolInv'
<1> DEFINE t == pool.workers[i]
<1>1. t \in Thread
  BY DEF PoolInv, QueueOK
<1>2. CASE Goto(r, next)
  <2>1. ReqOK'
    BY <1>2, JoinsAre, GotoReq DEF PoolInv
  <2> QED BY <2>1
          DEF Join, PoolInv, ThreadOK, QueueOK, SlotsOK, StagedOK, StoredOK
<1>3. CASE req' = [req EXCEPT ![r].on = t]
  <2> DEFINE v == [req[r] EXCEPT !.on = t]
  <2>1. req[r] \in RequestType /\ req[r].pc = here
    BY DEF PoolInv, ReqOK, Join
  <2>2. v \in RequestType /\ v.pc = here
    BY <1>1, <2>1 DEF RequestType
  <2>3. req' = [req EXCEPT ![r] = v]
    BY <1>3 DEF PoolInv, ReqOK
  <2> HIDE DEF v
  <2>4. ReqOK'
    BY <2>2, <2>3, JoinsAre, NewReq DEF PoolInv
  <2> QED BY <2>4
          DEF Join, PoolInv, ThreadOK, QueueOK, SlotsOK, StagedOK, StoredOK
<1> QED BY <1>2, <1>3 DEF Join

LEMMA JoinedInv ==
    ASSUME PoolInv, NEW r \in Requests,
           NEW here \in Joins, NEW next \in Joins, Joined(r, here, next)
    PROVE  PoolInv'
<1> DEFINE t == req[r].on
           v == [req[r] EXCEPT !.on = None, !.pc = next]
<1>1. req[r] \in RequestType
  BY DEF PoolInv, ReqOK
<1>2. t \in Thread /\ thread[t].pc = "ended"
  BY <1>1 DEF Joined, RequestType
<1>3. "joined" \in ThreadPc /\ "joined" \notin Working
  BY DEF ThreadPc, Working
<1>4. ThreadOK'
  <2>1. thread' = [thread EXCEPT ![t].pc = "joined"]
    BY DEF Joined
  <2> HIDE DEF t
  <2> QED BY <1>2, <1>3, <2>1, GotoThread DEF PoolInv
<1>5. v \in RequestType /\ v.pc = next
  BY <1>1, JoinsAre DEF RequestType
<1>6. req' = [req EXCEPT ![r] = v]
  BY DEF Joined, PoolInv, ReqOK
<1> HIDE DEF v
<1>7. ReqOK'
  BY <1>5, <1>6, JoinsAre, NewReq DEF PoolInv
<1> QED BY <1>4, <1>7 DEF Joined, PoolInv, QueueOK, SlotsOK, StagedOK, StoredOK

LEMMA DrainInv == ASSUME PoolInv, NEW r \in Requests, Drain(r) PROVE PoolInv'
<1>1. "clear" \in ReqPc /\ "clear" \notin OnSession /\ "clear" \notin OnTask
  BY DEF ReqPc, OnSession, OnTask
<1>2. ReqOK'
  BY <1>1, GotoReq DEF Drain, PoolInv
<1>3. SlotsOK'
  BY FreeSlots DEF Drain, PoolInv
<1>4. QueueOK'
  <2>1. queue' = <<>> /\ pool' = [pool EXCEPT !.initialized = FALSE]
    BY DEF Drain
  <2>2. queue' \in Seq(Task) /\ Len(queue') <= QueueCap
    BY <2>1, EmptySeq, SummaryAssumption
  <2>3. pool' \in [initialized : BOOLEAN, shutdown : BOOLEAN,
                   workers : Thread \X Thread]
    BY <2>1 DEF PoolInv, QueueOK
  <2> QED BY <2>1, <2>2, <2>3 DEF QueueOK
<1> QED BY <1>2, <1>3, <1>4 DEF Drain, PoolInv, ThreadOK, StagedOK, StoredOK

LEMMA ClearInv == ASSUME PoolInv, NEW r \in Requests, Clear(r) PROVE PoolInv'
<1>1. "start" \in ReqPc /\ "start" \notin OnSession /\ "start" \notin OnTask
  BY DEF ReqPc, OnSession, OnTask
<1>2. ReqOK'
  BY <1>1, GotoReq DEF Clear, PoolInv
<1>3. StagedOK'
  BY FS_EmptySet, SummaryAssumption DEF Clear, StagedOK
<1> QED BY <1>2, <1>3 DEF Clear, PoolInv, ThreadOK, QueueOK, SlotsOK, StoredOK

\* Only threads not started yet are started, two at a time.
LEMMA StartThreads ==
    ASSUME ThreadOK, NEW t \in Thread, thread[t].pc = "unborn", t % 2 = 1,
           thread' = [thread EXCEPT ![t] = Born, ![t + 1] = Born]
    PROVE  /\ ThreadOK' /\ t + 1 \in Thread
           /\ \A u \in Thread : thread'[u] = thread[u] \/ thread[u].pc = "unborn"
<1>1. t + 1 \in Thread /\ thread[t + 1].pc = "unborn"
  BY Pairs DEF ThreadOK
<1>2. \A u \in Thread : \/ thread'[u] = thread[u] /\ u # t /\ u # t + 1
                        \/ thread'[u] = Born /\ thread[u].pc = "unborn"
  BY <1>1 DEF ThreadOK
<1>3. thread' \in [Thread -> ThreadType]
  BY BornType DEF ThreadOK
<1>4. \A u \in Thread : thread'[u].pc \in Working => thread'[u].task \in Task
  BY <1>2, BornType DEF ThreadOK, Working
<1>5. ASSUME NEW u \in Thread, u % 2 = 1, thread'[u].pc = "unborn"
      PROVE  thread'[u + 1].pc = "unborn"
  <2>1. u # t /\ u + 1 \in Thread /\ u + 1 # t /\ u + 1 # t + 1
    BY <1>2, <1>5, <1>1, BornType, Pairs
  <2>2. thread[u + 1].pc = "unborn"
    BY <1>2, <1>5, BornType DEF ThreadOK
  <2> QED BY <2>1, <2>2 DEF ThreadOK
<1> QED BY <1>1, <1>2, <1>3, <1>4, <1>5 DEF ThreadOK

LEMMA StartInv == ASSUME PoolInv, NEW r \in Requests, Start(r) PROVE PoolInv'
<1>1. ReqOK'
  BY FinishReq DEF Start, PoolInv
<1>2. SlotsOK' /\ StagedOK' /\ StoredOK'
  BY DEF Start, PoolInv, SlotsOK, StagedOK, StoredOK
<1>3. CASE UNCHANGED <<pool, queue, thread>>
  BY <1>1, <1>2, <1>3 DEF PoolInv, ThreadOK, QueueOK
<1>4. ASSUME NEW t \in Thread, thread[t].pc = "unborn", t % 2 = 1,
             thread' = [thread EXCEPT ![t] = Born, ![t + 1] = Born],
             pool' = [initialized |-> TRUE, shutdown |-> FALSE,
                      workers |-> <<t, t + 1>>],
             queue' = <<>>
      PROVE  PoolInv'
  <2>1. ThreadOK' /\ t + 1 \in Thread
    BY <1>4, StartThreads DEF PoolInv
  <2>2. queue' \in Seq(Task) /\ Len(queue') = 0 /\ QueueCap \in Nat
    BY <1>4, EmptySeq, SummaryAssumption
  <2>3. QueueOK'
    BY <1>4, <2>1, <2>2 DEF QueueOK
  <2> QED BY <1>1, <1>2, <2>1, <2>3 DEF PoolInv
<1> QED BY <1>3, <1>4 DEF Start

-----------------------------------------------------------------------------
LEMMA PoolStep == ASSUME PoolInv, [Next]_vars PROVE PoolInv'
<1>1. CASE UNCHANGED vars
  BY <1>1 DEF vars, PoolInv, ReqOK, ThreadOK, QueueOK, SlotsOK, StagedOK, StoredOK
<1>2. ASSUME NEW r \in Requests, Proceed(r) PROVE PoolInv'
  <2>1. "join1" \in Joins /\ "join2" \in Joins /\ "drain" \in Joins
    BY DEF Joins
  <2> QED BY <1>2, <2>1, FlushInv, WriteInv, NotDueInv, AcquireInv, BuildInv,
             EnqueueInv, GiveUpInv, JoinInv, JoinedInv, DrainInv, ClearInv,
             StartInv DEF Proceed
<1>3. ASSUME NEW r \in Requests, Visit(r) \/ Stop(r) PROVE PoolInv'
  BY <1>3, VisitInv, StopInv
<1>4. ASSUME NEW t \in Thread, Work(t) \/ SpuriousWake(t) \/ Hang(t) PROVE PoolInv'
  BY <1>4, LookInv, AnswerInv, StageInv, ReleaseInv, SpuriousWakeInv, HangInv DEF Work
<1> QED BY <1>1, <1>2, <1>3, <1>4 DEF Next

LEMMA PoolAlways == Spec => []PoolInv
BY PoolInit, PoolStep, PTL DEF Spec

(* The arrays of summary.c are never overrun and hold what their types     *)
(* say, whatever the requests, the pool threads and the restarts do.       *)
THEOREM SummaryTypes == Spec => []TypeOK
BY PoolAlways, PoolInvTypes, PTL

-----------------------------------------------------------------------------
(* A taken slot belongs to a task under way                                *)

Holding == {"build", "queue", "giveup"}

\* A task under way stays where it is.
ReqKept == \A r \in Requests : req[r].pc \in Holding =>
                req'[r].pc \in Holding /\ req'[r].task = req[r].task
ThreadKept == \A t \in Thread : thread[t].pc \in Working =>
                thread'[t].pc \in Working /\ thread'[t].task = thread[t].task

LEMMA LiveIs == \A x : x \in Live <=>
    \/ \E r \in Requests : req[r].pc \in Holding /\ x = req[r].task
    \/ \E i \in DOMAIN queue : x = queue[i]
    \/ \E t \in Thread : thread[t].pc \in Working /\ x = thread[t].task
BY DEF Live, Holding, Working

LEMMA LiveIsNext == \A x : x \in Live' <=>
    \/ \E r \in Requests : req'[r].pc \in Holding /\ x = req'[r].task
    \/ \E i \in DOMAIN queue' : x = queue'[i]
    \/ \E t \in Thread : thread'[t].pc \in Working /\ x = thread'[t].task
BY DEF Live, Holding, Working

\* Slots are only given back, and a task that leaves has given its slot back.
LEMMA HeldKept ==
    ASSUME SlotHeld,
           \A k \in Slot : slots'[k] # None => slots'[k] = slots[k],
           \A x \in Live : x \in Live' \/ slots'[x.slot] = None
    PROVE  SlotHeld'
<1>1. ASSUME NEW k \in Slot, slots'[k] # None
      PROVE  \E x \in Live' : x.slot = k /\ x.session = slots'[k]
  <2>1. PICK x \in Live : x.slot = k /\ x.session = slots[k]
    BY <1>1 DEF SlotHeld
  <2> QED BY <1>1, <2>1
<1> QED BY <1>1 DEF SlotHeld

\* Nothing happens to the tasks under way.
LEMMA StaysHeld ==
    ASSUME SlotHeld, UNCHANGED <<slots, queue>>, ReqKept, ThreadKept
    PROVE  SlotHeld'
<1>1. ASSUME NEW x \in Live PROVE x \in Live'
  <2>1. CASE \E r \in Requests : req[r].pc \in Holding /\ x = req[r].task
    BY <2>1, LiveIsNext DEF ReqKept
  <2>2. CASE \E i \in DOMAIN queue : x = queue[i]
    BY <2>2, LiveIsNext
  <2>3. CASE \E t \in Thread : thread[t].pc \in Working /\ x = thread[t].task
    BY <2>3, LiveIsNext DEF ThreadKept
  <2> QED BY <2>1, <2>2, <2>3, LiveIs
<1> QED BY <1>1, HeldKept

\* Steps of the request threads.
LEMMA VisitHeld ==
    ASSUME PoolInv, SlotHeld, NEW r \in Requests, Visit(r) PROVE SlotHeld'
<1>1. req[r].pc \notin Holding
  BY DEF Visit, Holding
<1>2. \A q \in Requests \ {r} : req'[q].pc = req[q].pc /\ req'[q].task = req[q].task
  BY VisitMarks
<1>3. ReqKept /\ ThreadKept
  BY <1>1, <1>2 DEF Visit, ReqKept, ThreadKept
<1> QED BY <1>3, StaysHeld DEF Visit

LEMMA FlushHeld ==
    ASSUME PoolInv, SlotHeld, NEW r \in Requests, Flush(r) PROVE SlotHeld'
<1>1. req[r].pc \notin Holding
  BY DEF Flush, Holding
<1>2. \A q \in Requests \ {r} : req'[q] = req[q]
  BY FlushReq
<1>3. ReqKept /\ ThreadKept
  BY <1>1, <1>2 DEF Flush, ReqKept, ThreadKept
<1> QED BY <1>3, StaysHeld DEF Flush

LEMMA WriteHeld ==
    ASSUME PoolInv, SlotHeld, NEW r \in Requests, WriteSummary(r)
    PROVE  SlotHeld'
<1>1. req[r].pc \notin Holding
  BY DEF WriteSummary, Holding
<1>2. \A q \in Requests \ {r} : req'[q] = req[q]
  BY WriteReq
<1>3. ReqKept /\ ThreadKept
  BY <1>1, <1>2 DEF WriteSummary, ReqKept, ThreadKept
<1> QED BY <1>3, StaysHeld DEF WriteSummary

LEMMA NotDueHeld ==
    ASSUME PoolInv, SlotHeld, NEW r \in Requests, NotDue(r) PROVE SlotHeld'
<1>1. ReqKept /\ ThreadKept
  BY FinishReq DEF NotDue, PoolInv, ReqKept, ThreadKept, Holding
<1> QED BY <1>1, StaysHeld DEF NotDue

LEMMA AcquireHeld ==
    ASSUME PoolInv, SlotHeld, NEW r \in Requests, Acquire(r) PROVE SlotHeld'
<1>1. req[r].pc \notin Holding /\ req[r].pc = "due" /\ ThreadKept
  BY DEF Acquire, Holding, ThreadKept
<1>2. CASE Finish(r) /\ UNCHANGED <<slots, taken>>
  <2>1. ReqKept
    BY <1>1, <1>2, FinishReq DEF PoolInv, ReqKept
  <2> QED BY <1>1, <1>2, <2>1, StaysHeld DEF Acquire
<1>3. CASE TakeSlot(r)
  <2> DEFINE k == taken % Slots
             y == req'[r].task
  <2>1. /\ slots' = [slots EXCEPT ![k] = req[r].session]
        /\ k \in Slot /\ req'[r].pc = "build"
        /\ y.slot = k /\ y.session = req[r].session
        /\ \A q \in Requests \ {r} : req'[q] = req[q]
    BY <1>1, <1>3, TakeSlotReq DEF Acquire
  <2>2. y \in Live'
    BY <2>1, LiveIsNext DEF Holding
  <2>3. Live \subseteq Live'
    <3>1. ReqKept /\ UNCHANGED <<queue, thread>>
      BY <1>1, <2>1 DEF Acquire, ReqKept
    <3> QED BY <3>1, LiveIs, LiveIsNext DEF ReqKept
  <2>4. ASSUME NEW j \in Slot, slots'[j] # None
        PROVE  \E x \in Live' : x.slot = j /\ x.session = slots'[j]
    <3>1. CASE j = k
      BY <2>1, <2>2, <3>1 DEF PoolInv, SlotsOK
    <3>2. CASE j # k
      <4>1. slots'[j] = slots[j]
        BY <2>1, <3>2 DEF PoolInv, SlotsOK
      <4>2. PICK x \in Live : x.slot = j /\ x.session = slots[j]
        BY <2>4, <4>1 DEF SlotHeld
      <4> QED BY <2>3, <4>1, <4>2
    <3> QED BY <3>1, <3>2
  <2> QED BY <2>4 DEF SlotHeld
<1> QED BY <1>2, <1>3 DEF Acquire

LEMMA BuildHeld ==
    ASSUME PoolInv, SlotHeld, NEW r \in Requests, Build(r) PROVE SlotHeld'
<1>1. PICK p \in {"queue", "giveup"} : Goto(r, p)
  BY DEF Build
<1>2. p \in ReqPc /\ p \in Holding /\ req[r].pc \in OnSession
      /\ req[r].pc \in OnTask
  BY DEF Build, ReqPc, Holding, OnSession, OnTask
<1>3. ReqKept /\ ThreadKept
  BY <1>1, <1>2, GotoReq DEF Build, PoolInv, ReqKept, ThreadKept
<1> QED BY <1>3, StaysHeld DEF Build

LEMMA EnqueueHeld ==
    ASSUME PoolInv, SlotHeld, NEW r \in Requests, Enqueue(r) PROVE SlotHeld'
<1>1. /\ req[r].pc \in OnSession /\ req[r].pc \in OnTask
      /\ "giveup" \in ReqPc /\ "giveup" \in Holding
  BY DEF Enqueue, OnSession, OnTask, ReqPc, Holding
<1>2. CASE Goto(r, "giveup") /\ UNCHANGED <<queue, thread>>
  <2>1. ReqKept /\ ThreadKept
    BY <1>1, <1>2, GotoReq DEF PoolInv, ReqKept, ThreadKept
  <2> QED BY <1>2, <2>1, StaysHeld DEF Enqueue
<1>3. CASE queue' = Append(queue, req[r].task) /\ WakeOne /\ Finish(r)
  <2>1. req[r].task \in Task /\ queue \in Seq(Task)
    BY <1>1 DEF PoolInv, ReqOK, QueueOK
  <2>2. /\ Len(queue) \in Nat /\ Len(queue') = Len(queue) + 1
        /\ DOMAIN queue = 1..Len(queue) /\ DOMAIN queue' = 1..Len(queue')
        /\ \A i \in 1..Len(queue) : queue'[i] = queue[i]
        /\ queue'[Len(queue) + 1] = req[r].task
    BY <1>3, <2>1, AppendProperties, LenProperties
  <2>3. \A q \in Requests \ {r} : req'[q] = req[q]
    BY <1>3, FinishReq DEF PoolInv
  <2>4. \A t \in Thread : thread[t].pc \in Working => thread'[t] = thread[t]
    BY <1>3, WakeKeeps DEF PoolInv, Working
  <2>5. ASSUME NEW x \in Live PROVE x \in Live'
    <3>1. CASE \E q \in Requests : req[q].pc \in Holding /\ x = req[q].task
      <4>1. PICK q \in Requests : req[q].pc \in Holding /\ x = req[q].task
        BY <3>1
      <4>2. CASE q = r
        <5>1. Len(queue) + 1 \in DOMAIN queue'
          BY <2>2
        <5>2. x = queue'[Len(queue) + 1]
          BY <2>2, <4>1, <4>2
        <5> QED BY <5>1, <5>2, LiveIsNext
      <4> QED BY <2>3, <4>1, <4>2, LiveIsNext
    <3>2. CASE \E i \in DOMAIN queue : x = queue[i]
      <4>1. PICK i \in DOMAIN queue : x = queue[i]
        BY <3>2
      <4>2. i \in DOMAIN queue' /\ queue'[i] = queue[i]
        BY <2>2
      <4> QED BY <4>1, <4>2, LiveIsNext
    <3>3. CASE \E t \in Thread : thread[t].pc \in Working /\ x = thread[t].task
      BY <2>4, <3>3, LiveIsNext
    <3> QED BY <3>1, <3>2, <3>3, LiveIs
  <2> QED BY <2>5, HeldKept DEF Enqueue
<1> QED BY <1>2, <1>3 DEF Enqueue

\* A set of slots given back.
LEMMA Freed ==
    ASSUME SlotsOK, NEW S \in SUBSET Slot, Free(S)
    PROVE  /\ \A k \in S : slots'[k] = None
           /\ \A k \in Slot : slots'[k] # None => slots'[k] = slots[k]
BY DEF SlotsOK, Free

LEMMA GiveUpHeld ==
    ASSUME PoolInv, SlotHeld, NEW r \in Requests, GiveUp(r) PROVE SlotHeld'
<1>1. req[r].task.slot \in Slot
  BY DEF GiveUp, PoolInv, ReqOK, OnTask, Task
<1>2. /\ slots'[req[r].task.slot] = None
      /\ \A k \in Slot : slots'[k] # None => slots'[k] = slots[k]
  BY <1>1, Freed DEF GiveUp, PoolInv
<1>3. \A q \in Requests \ {r} : req'[q] = req[q]
  BY FinishReq DEF GiveUp, PoolInv
<1>4. UNCHANGED <<queue, thread>>
  BY DEF GiveUp
<1>5. ASSUME NEW x \in Live PROVE x \in Live' \/ slots'[x.slot] = None
  <2>1. CASE \E q \in Requests : req[q].pc \in Holding /\ x = req[q].task
    BY <1>2, <1>3, <2>1, LiveIsNext
  <2> QED BY <1>4, <2>1, LiveIs, LiveIsNext
<1> QED BY <1>2, <1>5, HeldKept

\* Steps of the pool threads.
LEMMA LookHeld ==
    ASSUME PoolInv, SlotHeld, NEW t \in Thread, Look(t) PROVE SlotHeld'
<1>1. /\ thread[t].pc \notin Working /\ ReqKept
      /\ \A u \in Thread \ {t} : thread'[u] = thread[u]
  BY DEF Look, Working, ReqKept, PoolInv, ThreadOK
<1>2. CASE UNCHANGED queue
  <2>1. ThreadKept
    BY <1>1 DEF ThreadKept
  <2> QED BY <1>1, <1>2, <2>1, StaysHeld DEF Look
<1>3. CASE /\ queue # <<>>
           /\ thread' = [thread EXCEPT
                            ![t] = [pc |-> "call", task |-> Head(queue)]]
           /\ queue' = Tail(queue)
  <2>1. queue \in Seq(Task)
    BY DEF PoolInv, QueueOK
  <2>2. Len(queue) \in Nat /\ DOMAIN queue = 1..Len(queue)
    BY <2>1, LenProperties
  <2>3. /\ Tail(queue) \in Seq(Task) /\ Len(Tail(queue)) = Len(queue) - 1
        /\ \A i \in 1..Len(Tail(queue)) : Tail(queue)[i] = queue[i + 1]
    BY <1>3, <2>1, HeadTailProperties
  <2>4. DOMAIN Tail(queue) = 1..Len(queue) - 1
    BY <2>2, <2>3, LenProperties
  <2>5. thread'[t].pc = "call" /\ thread'[t].task = queue[1]
    BY <1>3 DEF PoolInv, ThreadOK
  <2>6. ASSUME NEW x \in Live PROVE x \in Live'
    <3>1. CASE \E q \in Requests : req[q].pc \in Holding /\ x = req[q].task
      BY <1>1, <3>1, LiveIsNext DEF ReqKept
    <3>2. CASE \E i \in DOMAIN queue : x = queue[i]
      <4>1. PICK i \in DOMAIN queue : x = queue[i]
        BY <3>2
      <4>2. CASE i = 1
        BY <2>5, <4>1, <4>2, LiveIsNext DEF Working
      <4>3. CASE i # 1
        <5>1. i - 1 \in DOMAIN queue' /\ queue'[i - 1] = queue[i]
          BY <1>3, <2>2, <2>3, <2>4, <4>3
        <5> QED BY <4>1, <5>1, LiveIsNext
      <4> QED BY <4>2, <4>3
    <3>3. CASE \E u \in Thread : thread[u].pc \in Working /\ x = thread[u].task
      BY <1>1, <3>3, LiveIsNext
    <3> QED BY <3>1, <3>2, <3>3, LiveIs
  <2> QED BY <2>6, HeldKept DEF Look
<1> QED BY <1>2, <1>3 DEF Look

\* A started thread that keeps working, or was not.
LEMMA ThreadMoves ==
    ASSUME PoolInv, NEW t \in Thread, NEW p \in ThreadPc \ {"unborn"},
           thread' = [thread EXCEPT ![t].pc = p], thread[t].pc # "unborn",
           p \in Working <=> thread[t].pc \in Working
    PROVE  ThreadKept
BY GotoThread DEF PoolInv, ThreadKept

LEMMA SpuriousWakeHeld ==
    ASSUME PoolInv, SlotHeld, NEW t \in Thread, SpuriousWake(t) PROVE SlotHeld'
<1>1. ThreadKept /\ ReqKept
  BY ThreadMoves DEF SpuriousWake, ThreadPc, Working, ReqKept
<1> QED BY <1>1, StaysHeld DEF SpuriousWake

LEMMA AnswerHeld ==
    ASSUME PoolInv, SlotHeld, NEW t \in Thread, Answer(t) PROVE SlotHeld'
<1>1. ThreadKept /\ ReqKept
  BY ThreadMoves DEF Answer, ThreadPc, Working, ReqKept
<1> QED BY <1>1, StaysHeld DEF Answer

LEMMA HangHeld ==
    ASSUME PoolInv, SlotHeld, NEW t \in Thread, Hang(t) PROVE SlotHeld'
<1>1. ThreadKept /\ ReqKept
  BY ThreadMoves DEF Hang, ThreadPc, Working, ReqKept
<1> QED BY <1>1, StaysHeld DEF Hang

LEMMA StageHeld ==
    ASSUME PoolInv, SlotHeld, NEW t \in Thread, Stage(t) PROVE SlotHeld'
<1>1. ThreadKept /\ ReqKept
  BY ThreadMoves DEF Stage, ThreadPc, Working, ReqKept
<1> QED BY <1>1, StaysHeld DEF Stage

LEMMA ReleaseHeld ==
    ASSUME PoolInv, SlotHeld, NEW t \in Thread, Release(t) PROVE SlotHeld'
<1>1. thread[t].task.slot \in Slot
  BY DEF Release, PoolInv, ThreadOK, Working, Task
<1>2. /\ slots'[thread[t].task.slot] = None
      /\ \A k \in Slot : slots'[k] # None => slots'[k] = slots[k]
  BY <1>1, Freed DEF Release, PoolInv
<1>3. \A u \in Thread \ {t} : thread'[u] = thread[u]
  BY DEF Release, PoolInv, ThreadOK
<1>4. UNCHANGED <<queue, req>>
  BY DEF Release
<1>5. ASSUME NEW x \in Live PROVE x \in Live' \/ slots'[x.slot] = None
  <2>1. CASE \E u \in Thread : thread[u].pc \in Working /\ x = thread[u].task
    BY <1>2, <1>3, <2>1, LiveIsNext
  <2> QED BY <1>4, <2>1, LiveIs, LiveIsNext
<1> QED BY <1>2, <1>5, HeldKept

\* Steps of saving the settings: none of these requests holds a task.
LEMMA SaverKeeps ==
    ASSUME PoolInv, NEW r \in Requests, req[r].pc \notin Holding,
           \/ \E p \in ReqPc : Goto(r, p)
           \/ Finish(r)
           \/ \E t : req' = [req EXCEPT ![r].on = t]
           \/ \E p : req' = [req EXCEPT ![r].on = None, ![r].pc = p]
    PROVE  ReqKept
<1>1. \A q \in Requests \ {r} : req'[q] = req[q]
  BY DEF Goto, Finish, PoolInv, ReqOK
<1> QED BY <1>1 DEF ReqKept

LEMMA StopHeld ==
    ASSUME PoolInv, SlotHeld, NEW r \in Requests, Stop(r) PROVE SlotHeld'
<1>1. "join1" \in ReqPc /\ "start" \in ReqPc /\ req[r].pc \notin Holding
  BY DEF Stop, ReqPc, Holding
<1>2. ReqKept
  BY <1>1, SaverKeeps DEF Stop
<1>3. ThreadKept
  BY WakeKeeps DEF Stop, PoolInv, ThreadKept, Working
<1> QED BY <1>2, <1>3, StaysHeld DEF Stop

LEMMA JoinHeld ==
    ASSUME PoolInv, SlotHeld, NEW r \in Requests, NEW i \in {1, 2},
           NEW here \in Joins, NEW next \in Joins, Join(r, i, here, next)
    PROVE  SlotHeld'
<1>1. req[r].pc \notin Holding /\ next \in ReqPc
  BY JoinsAre DEF Join, Joins, Holding
<1>2. ReqKept /\ ThreadKept
  BY <1>1, SaverKeeps DEF Join, ThreadKept
<1> QED BY <1>2, StaysHeld DEF Join

LEMMA JoinedHeld ==
    ASSUME PoolInv, SlotHeld, NEW r \in Requests,
           NEW here \in Joins, NEW next \in Joins, Joined(r, here, next)
    PROVE  SlotHeld'
<1>1. req[r].pc \notin Holding
  BY DEF Joined, Joins, Holding
<1>2. ReqKept
  BY <1>1, SaverKeeps DEF Joined
<1>3. ThreadKept
  BY DEF Joined, PoolInv, ThreadOK, ThreadKept, Working
<1> QED BY <1>2, <1>3, StaysHeld DEF Joined

LEMMA DrainHeld ==
    ASSUME PoolInv, SlotHeld, NEW r \in Requests, Drain(r) PROVE SlotHeld'
<1> DEFINE S == {queue[i].slot : i \in DOMAIN queue}
<1>1. "clear" \in ReqPc /\ req[r].pc \notin Holding
  BY DEF Drain, ReqPc, Holding
<1>2. ReqKept /\ UNCHANGED thread /\ Free(S)
  BY <1>1, SaverKeeps DEF Drain
<1>3. \A i \in DOMAIN queue : queue[i] \in Task
  BY ElementOfSeq, LenProperties DEF PoolInv, QueueOK
<1>4. S \subseteq Slot
  BY <1>3 DEF Task
<1> HIDE DEF S
<1>5. /\ \A k \in S : slots'[k] = None
      /\ \A k \in Slot : slots'[k] # None => slots'[k] = slots[k]
  BY <1>2, <1>4, Freed DEF PoolInv
<1>6. ASSUME NEW x \in Live PROVE x \in Live' \/ slots'[x.slot] = None
  <2>1. CASE \E i \in DOMAIN queue : x = queue[i]
    BY <1>5, <2>1 DEF S
  <2> QED BY <1>2, <2>1, LiveIs, LiveIsNext DEF ReqKept
<1> QED BY <1>5, <1>6, HeldKept

LEMMA ClearHeld ==
    ASSUME PoolInv, SlotHeld, NEW r \in Requests, Clear(r) PROVE SlotHeld'
<1>1. "start" \in ReqPc /\ req[r].pc \notin Holding
  BY DEF Clear, ReqPc, Holding
<1>2. ReqKept /\ ThreadKept
  BY <1>1, SaverKeeps DEF Clear, ThreadKept
<1> QED BY <1>2, StaysHeld DEF Clear

LEMMA StartHeld ==
    ASSUME PoolInv, SlotHeld, NEW r \in Requests, Start(r) PROVE SlotHeld'
<1>1. req[r].pc \notin Holding
  BY DEF Start, Holding
<1>2. ReqKept
  BY <1>1, SaverKeeps DEF Start
<1>3. ThreadKept
  BY StartThreads DEF Start, PoolInv, ThreadKept, Working
<1>4. UNCHANGED <<slots, queue>>
  BY DEF Start, PoolInv, QueueOK
<1> QED BY <1>2, <1>3, <1>4, StaysHeld

-----------------------------------------------------------------------------
LEMMA HeldInit == Init => SlotHeld
BY DEF Init, SlotHeld

LEMMA HeldStep == ASSUME PoolInv, SlotHeld, [Next]_vars PROVE SlotHeld'
<1>1. CASE UNCHANGED vars
  BY <1>1 DEF vars, SlotHeld, Live
<1>2. ASSUME NEW r \in Requests, Proceed(r) PROVE SlotHeld'
  <2>1. "join1" \in Joins /\ "join2" \in Joins /\ "drain" \in Joins
    BY DEF Joins
  <2> QED BY <1>2, <2>1, FlushHeld, WriteHeld, NotDueHeld, AcquireHeld,
             BuildHeld, EnqueueHeld, GiveUpHeld, JoinHeld, JoinedHeld,
             DrainHeld, ClearHeld, StartHeld DEF Proceed
<1>3. ASSUME NEW r \in Requests, Visit(r) \/ Stop(r) PROVE SlotHeld'
  BY <1>3, VisitHeld, StopHeld
<1>4. ASSUME NEW t \in Thread, Work(t) \/ SpuriousWake(t) \/ Hang(t) PROVE SlotHeld'
  BY <1>4, LookHeld, AnswerHeld, StageHeld, ReleaseHeld, SpuriousWakeHeld,
         HangHeld DEF Work
<1> QED BY <1>1, <1>2, <1>3, <1>4 DEF Next

(* A taken slot of the ring always belongs to a task under way: no failure *)
(* of a task and no restart of the pool locks a session out of summaries   *)
(* for good, however many requests, sessions and slots there are.          *)
THEOREM SummarySlots == Spec => []SlotHeld
BY PoolAlways, HeldInit, HeldStep, PTL DEF Spec

-----------------------------------------------------------------------------
(* Until the ring has gone round, a session has one task under way         *)

\* Where the tasks under way are, and the task at each place.
Places == ({"req"} \X {r \in Requests : req[r].pc \in Holding})
          \cup ({"queue"} \X DOMAIN queue)
          \cup ({"thread"} \X {t \in Thread : thread[t].pc \in Working})
At(p) == IF p[1] = "req" THEN req[p[2]].task
         ELSE IF p[1] = "queue" THEN queue[p[2]]
         ELSE thread[p[2]].task

\* No task is at two places.
Once == \A p, q \in Places : At(p).no = At(q).no => p = q

\* The number of a task says which slot it took.
Numbered == \A p \in Places : /\ At(p).no \in 1..taken
                              /\ At(p).slot = (At(p).no - 1) % Slots

\* As long as no slot has been taken a second time, that of a task under way
\* is its session's.
Owned == taken <= Slots => \A p \in Places : slots[At(p).slot] = At(p).session

RingInv == Once /\ Numbered /\ Owned /\ OneTaskUntilWrap

LEMMA PlaceIs == \A p : p \in Places <=>
    \/ \E r \in Requests : req[r].pc \in Holding /\ p = <<"req", r>>
    \/ \E i \in DOMAIN queue : p = <<"queue", i>>
    \/ \E t \in Thread : thread[t].pc \in Working /\ p = <<"thread", t>>
BY DEF Places

LEMMA PlaceIsNext == \A p : p \in Places' <=>
    \/ \E r \in Requests : req'[r].pc \in Holding /\ p = <<"req", r>>
    \/ \E i \in DOMAIN queue' : p = <<"queue", i>>
    \/ \E t \in Thread : thread'[t].pc \in Working /\ p = <<"thread", t>>
BY DEF Places

LEMMA TaskAt == /\ \A r : At(<<"req", r>>) = req[r].task
                /\ \A i : At(<<"queue", i>>) = queue[i]
                /\ \A t : At(<<"thread", t>>) = thread[t].task
BY DEF At

LEMMA TaskAtNext == /\ \A r : At(<<"req", r>>)' = req'[r].task
                    /\ \A i : At(<<"queue", i>>)' = queue'[i]
                    /\ \A t : At(<<"thread", t>>)' = thread'[t].task
BY DEF At

LEMMA AtTask == ASSUME PoolInv PROVE \A p \in Places : At(p) \in Task
<1>1. \A i \in DOMAIN queue : queue[i] \in Task
  BY ElementOfSeq, LenProperties DEF PoolInv, QueueOK
<1> QED BY <1>1, PlaceIs, TaskAt DEF PoolInv, ReqOK, ThreadOK, Holding, OnTask, Working

LEMMA LiveIsAt == \A x : x \in Live <=> \E p \in Places : x = At(p)
<1> SUFFICES ASSUME NEW x PROVE x \in Live <=> \E p \in Places : x = At(p)
  OBVIOUS
<1>1. ASSUME x \in Live PROVE \E p \in Places : x = At(p)
  <2>1. CASE \E r \in Requests : req[r].pc \in Holding /\ x = req[r].task
    <3>1. PICK r \in Requests : req[r].pc \in Holding /\ x = req[r].task
      BY <2>1
    <3>2. <<"req", r>> \in Places /\ At(<<"req", r>>) = x
      BY <3>1, PlaceIs, TaskAt
    <3> QED BY <3>2
  <2>2. CASE \E i \in DOMAIN queue : x = queue[i]
    <3>1. PICK i \in DOMAIN queue : x = queue[i]
      BY <2>2
    <3>2. <<"queue", i>> \in Places /\ At(<<"queue", i>>) = x
      BY <3>1, PlaceIs, TaskAt
    <3> QED BY <3>2
  <2>3. CASE \E t \in Thread : thread[t].pc \in Working /\ x = thread[t].task
    <3>1. PICK t \in Thread : thread[t].pc \in Working /\ x = thread[t].task
      BY <2>3
    <3>2. <<"thread", t>> \in Places /\ At(<<"thread", t>>) = x
      BY <3>1, PlaceIs, TaskAt
    <3> QED BY <3>2
  <2> QED BY <1>1, <2>1, <2>2, <2>3, LiveIs
<1>2. ASSUME NEW p \in Places, x = At(p) PROVE x \in Live
  <2>1. CASE \E r \in Requests : req[r].pc \in Holding /\ p = <<"req", r>>
    BY <1>2, <2>1, LiveIs, TaskAt
  <2>2. CASE \E i \in DOMAIN queue : p = <<"queue", i>>
    BY <1>2, <2>2, LiveIs, TaskAt
  <2>3. CASE \E t \in Thread : thread[t].pc \in Working /\ p = <<"thread", t>>
    BY <1>2, <2>3, LiveIs, TaskAt
  <2> QED BY <2>1, <2>2, <2>3, PlaceIs
<1> QED BY <1>1, <1>2

LEMMA LiveIsAtNext == (\A x : x \in Live <=> \E p \in Places : x = At(p))'
BY LiveIsAt, PTL

\* The tasks under way stay, go from place to place, or are gone; f says
\* where each of those that are left was before.
LEMMA FewerTasks ==
    ASSUME RingInv, NEW f \in [Places' -> Places], UNCHANGED taken,
           \A p \in Places' : At(p)' = At(f[p]),
           \A p, q \in Places' : f[p] = f[q] => p = q,
           taken <= Slots => \A p \in Places' : slots'[At(f[p]).slot] = slots[At(f[p]).slot]
    PROVE  RingInv'
<1>1. \A p \in Places' : f[p] \in Places
  OBVIOUS
<1>2. Once'
  <2> SUFFICES ASSUME NEW p \in Places', NEW q \in Places', At(p)'.no = At(q)'.no
               PROVE  p = q
    BY DEF Once
  <2>1. At(f[p]).no = At(f[q]).no
    OBVIOUS
  <2>2. f[p] = f[q]
    BY <1>1, <2>1 DEF RingInv, Once
  <2> QED BY <2>2
<1>3. Numbered'
  BY <1>1 DEF RingInv, Numbered
<1>4. Owned'
  BY <1>1 DEF RingInv, Owned
<1>5. ASSUME NEW x \in Live' PROVE x \in Live
  <2>1. PICK p \in Places' : x = At(p)'
    BY LiveIsAtNext
  <2> QED BY <1>1, <2>1, LiveIsAt
<1>6. OneTaskUntilWrap'
  BY <1>5 DEF RingInv, OneTaskUntilWrap
<1> QED BY <1>2, <1>3, <1>4, <1>6 DEF RingInv

\* The simple case: nothing under way but what was, where it was.
LEMMA SamePlaces ==
    ASSUME RingInv, UNCHANGED <<taken, slots>>,
           \A p \in Places' : p \in Places /\ At(p)' = At(p)
    PROVE  RingInv'
<1> DEFINE f == [p \in Places' |-> p]
<1>1. f \in [Places' -> Places] /\ \A p \in Places' : f[p] = p
  OBVIOUS
<1> HIDE DEF f
<1> QED BY <1>1, FewerTasks

ReqSame == \A r \in Requests : req'[r].pc \in Holding =>
                req[r].pc \in Holding /\ req'[r].task = req[r].task
QueueSame == \A i \in DOMAIN queue' : i \in DOMAIN queue /\ queue'[i] = queue[i]
ThreadSame == \A t \in Thread : thread'[t].pc \in Working =>
                thread[t].pc \in Working /\ thread'[t].task = thread[t].task

LEMMA AllSame ==
    ASSUME ReqSame, QueueSame, ThreadSame
    PROVE  \A p \in Places' : p \in Places /\ At(p)' = At(p)
<1> SUFFICES ASSUME NEW p \in Places' PROVE p \in Places /\ At(p)' = At(p)
  OBVIOUS
<1>1. CASE \E r \in Requests : req'[r].pc \in Holding /\ p = <<"req", r>>
  BY <1>1, PlaceIs, TaskAt, TaskAtNext DEF ReqSame
<1>2. CASE \E i \in DOMAIN queue' : p = <<"queue", i>>
  BY <1>2, PlaceIs, TaskAt, TaskAtNext DEF QueueSame
<1>3. CASE \E t \in Thread : thread'[t].pc \in Working /\ p = <<"thread", t>>
  BY <1>3, PlaceIs, TaskAt, TaskAtNext DEF ThreadSame
<1> QED BY <1>1, <1>2, <1>3, PlaceIsNext

LEMMA RestSame ==
    ASSUME RingInv, UNCHANGED <<taken, slots>>, ReqSame, QueueSame, ThreadSame
    PROVE  RingInv'
BY AllSame, SamePlaces

\* Until the ring has gone round, the slot of a task under way is its alone.
LEMMA SlotAlone ==
    ASSUME RingInv, SlotsOK, taken <= Slots, NEW p \in Places, NEW q \in Places,
           At(p).slot = At(q).slot
    PROVE  p = q
<1>1. At(p).no \in 1..taken /\ At(q).no \in 1..taken /\ taken \in Nat /\ Slots \in Nat \ {0}
  BY SummaryAssumption DEF RingInv, Numbered, SlotsOK
<1>2. At(p).slot = At(p).no - 1 /\ At(q).slot = At(q).no - 1
  <2>1. \A n \in 1..taken : (n - 1) % Slots = n - 1
    BY <1>1
  <2> QED BY <1>1, <2>1 DEF RingInv, Numbered
<1>3. At(p).no = At(q).no
  <2>1. \A m, n \in 1..taken : m - 1 = n - 1 => m = n
    BY <1>1
  <2>2. At(p).no - 1 = At(q).no - 1
    BY <1>2
  <2> QED BY <1>1, <2>1, <2>2
<1> QED BY <1>3 DEF RingInv, Once

\* A task that is done, or given up, gives its slot back.
LEMMA TaskGone ==
    ASSUME RingInv, SlotsOK, NEW d \in Places, Free({At(d).slot}), UNCHANGED taken,
           \A p \in Places' : p \in Places /\ p # d /\ At(p)' = At(p)
    PROVE  RingInv'
<1> DEFINE f == [p \in Places' |-> p]
<1>1. f \in [Places' -> Places] /\ \A p \in Places' : f[p] = p
  OBVIOUS
<1> HIDE DEF f
<1>2. ASSUME taken <= Slots, NEW p \in Places'
      PROVE  slots'[At(p).slot] = slots[At(p).slot]
  <2>1. At(p).slot # At(d).slot
    BY <1>2, SlotAlone
  <2>2. At(p).slot \in Slot
    <3>1. p \in Places /\ At(p).slot = (At(p).no - 1) % Slots /\ At(p).no \in 1..taken
      BY DEF RingInv, Numbered
    <3>2. PICK n, k : n = At(p).no /\ k = At(p).slot
      OBVIOUS
    <3>3. n \in Nat \ {0} /\ k = (n - 1) % Slots /\ Slots \in Nat \ {0}
      BY <3>1, <3>2, SummaryAssumption DEF SlotsOK
    <3> HIDE DEF Places
    <3>4. k \in Slot
      BY ONLY <3>3 DEF Slot
    <3> QED BY <3>2, <3>4
  <2> QED BY <2>1, <2>2 DEF Free
<1> QED BY <1>1, <1>2, FewerTasks

\* A new task: no slot is taken by its session.
LEMMA NewTaskRing ==
    ASSUME PoolInv, RingInv, NEW r \in Requests, req[r].pc = "due",
           taken < MaxTasks, TakeSlot(r), UNCHANGED <<queue, thread>>,
           \A k \in Slot : slots[k] # req[r].session
    PROVE  RingInv'
<1> DEFINE k == taken % Slots
           d == <<"req", r>>
           s == req[r].session
<1>1. /\ slots' = [slots EXCEPT ![k] = s] /\ k \in Slot
      /\ req'[r].pc = "build" /\ req'[r].task.slot = k /\ req'[r].task.session = s
      /\ \A q \in Requests \ {r} : req'[q] = req[q]
  BY TakeSlotReq
<1>2. req'[r].task.no = taken + 1 /\ taken' = taken + 1
  BY DEF TakeSlot, PoolInv, ReqOK
<1>3. taken \in Nat /\ Slots \in Nat \ {0} /\ slots \in [Slot -> Sessions \cup {None}]
  BY SummaryAssumption DEF PoolInv, SlotsOK
<1>4. At(d)' = req'[r].task /\ d \in Places'
  BY <1>1, PlaceIsNext, TaskAtNext DEF Holding
<1>5. ASSUME NEW p \in Places', p # d
      PROVE  p \in Places /\ At(p)' = At(p)
  <2>1. CASE \E q \in Requests : req'[q].pc \in Holding /\ p = <<"req", q>>
    BY <1>1, <1>5, <2>1, PlaceIs, TaskAt, TaskAtNext
  <2>2. CASE \E i \in DOMAIN queue' : p = <<"queue", i>>
    BY <2>2, PlaceIs, TaskAt, TaskAtNext
  <2>3. CASE \E t \in Thread : thread'[t].pc \in Working /\ p = <<"thread", t>>
    BY <2>3, PlaceIs, TaskAt, TaskAtNext
  <2> QED BY <2>1, <2>2, <2>3, PlaceIsNext
<1> HIDE DEF k, d, s
<1>6. \A p \in Places' : p # d => At(p)'.no \in 1..taken /\ At(p)'.slot = (At(p)'.no - 1) % Slots
  BY <1>5 DEF RingInv, Numbered
<1>7. At(d)'.no = taken + 1 /\ At(d)'.slot = k /\ At(d)'.session = s
  BY <1>1, <1>2, <1>4
<1>8. \A n \in 1..taken : n # taken + 1 /\ n \in 1..taken + 1
  BY <1>3
<1>9. Once'
  <2> SUFFICES ASSUME NEW p \in Places', NEW q \in Places', At(p)'.no = At(q)'.no
               PROVE  p = q
    BY DEF Once
  <2>1. CASE p # d /\ q # d
    BY <1>5, <2>1 DEF RingInv, Once
  <2>2. CASE p = d \/ q = d
    BY <1>6, <1>7, <1>8, <2>2
  <2> QED BY <2>1, <2>2
<1>10. Numbered'
  <2>1. \A n : n = taken + 1 => k = (n - 1) % Slots /\ n \in 1..taken + 1
    BY <1>3 DEF k
  <2> SUFFICES ASSUME NEW p \in Places'
               PROVE  At(p)'.no \in 1..taken + 1 /\ At(p)'.slot = (At(p)'.no - 1) % Slots
    BY <1>2 DEF Numbered
  <2>2. CASE p = d
    BY <1>7, <2>1, <2>2
  <2>3. CASE p # d
    BY <1>6, <1>8, <2>3
  <2> QED BY <2>2, <2>3
<1>11. ASSUME taken + 1 <= Slots, NEW p \in Places', p # d
       PROVE  /\ slots[At(p)'.slot] = At(p)'.session
              /\ At(p)'.slot \in Slot /\ At(p)'.slot # k
  <2>1. taken <= Slots
    BY <1>3, <1>11
  <2>2. slots[At(p)'.slot] = At(p)'.session
    BY <1>5, <1>11, <2>1 DEF RingInv, Owned
  <2>3. \A n \in 1..taken : (n - 1) % Slots = n - 1 /\ taken % Slots = taken
                              /\ n - 1 # taken /\ n - 1 \in Slot
    BY <1>3, <1>11 DEF Slot
  <2> QED BY <1>6, <1>11, <2>2, <2>3 DEF k
<1>12. Owned'
  <2> SUFFICES ASSUME taken + 1 <= Slots, NEW p \in Places'
               PROVE  slots'[At(p)'.slot] = At(p)'.session
    BY <1>2 DEF Owned
  <2>1. CASE p = d
    BY <1>1, <1>3, <1>7, <2>1
  <2>2. CASE p # d
    BY <1>1, <1>3, <1>11, <2>2
  <2> QED BY <2>1, <2>2
<1>13. OneTaskUntilWrap'
  <2> SUFFICES ASSUME NEW x \in Live', NEW y \in Live', x.session = y.session, x.no < y.no
               PROVE  y.no > Slots
    BY DEF OneTaskUntilWrap
  <2>1. PICK p \in Places' : x = At(p)'
    BY LiveIsAtNext
  <2>2. PICK q \in Places' : y = At(q)'
    BY LiveIsAtNext
  <2>3. CASE p # d /\ q # d
    <3>1. x \in Live /\ y \in Live
      BY <1>5, <2>1, <2>2, <2>3, LiveIsAt
    <3> QED BY <3>1 DEF RingInv, OneTaskUntilWrap
  <2>4. CASE p = d /\ q = d
    <3>1. ~ (taken + 1 < taken + 1)
      BY <1>3
    <3> QED BY <1>7, <2>1, <2>2, <2>4, <3>1
  <2>5. CASE p = d /\ q # d
    <3>1. \A n \in 1..taken : ~ (taken + 1 < n)
      BY <1>3
    <3> QED BY <1>6, <1>7, <2>1, <2>2, <2>5, <3>1
  <2>6. CASE p # d /\ q = d
    <3>1. CASE taken + 1 <= Slots
      <4>1. slots[x.slot] = x.session /\ x.slot \in Slot
        BY <1>11, <2>1, <2>6, <3>1
      <4> QED BY <1>7, <2>2, <2>6, <4>1 DEF s
    <3>2. CASE ~ (taken + 1 <= Slots)
      <4>1. taken + 1 > Slots
        BY <1>3, <3>2
      <4> QED BY <1>7, <2>2, <2>6, <4>1
    <3> QED BY <3>1, <3>2
  <2> QED BY <2>3, <2>4, <2>5, <2>6
<1> QED BY <1>9, <1>10, <1>12, <1>13 DEF RingInv

\* Steps that leave the tasks alone, or give one up.
LEMMA RequestSame ==
    ASSUME PoolInv, NEW r \in Requests,
           \/ Visit(r) \/ Flush(r) \/ WriteSummary(r) \/ NotDue(r) \/ Build(r)
    PROVE  UNCHANGED <<taken, slots>> /\ ReqSame /\ QueueSame /\ ThreadSame
<1>1. UNCHANGED <<taken, slots, queue, thread>>
  BY DEF Visit, Flush, WriteSummary, NotDue, Build
<1>2. ReqSame
  <2>1. CASE Visit(r)
    <3>1. /\ req'[r].pc = "flush"
          /\ \A q \in Requests \ {r} : req'[q].pc = req[q].pc /\ req'[q].task = req[q].task
      BY <2>1, VisitMarks
    <3> QED BY <3>1 DEF ReqSame, Holding
  <2>2. CASE Flush(r) \/ WriteSummary(r)
    <3>1. /\ req'[r].pc \in {"due", "write"}
          /\ \A q \in Requests \ {r} : req'[q] = req[q]
      BY <2>2, FlushReq, WriteReq
    <3> QED BY <3>1 DEF ReqSame, Holding
  <2>3. CASE NotDue(r)
    BY <2>3, FinishReq DEF NotDue, PoolInv, ReqSame, Holding
  <2>4. CASE Build(r)
    <3>1. PICK p \in {"queue", "giveup"} : Goto(r, p)
      BY <2>4 DEF Build
    <3>2. /\ req'[r].task = req[r].task /\ req[r].pc \in Holding
          /\ \A q \in Requests \ {r} : req'[q] = req[q]
      BY <2>4, <3>1 DEF Build, Goto, PoolInv, ReqOK, RequestType, Holding
    <3> QED BY <3>2 DEF ReqSame
  <2> QED BY <2>1, <2>2, <2>3, <2>4
<1> QED BY <1>1, <1>2 DEF QueueSame, ThreadSame

LEMMA RequestRing ==
    ASSUME PoolInv, RingInv, NEW r \in Requests,
           \/ Visit(r) \/ Flush(r) \/ WriteSummary(r) \/ NotDue(r) \/ Build(r)
    PROVE  RingInv'
BY RequestSame, RestSame

LEMMA AcquireRing ==
    ASSUME PoolInv, RingInv, NEW r \in Requests, Acquire(r) PROVE RingInv'
<1>1. UNCHANGED <<queue, thread>>
  BY DEF Acquire
<1>2. CASE \E k \in Slot : slots[k] = req[r].session
  <2>1. Finish(r) /\ UNCHANGED <<slots, taken>>
    BY <1>2 DEF Acquire
  <2>2. ReqSame
    BY <2>1, FinishReq DEF PoolInv, ReqSame, Holding
  <2> QED BY <1>1, <2>1, <2>2, RestSame DEF QueueSame, ThreadSame
<1>3. CASE \A k \in Slot : slots[k] # req[r].session
  BY <1>1, <1>3, NewTaskRing DEF Acquire
<1> QED BY <1>2, <1>3

LEMMA EnqueueRing ==
    ASSUME PoolInv, RingInv, NEW r \in Requests, Enqueue(r) PROVE RingInv'
<1>1. req[r].pc = "queue" /\ UNCHANGED <<taken, slots>>
  BY DEF Enqueue
<1>2. CASE Goto(r, "giveup") /\ UNCHANGED <<queue, thread>>
  <2>1. ReqSame
    BY <1>1, <1>2 DEF Goto, PoolInv, ReqOK, RequestType, ReqSame, Holding
  <2> QED BY <1>1, <1>2, <2>1, RestSame DEF QueueSame, ThreadSame
<1>3. CASE queue' = Append(queue, req[r].task) /\ WakeOne /\ Finish(r)
  <2>0. PICK last \in Nat : last = Len(queue) + 1
    <3>1. queue \in Seq(Task)
      BY DEF PoolInv, QueueOK
    <3> QED BY <3>1, LenProperties
  <2> DEFINE moved == <<"queue", last>>
             old == <<"req", r>>
             f == [p \in Places' |-> IF p = moved THEN old ELSE p]
  <2>1. req[r].task \in Task /\ queue \in Seq(Task)
    BY <1>1 DEF PoolInv, ReqOK, QueueOK, OnTask
  <2>2. /\ last \notin DOMAIN queue
        /\ \A i \in DOMAIN queue' : i # last => i \in DOMAIN queue /\ queue'[i] = queue[i]
        /\ queue'[last] = req[r].task
    <3>1. Len(queue) \in Nat /\ DOMAIN queue = 1..Len(queue)
      BY <2>1, LenProperties
    <3>2. /\ queue' \in Seq(Task) /\ Len(queue') = Len(queue) + 1
          /\ \A i \in 1..Len(queue) : queue'[i] = queue[i]
          /\ queue'[Len(queue) + 1] = req[r].task
      BY <1>3, <2>1, AppendProperties
    <3>3. DOMAIN queue' = 1..Len(queue) + 1
      BY <3>2, LenProperties
    <3> QED BY <2>0, <3>1, <3>2, <3>3
  <2>3. req'[r].pc = "idle" /\ \A q \in Requests \ {r} : req'[q] = req[q]
    BY <1>3, FinishReq DEF PoolInv
  <2>4. \A t \in Thread : thread'[t].pc \in Working => thread'[t] = thread[t]
    <3>1. ASSUME NEW t \in Thread, thread'[t] # thread[t] PROVE thread'[t].pc \notin Working
      BY <1>3, <3>1 DEF WakeOne, Waiting, PoolInv, ThreadOK, ThreadType, Working
    <3> QED BY <3>1
  <2>5. old \in Places /\ At(old) = req[r].task /\ At(moved)' = req[r].task
    BY <1>1, <2>2, PlaceIs, TaskAt, TaskAtNext DEF Holding
  <2>6. ASSUME NEW p \in Places', p # moved
        PROVE  p \in Places /\ p # old /\ At(p)' = At(p)
    <3>1. CASE \E q \in Requests : req'[q].pc \in Holding /\ p = <<"req", q>>
      BY <2>3, <3>1, PlaceIs, TaskAt, TaskAtNext DEF Holding
    <3>2. CASE \E i \in DOMAIN queue' : p = <<"queue", i>>
      BY <2>2, <2>6, <3>2, PlaceIs, TaskAt, TaskAtNext
    <3>3. CASE \E t \in Thread : thread'[t].pc \in Working /\ p = <<"thread", t>>
      BY <2>4, <3>3, PlaceIs, TaskAt, TaskAtNext
    <3> QED BY <3>1, <3>2, <3>3, PlaceIsNext
  <2> HIDE DEF moved, old
  <2>7. f \in [Places' -> Places] /\ \A p \in Places' : f[p] = IF p = moved THEN old ELSE p
    BY <2>5, <2>6
  <2> HIDE DEF f
  <2>8. \A p \in Places' : At(p)' = At(f[p])
    BY <2>5, <2>6, <2>7
  <2>9. \A p, q \in Places' : f[p] = f[q] => p = q
    BY <2>6, <2>7
  <2> QED BY <1>1, <2>7, <2>8, <2>9, FewerTasks
<1> QED BY <1>2, <1>3 DEF Enqueue

LEMMA GiveUpRing ==
    ASSUME PoolInv, RingInv, NEW r \in Requests, GiveUp(r) PROVE RingInv'
<1> DEFINE d == <<"req", r>>
<1>1. /\ req[r].pc = "giveup" /\ Free({req[r].task.slot})
      /\ UNCHANGED <<taken, queue, thread>>
  BY DEF GiveUp
<1>2. req'[r].pc = "idle" /\ \A q \in Requests \ {r} : req'[q] = req[q]
  BY FinishReq DEF GiveUp, PoolInv
<1>3. d \in Places /\ At(d) = req[r].task
  BY <1>1, PlaceIs, TaskAt DEF Holding
<1>4. d \notin Places'
  BY <1>2, PlaceIsNext DEF Holding
<1>5. ReqSame /\ QueueSame /\ ThreadSame
  BY <1>1, <1>2 DEF ReqSame, QueueSame, ThreadSame, Holding
<1> HIDE DEF d
<1> QED BY <1>1, <1>3, <1>4, <1>5, AllSame, TaskGone DEF PoolInv

\* A pool thread takes the first task of the queue; the others move up.
LEMMA LookRing ==
    ASSUME PoolInv, RingInv, NEW t \in Thread, Look(t) PROVE RingInv'
<1>1. /\ thread[t].pc = "check" /\ UNCHANGED <<taken, slots, req>>
      /\ \A u \in Thread \ {t} : thread'[u] = thread[u]
  BY DEF Look, PoolInv, ThreadOK
<1>2. CASE UNCHANGED queue /\ thread'[t].pc \notin Working
  <2>1. ReqSame /\ QueueSame /\ ThreadSame
    BY <1>1, <1>2 DEF ReqSame, QueueSame, ThreadSame
  <2> QED BY <1>1, <2>1, RestSame
<1>3. CASE /\ queue # <<>>
           /\ thread' = [thread EXCEPT
                            ![t] = [pc |-> "call", task |-> Head(queue)]]
           /\ queue' = Tail(queue)
  <2> DEFINE here == <<"thread", t>>
             first == <<"queue", 1>>
             Was(p) == IF p = here THEN first
                       ELSE IF p[1] = "queue" THEN <<"queue", p[2] + 1>> ELSE p
             f == [p \in Places' |-> Was(p)]
  <2>1. /\ Len(queue) \in Nat \ {0} /\ DOMAIN queue = 1..Len(queue)
        /\ Head(queue) = queue[1]
        /\ DOMAIN queue' = 1..Len(queue) - 1
        /\ \A i \in 1..Len(queue) - 1 : queue'[i] = queue[i + 1]
    <3>1. queue \in Seq(Task)
      BY DEF PoolInv, QueueOK
    <3>2. Len(queue) \in Nat /\ DOMAIN queue = 1..Len(queue)
      BY <3>1, LenProperties
    <3>3. /\ Tail(queue) \in Seq(Task) /\ Len(Tail(queue)) = Len(queue) - 1
          /\ \A i \in 1..Len(Tail(queue)) : Tail(queue)[i] = queue[i + 1]
          /\ Len(queue) # 0 /\ Head(queue) = queue[1]
      BY <1>3, <3>1, HeadTailProperties, EmptySeq
    <3>4. DOMAIN Tail(queue) = 1..Len(queue) - 1
      BY <3>3, LenProperties
    <3> QED BY <1>3, <3>2, <3>3, <3>4
  <2>2. thread'[t].pc = "call" /\ thread'[t].task = queue[1]
    BY <1>3, <2>1 DEF PoolInv, ThreadOK
  <2>3. here \notin Places
    BY <1>1, PlaceIs DEF Working
  <2>4. here \in Places' /\ first \in Places /\ At(here)' = At(first) /\ Was(here) = first
    <3>1. 1 \in DOMAIN queue
      BY <2>1
    <3> QED BY <2>2, <3>1, PlaceIs, PlaceIsNext, TaskAt, TaskAtNext DEF Working
  <2>5. ASSUME NEW i \in DOMAIN queue'
        PROVE  /\ Was(<<"queue", i>>) = <<"queue", i + 1>>
               /\ <<"queue", i + 1>> \in Places /\ i + 1 # 1
               /\ At(<<"queue", i>>)' = At(<<"queue", i + 1>>)
    <3>1. i \in 1..Len(queue) - 1 /\ i + 1 \in DOMAIN queue /\ i + 1 # 1
      BY <2>1
    <3>2. queue'[i] = queue[i + 1]
      BY <2>1, <3>1
    <3> QED BY <3>1, <3>2, PlaceIs, TaskAt, TaskAtNext
  <2>6. ASSUME NEW q \in Requests, req'[q].pc \in Holding
        PROVE  /\ Was(<<"req", q>>) = <<"req", q>> /\ <<"req", q>> \in Places
               /\ At(<<"req", q>>)' = At(<<"req", q>>)
    BY <1>1, <2>6, PlaceIs, TaskAt, TaskAtNext
  <2>7. ASSUME NEW u \in Thread, thread'[u].pc \in Working, u # t
        PROVE  /\ Was(<<"thread", u>>) = <<"thread", u>> /\ <<"thread", u>> \in Places
               /\ At(<<"thread", u>>)' = At(<<"thread", u>>)
    BY <1>1, <2>7, PlaceIs, TaskAt, TaskAtNext
  <2>8. \A p \in Places' : Was(p) \in Places /\ At(p)' = At(Was(p))
    BY <2>4, <2>5, <2>6, <2>7, PlaceIsNext
  <2>9. ASSUME NEW p \in Places', NEW q \in Places', Was(p) = Was(q)
        PROVE  p = q
    <3>1. ASSUME NEW z \in Places'
          PROVE  \/ z = here /\ Was(z) = first
                 \/ \E i \in 1..Len(queue) - 1 :
                       z = <<"queue", i>> /\ Was(z) = <<"queue", i + 1>>
                 \/ Was(z) = z /\ z[1] # "queue"
      BY <2>1, <2>4, <2>5, <2>6, <2>7, PlaceIsNext
    <3>2. \A i, j \in 1..Len(queue) - 1 : i + 1 # 1 /\ (i + 1 = j + 1 => i = j)
      BY <2>1
    <3> HIDE DEF Was
    <3>3. first[1] = "queue" /\ \A i : <<"queue", i>>[1] = "queue" /\ <<"queue", i>>[2] = i
      OBVIOUS
    <3>4. first[2] = 1
      OBVIOUS
    <3> HIDE DEF here, first
    <3> QED BY <2>9, <3>1, <3>2, <3>3, <3>4
  <2> HIDE DEF Was
  <2>10. f \in [Places' -> Places] /\ \A p \in Places' : f[p] = Was(p)
    BY <2>8
  <2> HIDE DEF f
  <2>11. \A p \in Places' : At(p)' = At(f[p])
    BY <2>8, <2>10
  <2>12. \A p, q \in Places' : f[p] = f[q] => p = q
    BY <2>9, <2>10
  <2> QED BY <1>1, <2>10, <2>11, <2>12, FewerTasks
<1>4. \/ UNCHANGED queue /\ thread'[t].pc \notin Working
      \/ /\ queue # <<>>
         /\ thread' = [thread EXCEPT ![t] = [pc |-> "call", task |-> Head(queue)]]
         /\ queue' = Tail(queue)
  BY DEF Look, PoolInv, ThreadOK, ThreadType, Working
<1> QED BY <1>2, <1>3, <1>4

LEMMA WorkSame ==
    ASSUME PoolInv, NEW t \in Thread,
           SpuriousWake(t) \/ Hang(t) \/ Answer(t) \/ Stage(t)
    PROVE  UNCHANGED <<taken, slots>> /\ ReqSame /\ QueueSame /\ ThreadSame
<1>1. UNCHANGED <<taken, slots, queue, req>>
  BY DEF SpuriousWake, Hang, Answer, Stage
<1>2. PICK p : /\ thread' = [thread EXCEPT ![t].pc = p]
               /\ p \in Working => thread[t].pc \in Working
  BY DEF SpuriousWake, Hang, Answer, Stage, Working
<1>3. thread[t] \in ThreadType /\ thread \in [Thread -> ThreadType]
  BY DEF PoolInv, ThreadOK
<1>4. thread'[t].pc = p /\ thread'[t].task = thread[t].task
  BY <1>2, <1>3 DEF ThreadType
<1>5. \A u \in Thread : u # t => thread'[u] = thread[u]
  BY <1>2, <1>3
<1> QED BY <1>1, <1>2, <1>4, <1>5 DEF ReqSame, QueueSame, ThreadSame

LEMMA WorkRing ==
    ASSUME PoolInv, RingInv, NEW t \in Thread,
           SpuriousWake(t) \/ Hang(t) \/ Answer(t) \/ Stage(t)
    PROVE  RingInv'
BY WorkSame, RestSame

LEMMA ReleaseRing ==
    ASSUME PoolInv, RingInv, NEW t \in Thread, Release(t) PROVE RingInv'
<1> DEFINE d == <<"thread", t>>
<1>1. /\ thread[t].pc = "release" /\ Free({thread[t].task.slot})
      /\ UNCHANGED <<taken, queue, req>>
  BY DEF Release
<1>2. thread'[t].pc = "check" /\ \A u \in Thread : u # t => thread'[u] = thread[u]
  BY BornType DEF Release, PoolInv, ThreadOK
<1>3. d \in Places /\ At(d) = thread[t].task
  BY <1>1, PlaceIs, TaskAt DEF Working
<1>4. d \notin Places'
  BY <1>2, PlaceIsNext DEF Working
<1>5. ReqSame /\ QueueSame /\ ThreadSame
  BY <1>1, <1>2 DEF ReqSame, QueueSame, ThreadSame, Working
<1> HIDE DEF d
<1> QED BY <1>1, <1>3, <1>4, <1>5, AllSame, TaskGone DEF PoolInv

\* Stopping the pool: what is queued is given up.
LEMMA DrainRing ==
    ASSUME PoolInv, RingInv, NEW r \in Requests, Drain(r) PROVE RingInv'
<1> DEFINE f == [p \in Places' |-> p]
           S == {queue[i].slot : i \in DOMAIN queue}
<1>1. /\ req[r].pc = "drain" /\ Free(S) /\ Goto(r, "clear") /\ queue' = <<>>
      /\ UNCHANGED <<taken, thread>>
  BY DEF Drain
<1>2. ReqSame
  BY <1>1 DEF Goto, PoolInv, ReqOK, RequestType, ReqSame, Holding
<1>3. DOMAIN queue' = {}
  BY <1>1
<1>4. \A p \in Places' : p \in Places /\ At(p)' = At(p)
  BY <1>1, <1>2, <1>3, AllSame DEF QueueSame, ThreadSame
<1>5. \A p \in Places' : \A i \in DOMAIN queue : p # <<"queue", i>>
  BY <1>3, PlaceIsNext
<1>6. f \in [Places' -> Places] /\ \A p \in Places' : f[p] = p
  BY <1>4
<1> HIDE DEF f
<1>7. ASSUME taken <= Slots, NEW p \in Places'
      PROVE  slots'[At(p).slot] = slots[At(p).slot]
  <2>1. At(p).slot \in Slot
    BY <1>4, AtTask DEF Task
  <2>2. At(p).slot \notin S
    <3>1. ASSUME NEW i \in DOMAIN queue PROVE At(p).slot # queue[i].slot
      <4>1. <<"queue", i>> \in Places /\ At(<<"queue", i>>) = queue[i]
        BY PlaceIs, TaskAt
      <4> QED BY <1>4, <1>5, <1>7, <4>1, SlotAlone DEF PoolInv
    <3> QED BY <3>1
  <2> HIDE DEF S
  <2> QED BY <1>1, <2>1, <2>2 DEF Free
<1> QED BY <1>1, <1>4, <1>6, <1>7, FewerTasks

LEMMA SavingSame ==
    ASSUME PoolInv, NEW r \in Requests,
           \/ Stop(r) \/ Clear(r) \/ Start(r)
           \/ \E i \in {1, 2}, here, next \in Joins : Join(r, i, here, next)
           \/ \E here, next \in Joins : Joined(r, here, next)
    PROVE  UNCHANGED <<taken, slots, queue>> /\ ReqSame /\ QueueSame /\ ThreadSame
<1>1. UNCHANGED <<taken, slots>>
  BY DEF Stop, Clear, Start, Join, Joined
<1>2. \A q \in Requests \ {r} : req'[q] = req[q]
  BY DEF Stop, Clear, Start, Join, Joined, Goto, Finish, PoolInv, ReqOK
<1>3. req'[r].pc \notin Holding
  <2>1. req[r] \in RequestType /\ req \in [Requests -> RequestType]
    BY DEF PoolInv, ReqOK
  <2>2. CASE Stop(r) \/ Clear(r)
    <3>1. \E p \in {"join1", "start"} : Goto(r, p)
      BY <2>2 DEF Stop, Clear
    <3> QED BY <2>1, <3>1 DEF Goto, RequestType, Holding
  <2>3. CASE Start(r)
    BY <2>3, FinishReq DEF Start, PoolInv, Holding
  <2>4. CASE \E i \in {1, 2}, here, next \in Joins : Join(r, i, here, next)
    BY <2>4, JoinReq DEF Joins, Holding
  <2>5. CASE \E here, next \in Joins : Joined(r, here, next)
    BY <2>5, JoinReq DEF Joins, Holding
  <2> QED BY <2>2, <2>3, <2>4, <2>5
<1>4. queue' = queue
  BY DEF Stop, Clear, Start, Join, Joined, PoolInv, QueueOK
<1>5. ThreadSame
  <2>1. CASE Stop(r)
    <3>1. \A t \in Thread : thread'[t] = thread[t] \/ thread'[t].pc = "check"
      BY <2>1 DEF Stop, WakeAll, Waiting, PoolInv, ThreadOK, ThreadType
    <3> QED BY <3>1 DEF ThreadSame, Working
  <2>2. CASE Start(r)
    <3>1. \A t \in Thread : thread'[t] = thread[t] \/ thread'[t].pc = "check"
      BY <2>2, BornType DEF Start, PoolInv, ThreadOK
    <3> QED BY <3>1 DEF ThreadSame, Working
  <2>3. CASE Clear(r) \/ \E i \in {1, 2}, here, next \in Joins : Join(r, i, here, next)
    BY <2>3 DEF Clear, Join, ThreadSame
  <2>4. CASE \E here, next \in Joins : Joined(r, here, next)
    <3>1. \A t \in Thread : thread'[t] = thread[t] \/ thread'[t].pc = "joined"
      BY <2>4 DEF Joined, PoolInv, ThreadOK, ThreadType
    <3> QED BY <3>1 DEF ThreadSame, Working
  <2> QED BY <2>1, <2>2, <2>3, <2>4
<1> QED BY <1>1, <1>2, <1>3, <1>4, <1>5 DEF ReqSame, QueueSame

LEMMA SavingRing ==
    ASSUME PoolInv, RingInv, NEW r \in Requests,
           \/ Stop(r) \/ Clear(r) \/ Start(r)
           \/ \E i \in {1, 2}, here, next \in Joins : Join(r, i, here, next)
           \/ \E here, next \in Joins : Joined(r, here, next)
    PROVE  RingInv'
BY SavingSame, RestSame

LEMMA RingInit == Init => RingInv
<1> SUFFICES ASSUME Init PROVE RingInv
  OBVIOUS
<1>1. \A p : p \notin Places
  BY PlaceIs, IdleType, BornType DEF Init, Holding, Working, Born
<1>2. \A x : x \notin Live
  BY <1>1, LiveIsAt
<1> QED BY <1>1, <1>2 DEF RingInv, Once, Numbered, Owned, OneTaskUntilWrap

LEMMA RingStep == ASSUME PoolInv, RingInv, [Next]_vars PROVE RingInv'
<1>1. CASE UNCHANGED vars
  BY <1>1, RestSame DEF vars, ReqSame, QueueSame, ThreadSame
<1>2. ASSUME NEW r \in Requests, Proceed(r) \/ Visit(r) \/ Stop(r) PROVE RingInv'
  <2>1. "join1" \in Joins /\ "join2" \in Joins /\ "drain" \in Joins
    BY DEF Joins
  <2> QED BY <1>2, <2>1, RequestRing, AcquireRing, EnqueueRing, GiveUpRing, DrainRing,
             SavingRing DEF Proceed
<1>3. ASSUME NEW t \in Thread, Work(t) \/ SpuriousWake(t) \/ Hang(t) PROVE RingInv'
  BY <1>3, LookRing, WorkRing, ReleaseRing DEF Work
<1> QED BY <1>1, <1>2, <1>3 DEF Next

(* Until the ring of slots has gone round once, a session never has two    *)
(* tasks under way, whatever the requests, the pool threads and the        *)
(* restarts of the pool do.                                                *)
THEOREM OneTaskAlways == Spec => []OneTaskUntilWrap
<1>1. RingInv => OneTaskUntilWrap
  BY DEF RingInv
<1> QED BY <1>1, PoolAlways, RingInit, RingStep, PTL DEF Spec

-----------------------------------------------------------------------------
(* No summary is written over a newer one                                  *)

Below(a, b) == a > Slots \/ a <= b

Held == {r \in Requests : req[r].pc = "write"}

\* A request that holds a summary and has had no rival serves its session alone.
Alone == \A r \in Held : ~req[r].rival =>
             \A q \in Requests \ {r} : req[q].session # req[r].session

\* The summaries of a session are numbered in the order they pass from a task
\* under way to the staging area, to a request, and to the table.
StagedOnce   == \A x, y \in staged : x.session = y.session => x = y
HeldIsOwn    == \A r \in Held : req[r].task.session = req[r].session
NotAhead     == /\ \A x \in staged : x.no <= taken
                /\ \A r \in Held : req[r].task.no <= taken
                /\ \A s \in Sessions : stored[s] <= taken
StagedBefore == \A x \in staged, y \in Live : x.session = y.session => Below(x.no, y.no)
HeldBefore   == \A r \in Held, y \in staged \cup Live :
                    req[r].session = y.session => Below(req[r].task.no, y.no)
StoredBefore == \A y \in staged \cup Live : Below(stored[y.session], y.no)
WrittenNext  == \A r \in Held : ~req[r].rival =>
                    Below(stored[req[r].session], req[r].task.no)

OrderInv == /\ Alone /\ StagedOnce /\ HeldIsOwn /\ NotAhead
            /\ StagedBefore /\ HeldBefore /\ StoredBefore /\ WrittenNext

LEMMA FewerLive ==
    ASSUME ReqSame, QueueSame, ThreadSame PROVE Live' \subseteq Live
BY LiveIs, LiveIsNext DEF ReqSame, QueueSame, ThreadSame

LEMMA EnqueueLive ==
    ASSUME PoolInv, NEW r \in Requests, Enqueue(r) PROVE Live' \subseteq Live
<1>1. req[r].pc = "queue" /\ req[r].task \in Live
  BY LiveIs DEF Enqueue, Holding
<1>2. CASE Goto(r, "giveup") /\ UNCHANGED <<queue, thread>>
  BY <1>1, <1>2, FewerLive DEF Goto, PoolInv, ReqOK, RequestType, ReqSame, QueueSame,
     ThreadSame, Holding
<1>3. CASE queue' = Append(queue, req[r].task) /\ WakeOne /\ Finish(r)
  <2>1. ReqSame
    BY <1>3, FinishReq DEF PoolInv, ReqSame, Holding
  <2>2. ThreadSame
    <3>1. \A t \in Thread : thread'[t] = thread[t] \/ thread'[t].pc = "check"
      BY <1>3 DEF WakeOne, Waiting, PoolInv, ThreadOK, ThreadType
    <3> QED BY <3>1 DEF ThreadSame, Working
  <2>3. \A i \in DOMAIN queue' : queue'[i] \in Live
    <3>1. req[r].task \in Task /\ queue \in Seq(Task)
      BY <1>1 DEF PoolInv, ReqOK, QueueOK, OnTask
    <3>2. Len(queue) \in Nat /\ DOMAIN queue = 1..Len(queue)
      BY <3>1, LenProperties
    <3>3. /\ queue' \in Seq(Task) /\ Len(queue') = Len(queue) + 1
          /\ \A i \in 1..Len(queue) : queue'[i] = queue[i]
          /\ queue'[Len(queue) + 1] = req[r].task
      BY <1>3, <3>1, AppendProperties
    <3>4. DOMAIN queue' = 1..Len(queue) + 1
      BY <3>3, LenProperties
    <3>5. \A i \in DOMAIN queue' : i \in DOMAIN queue \/ i = Len(queue) + 1
      BY <3>2, <3>4
    <3>6. \A i \in DOMAIN queue : queue[i] \in Live
      BY LiveIs
    <3> QED BY <1>1, <3>2, <3>3, <3>5, <3>6
  <2> QED BY <2>1, <2>2, <2>3, LiveIs, LiveIsNext DEF ReqSame, ThreadSame
<1> QED BY <1>2, <1>3 DEF Enqueue

LEMMA LookLive ==
    ASSUME PoolInv, NEW t \in Thread, Look(t) PROVE Live' \subseteq Live
<1>1. /\ thread[t].pc = "check" /\ UNCHANGED req
      /\ \A u \in Thread \ {t} : thread'[u] = thread[u]
  BY DEF Look, PoolInv, ThreadOK
<1>2. CASE UNCHANGED queue /\ thread'[t].pc \notin Working
  BY <1>1, <1>2, FewerLive DEF ReqSame, QueueSame, ThreadSame
<1>3. CASE /\ queue # <<>>
           /\ thread' = [thread EXCEPT
                            ![t] = [pc |-> "call", task |-> Head(queue)]]
           /\ queue' = Tail(queue)
  <2>1. queue \in Seq(Task)
    BY DEF PoolInv, QueueOK
  <2>2. Len(queue) \in Nat /\ DOMAIN queue = 1..Len(queue)
    BY <2>1, LenProperties
  <2>3. /\ Tail(queue) \in Seq(Task) /\ Len(Tail(queue)) = Len(queue) - 1
        /\ \A i \in 1..Len(Tail(queue)) : Tail(queue)[i] = queue[i + 1]
        /\ Len(queue) # 0 /\ Head(queue) = queue[1]
    BY <1>3, <2>1, HeadTailProperties, EmptySeq
  <2>4. DOMAIN Tail(queue) = 1..Len(queue) - 1
    BY <2>3, LenProperties
  <2>5. \A i \in DOMAIN queue' : i + 1 \in DOMAIN queue /\ queue'[i] = queue[i + 1]
    BY <1>3, <2>2, <2>3, <2>4
  <2>6. thread'[t].task = queue[1] /\ 1 \in DOMAIN queue
    BY <1>3, <2>2, <2>3 DEF PoolInv, ThreadOK
  <2>7. \A i \in DOMAIN queue : queue[i] \in Live
    BY LiveIs
  <2>8. \A i \in DOMAIN queue' : queue'[i] \in Live
    BY <2>5, <2>7
  <2>9. \A u \in Thread : thread'[u].pc \in Working => thread'[u].task \in Live
    BY <1>1, <2>6, <2>7, LiveIs
  <2>10. \A r \in Requests : req'[r].pc \in Holding => req'[r].task \in Live
    BY <1>1, LiveIs
  <2> QED BY <2>8, <2>9, <2>10, LiveIsNext
<1>4. \/ UNCHANGED queue /\ thread'[t].pc \notin Working
      \/ /\ queue # <<>>
         /\ thread' = [thread EXCEPT ![t] = [pc |-> "call", task |-> Head(queue)]]
         /\ queue' = Tail(queue)
  BY DEF Look, PoolInv, ThreadOK, ThreadType, Working
<1> QED BY <1>2, <1>3, <1>4

LEMMA EndLive ==
    ASSUME PoolInv, \/ \E r \in Requests : GiveUp(r) \/ Drain(r)
                    \/ \E t \in Thread : Release(t)
    PROVE  Live' \subseteq Live
<1>1. ASSUME NEW r \in Requests, GiveUp(r) PROVE ReqSame /\ QueueSame /\ ThreadSame
  BY <1>1, FinishReq DEF GiveUp, PoolInv, ReqSame, QueueSame, ThreadSame, Holding
<1>2. ASSUME NEW r \in Requests, Drain(r) PROVE ReqSame /\ QueueSame /\ ThreadSame
  <2>1. ReqSame
    BY <1>2 DEF Drain, Goto, PoolInv, ReqOK, RequestType, ReqSame, Holding
  <2>2. DOMAIN queue' = {}
    BY <1>2 DEF Drain
  <2> QED BY <1>2, <2>1, <2>2 DEF Drain, QueueSame, ThreadSame
<1>3. ASSUME NEW t \in Thread, Release(t) PROVE ReqSame /\ QueueSame /\ ThreadSame
  BY <1>3, BornType DEF Release, PoolInv, ThreadOK, ReqSame, QueueSame, ThreadSame, Working
<1> QED BY <1>1, <1>2, <1>3, FewerLive

\* No request takes up a summary or a session.
ReqQuiet == \A q \in Requests :
    /\ req'[q].pc = "write" => req'[q] = req[q]
    /\ req'[q].session \in {req[q].session, None}

LEMMA QuietStep ==
    ASSUME PoolInv, NEW r \in Requests,
           \/ Finish(r) \/ TakeSlot(r) \/ \E p \in ReqPc \ {"write"} : Goto(r, p)
           \/ \E i \in {1, 2}, here, next \in Joins : Join(r, i, here, next)
           \/ \E here, next \in Joins : Joined(r, here, next)
    PROVE  ReqQuiet
<1>1. req \in [Requests -> RequestType] /\ req[r] \in RequestType
  BY DEF PoolInv, ReqOK
<1>2. \A q \in Requests \ {r} : req'[q] = req[q]
  BY <1>1 DEF Finish, TakeSlot, Goto, Join, Joined
<1>3. CASE Finish(r)
  BY <1>1, <1>2, <1>3, IdleType DEF Finish, ReqQuiet
<1>4. CASE TakeSlot(r)
  BY <1>1, <1>2, <1>4 DEF TakeSlot, RequestType, ReqQuiet
<1>5. CASE \E p \in ReqPc \ {"write"} : Goto(r, p)
  <2>1. PICK p \in ReqPc \ {"write"} : Goto(r, p)
    BY <1>5
  <2>2. req'[r].pc = p /\ req'[r].session = req[r].session
    BY <1>1, <2>1 DEF Goto, RequestType
  <2> QED BY <1>2, <2>2 DEF ReqQuiet
<1>6. CASE \/ \E i \in {1, 2}, here, next \in Joins : Join(r, i, here, next)
           \/ \E here, next \in Joins : Joined(r, here, next)
  <2>1. req'[r].pc # "write" /\ req'[r].session = req[r].session
    BY <1>6, JoinReq DEF Joins
  <2> QED BY <1>2, <2>1 DEF ReqQuiet
<1> QED BY <1>3, <1>4, <1>5, <1>6

LEMMA QuietAlone ==
    ASSUME PoolInv, Alone, ReqQuiet PROVE Alone'
<1> SUFFICES ASSUME NEW r \in Held', ~req'[r].rival, NEW q \in Requests \ {r}
             PROVE  req'[q].session # req'[r].session
  BY DEF Alone
<1>1. r \in Held /\ req'[r] = req[r]
  BY DEF Held, ReqQuiet
<1>2. req[q].session # req[r].session
  BY <1>1 DEF Alone
<1>3. req[r].session \in Sessions
  BY <1>1 DEF Held, PoolInv, ReqOK, OnSession
<1> QED BY <1>1, <1>2, <1>3, SummaryAssumption DEF ReqQuiet

\* The types that the order needs.
LEMMA OrderTypes ==
    ASSUME PoolInv
    PROVE  /\ taken \in Nat /\ Slots \in Nat
           /\ \A y \in staged \cup Live : y.no \in Nat /\ y.session \in Sessions
           /\ \A r \in Held : req[r].task.no \in Nat /\ req[r].session \in Sessions
           /\ \A s \in Sessions : stored[s] \in Nat
<1>1. taken \in Nat /\ Slots \in Nat /\ \A s \in Sessions : stored[s] \in Nat
  BY SummaryAssumption DEF PoolInv, SlotsOK, StoredOK
<1>2. \A y \in Live : y \in Task
  BY LiveIsAt, AtTask
<1>3. \A y \in staged : y \in Task
  BY DEF PoolInv, StagedOK
<1>4. \A r \in Held : req[r].task \in Task /\ req[r].session \in Sessions
  BY DEF Held, PoolInv, ReqOK, OnTask, OnSession
<1>5. \A y \in Task : y.no \in Nat /\ y.session \in Sessions
  BY DEF Task
<1> QED BY <1>1, <1>2, <1>3, <1>4, <1>5

\* A step that stages and writes nothing, and may give out the next number.
LEMMA OrderKept ==
    ASSUME PoolInv, OrderInv, Alone', PoolInv',
           staged' \subseteq staged, UNCHANGED stored, taken <= taken',
           \A y \in Live' : y \in Live \/ y.no > taken,
           \A r \in Held' : /\ r \in Held /\ req'[r].task = req[r].task
                            /\ req'[r].session = req[r].session
                            /\ req[r].rival => req'[r].rival
    PROVE  OrderInv'
<1>1. /\ taken \in Nat /\ Slots \in Nat /\ taken' \in Nat
      /\ \A y \in staged \cup Live : y.no \in Nat /\ y.session \in Sessions
      /\ \A y \in Live' : y.no \in Nat /\ y.session \in Sessions
      /\ \A r \in Held : req[r].task.no \in Nat /\ req[r].session \in Sessions
      /\ \A s \in Sessions : stored[s] \in Nat
  <2>1. (PoolInv => /\ taken \in Nat
                    /\ \A y \in staged \cup Live : y.no \in Nat /\ y.session \in Sessions)'
    BY OrderTypes, PTL
  <2> QED BY <2>1, OrderTypes
<1>2. \A a, b \in Nat : a <= taken /\ b > taken => Below(a, b)
  BY <1>1 DEF Below
<1>3. StagedOnce' /\ HeldIsOwn'
  BY DEF OrderInv, StagedOnce, HeldIsOwn
<1>4. NotAhead'
  <2>1. \A a \in Nat : a <= taken => a <= taken'
    BY <1>1
  <2> QED BY <1>1, <2>1 DEF OrderInv, NotAhead
<1>5. StagedBefore'
  <2> SUFFICES ASSUME NEW x \in staged', NEW y \in Live', x.session = y.session
               PROVE  Below(x.no, y.no)
    BY DEF StagedBefore, Below
  <2>1. CASE y \in Live
    BY <2>1 DEF OrderInv, StagedBefore
  <2>2. CASE y.no > taken
    BY <1>1, <1>2, <2>2 DEF OrderInv, NotAhead
  <2> QED BY <2>1, <2>2
<1>6. HeldBefore'
  <2> SUFFICES ASSUME NEW r \in Held', NEW y \in staged' \cup Live',
                      req[r].session = y.session
               PROVE  Below(req[r].task.no, y.no)
    BY DEF HeldBefore, Below
  <2>1. CASE y \in staged \cup Live
    BY <2>1 DEF OrderInv, HeldBefore
  <2>2. CASE y \in Live' /\ y.no > taken
    BY <1>1, <1>2, <2>2 DEF OrderInv, NotAhead
  <2> QED BY <2>1, <2>2
<1>7. StoredBefore'
  <2> SUFFICES ASSUME NEW y \in staged' \cup Live' PROVE Below(stored[y.session], y.no)
    BY DEF StoredBefore, Below
  <2>1. CASE y \in staged \cup Live
    BY <2>1 DEF OrderInv, StoredBefore
  <2>2. CASE y \in Live' /\ y.no > taken
    BY <1>1, <1>2, <2>2 DEF OrderInv, NotAhead
  <2> QED BY <2>1, <2>2
<1>8. WrittenNext'
  BY DEF OrderInv, WrittenNext, Below
<1> QED BY <1>3, <1>4, <1>5, <1>6, <1>7, <1>8 DEF OrderInv

LEMMA QuietOrder ==
    ASSUME PoolInv, OrderInv, PoolInv', ReqQuiet, staged' \subseteq staged,
           UNCHANGED stored, taken <= taken',
           \A y \in Live' : y \in Live \/ y.no > taken
    PROVE  OrderInv'
<1>1. Alone'
  BY QuietAlone DEF OrderInv
<1>2. \A r \in Held' : /\ r \in Held /\ req'[r].task = req[r].task
                       /\ req'[r].session = req[r].session
                       /\ req[r].rival => req'[r].rival
  BY DEF Held, ReqQuiet
<1> QED BY <1>1, <1>2, OrderKept

LEMMA VisitOrder ==
    ASSUME PoolInv, OrderInv, PoolInv', NEW r \in Requests, Visit(r) PROVE OrderInv'
<1>1. PICK s \in Sessions :
        /\ req'[r].pc = "flush" /\ req'[r].session = s
        /\ \A q \in Requests \ {r} :
              /\ req'[q].pc = req[q].pc /\ req'[q].session = req[q].session
              /\ req'[q].task = req[q].task
              /\ req'[q].rival = (req[q].rival
                     \/ (req[q].pc = "write" /\ req[q].session = s))
  BY VisitMarks
<1>2. \A q \in Held' : /\ q \in Held /\ req'[q].task = req[q].task
                       /\ req'[q].session = req[q].session /\ q # r
                       /\ req[q].rival => req'[q].rival
                       /\ req[q].session = s => req'[q].rival
  BY <1>1 DEF Held
<1>3. Alone'
  <2> SUFFICES ASSUME NEW q \in Held', ~req'[q].rival, NEW p \in Requests \ {q}
               PROVE  req'[p].session # req'[q].session
    BY DEF Alone
  <2>1. CASE p = r
    BY <1>1, <1>2, <2>1
  <2>2. CASE p # r
    BY <1>1, <1>2, <2>2 DEF OrderInv, Alone
  <2> QED BY <2>1, <2>2
<1>4. ReqSame /\ QueueSame /\ ThreadSame
  BY RequestSame
<1>5. /\ Live' \subseteq Live /\ taken' = taken /\ taken <= taken
      /\ staged' = staged /\ stored' = stored
  BY <1>4, FewerLive, OrderTypes DEF Visit
<1> QED BY <1>2, <1>3, <1>5, OrderKept

LEMMA FlushOrder ==
    ASSUME PoolInv, OrderInv, PoolInv', NEW r \in Requests, Flush(r) PROVE OrderInv'
<1>1. /\ req[r].pc = "flush" /\ \A q \in Requests \ {r} : req'[q] = req[q]
      /\ req'[r].session = req[r].session /\ UNCHANGED <<taken, stored>>
  BY FlushReq DEF Flush
<1>2. Live' \subseteq Live
  BY RequestSame, FewerLive
<1>3. /\ taken <= taken
      /\ \A y \in staged \cup Live : y.no \in Nat /\ y.session \in Sessions
  BY OrderTypes
<1>4. CASE req'[r].pc = "due" /\ UNCHANGED staged
  <2>1. ReqQuiet
    BY <1>1, <1>4 DEF ReqQuiet
  <2> QED BY <1>1, <1>2, <1>3, <1>4, <2>1, QuietOrder
<1>5. ASSUME NEW x \in staged, x.session = req[r].session, staged' = staged \ {x},
             req'[r].pc = "write", req'[r].task = x,
             req'[r].rival <=> \E q \in Requests \ {r} : req[q].session = req[r].session
      PROVE  OrderInv'
  <2>1. \A q \in Held' : q = r \/ (q \in Held /\ req'[q] = req[q])
    BY <1>1 DEF Held
  <2>2. Alone'
    <3> SUFFICES ASSUME NEW q \in Held', ~req'[q].rival, NEW p \in Requests \ {q}
                 PROVE  req'[p].session # req'[q].session
      BY DEF Alone
    <3>1. \A z \in Requests : req'[z].session = req[z].session
      BY <1>1
    <3>2. CASE q = r
      BY <1>5, <3>1, <3>2
    <3>3. CASE q \in Held /\ req'[q] = req[q]
      BY <3>1, <3>3 DEF OrderInv, Alone
    <3> QED BY <2>1, <3>2, <3>3
  <2>3. StagedOnce' /\ HeldIsOwn' /\ NotAhead'
    BY <1>1, <1>5, <2>1 DEF OrderInv, StagedOnce, HeldIsOwn, NotAhead
  <2>4. StagedBefore'
    BY <1>2, <1>5 DEF OrderInv, StagedBefore, Below
  <2>5. HeldBefore'
    <3> SUFFICES ASSUME NEW q \in Held', NEW y \in staged' \cup Live',
                        req'[q].session = y.session
                 PROVE  Below(req'[q].task.no, y.no)
      BY DEF HeldBefore, Below
    <3>1. CASE q \in Held /\ req'[q] = req[q]
      BY <1>2, <1>5, <3>1 DEF OrderInv, HeldBefore
    <3>2. CASE q = r /\ y \in Live
      BY <1>1, <1>5, <3>2 DEF OrderInv, StagedBefore
    <3>3. CASE q = r /\ y \in staged \ {x}
      BY <1>1, <1>5, <3>3 DEF OrderInv, StagedOnce
    <3> QED BY <1>2, <1>5, <2>1, <3>1, <3>2, <3>3
  <2>6. StoredBefore'
    BY <1>1, <1>2, <1>5 DEF OrderInv, StoredBefore, Below
  <2>7. WrittenNext'
    <3> SUFFICES ASSUME NEW q \in Held', ~req'[q].rival
                 PROVE  Below(stored[req'[q].session], req'[q].task.no)
      BY <1>1 DEF WrittenNext, Below
    <3>1. CASE q = r
      BY <1>1, <1>5, <3>1 DEF OrderInv, StoredBefore
    <3>2. CASE q \in Held /\ req'[q] = req[q]
      BY <3>2 DEF OrderInv, WrittenNext
    <3> QED BY <2>1, <3>1, <3>2
  <2> QED BY <2>2, <2>3, <2>4, <2>5, <2>6, <2>7 DEF OrderInv
<1> QED BY <1>4, <1>5, FlushReq

LEMMA WriteOrder ==
    ASSUME PoolInv, OrderInv, PoolInv', NEW r \in Requests, WriteSummary(r)
    PROVE  OrderInv'
<1> DEFINE s == req[r].session
           n == req[r].task.no
<1>1. /\ r \in Held /\ \A q \in Requests \ {r} : req'[q] = req[q]
      /\ req'[r].session = s /\ req'[r].pc = "due" /\ UNCHANGED <<taken, staged>>
  BY WriteReq DEF WriteSummary, Held
<1>2. s \in Sessions /\ n \in Nat /\ stored' \in [Sessions -> 0..MaxTasks]
  BY <1>1, OrderTypes DEF PoolInv, StoredOK
<1>3. stored'[s] = n /\ \A u \in Sessions : u # s => stored'[u] = stored[u]
  BY <1>2 DEF WriteSummary, PoolInv, StoredOK
<1>4. Live' \subseteq Live
  BY RequestSame, FewerLive
<1>5. \A q \in Held' : q \in Held /\ q # r /\ req'[q] = req[q] /\ q \in Requests
  BY <1>1 DEF Held
<1>6. \A y \in staged \cup Live : y.session \in Sessions
  BY OrderTypes
<1>7. Alone'
  <2>1. ReqQuiet
    BY <1>1 DEF ReqQuiet
  <2> QED BY <2>1, QuietAlone DEF OrderInv
<1>8. StagedOnce' /\ HeldIsOwn' /\ StagedBefore' /\ HeldBefore'
  BY <1>1, <1>4, <1>5
     DEF OrderInv, StagedOnce, HeldIsOwn, StagedBefore, HeldBefore, Below
<1>9. NotAhead'
  <2>1. n <= taken
    BY <1>1 DEF OrderInv, NotAhead
  <2> HIDE DEF s, n
  <2>2. \A u \in Sessions : stored'[u] <= taken
    BY <1>3, <2>1 DEF OrderInv, NotAhead
  <2> QED BY <1>1, <1>5, <2>2 DEF OrderInv, NotAhead
<1>10. StoredBefore'
  <2> SUFFICES ASSUME NEW y \in staged \cup Live
               PROVE  Below(stored'[y.session], y.no)
    BY <1>1, <1>4 DEF StoredBefore, Below
  <2>1. CASE y.session = s
    <3>1. Below(n, y.no)
      BY <1>1, <2>1 DEF OrderInv, HeldBefore
    <3> QED BY <1>3, <2>1, <3>1
  <2>2. CASE y.session # s
    BY <1>3, <1>6, <2>2 DEF OrderInv, StoredBefore
  <2> QED BY <2>1, <2>2
<1>11. WrittenNext'
  <2> SUFFICES ASSUME NEW q \in Held', ~req'[q].rival
               PROVE  Below(stored'[req'[q].session], req'[q].task.no)
    BY DEF WrittenNext, Below
  <2>1. q \in Held /\ q \in Requests /\ q # r /\ req'[q] = req[q] /\ ~req[q].rival
    BY <1>5
  <2>2. req[q].session # s /\ req[q].session \in Sessions
    BY <2>1, OrderTypes DEF OrderInv, Alone
  <2>3. Below(stored[req[q].session], req[q].task.no)
    BY <2>1 DEF OrderInv, WrittenNext
  <2> QED BY <1>3, <2>1, <2>2, <2>3
<1> QED BY <1>7, <1>8, <1>9, <1>10, <1>11 DEF OrderInv

\* Two tasks of a session under way are in order until the ring has gone round.
LEMMA LiveOrder ==
    ASSUME PoolInv, OneTaskUntilWrap, NEW x \in Live, NEW y \in Live,
           x.session = y.session
    PROVE  Below(x.no, y.no)
<1>1. x.no \in Nat /\ y.no \in Nat /\ Slots \in Nat
  BY OrderTypes
<1>2. CASE y.no < x.no
  BY <1>2 DEF OneTaskUntilWrap, Below
<1>3. CASE ~(y.no < x.no)
  BY <1>1, <1>3 DEF Below
<1> QED BY <1>2, <1>3

LEMMA StageOrder ==
    ASSUME PoolInv, RingInv, OrderInv, PoolInv', NEW t \in Thread, Stage(t)
    PROVE  OrderInv'
<1> DEFINE x == thread[t].task
           rest == {y \in staged : y.session # x.session}
<1>1. thread[t].pc = "stage" /\ UNCHANGED <<taken, stored, req>>
  BY DEF Stage
<1>2. x \in Live
  BY <1>1, LiveIs DEF Working
<1>3. staged' \subseteq rest \cup {x} /\ Live' \subseteq Live
  BY WorkSame, FewerLive DEF Stage
<1>4. x.no <= taken
  <2>1. PICK p \in Places : x = At(p)
    BY <1>2, LiveIsAt
  <2> QED BY <2>1, OrderTypes DEF RingInv, Numbered
<1>5. OneTaskUntilWrap
  BY DEF RingInv
<1> HIDE DEF x
<1>6. \A y \in staged' : (y = x \/ y \in staged) /\ (y # x => y.session # x.session)
  BY <1>3
<1> HIDE DEF rest
<1>7. Alone' /\ HeldIsOwn' /\ WrittenNext'
  BY <1>1 DEF OrderInv, Alone, HeldIsOwn, WrittenNext, Held, Below
<1>8. StagedOnce'
  BY <1>6 DEF OrderInv, StagedOnce
<1>9. NotAhead'
  BY <1>1, <1>4, <1>6 DEF OrderInv, NotAhead, Held
<1>10. StagedBefore'
  <2> SUFFICES ASSUME NEW y \in staged', NEW z \in Live, y.session = z.session
               PROVE  Below(y.no, z.no)
    BY <1>3 DEF StagedBefore, Below
  <2>1. CASE y = x
    BY <1>2, <1>5, <2>1, LiveOrder
  <2>2. CASE y \in staged
    BY <2>2 DEF OrderInv, StagedBefore
  <2> QED BY <1>6, <2>1, <2>2
<1>11. HeldBefore'
  BY <1>1, <1>2, <1>3, <1>6 DEF OrderInv, HeldBefore, Held, Below
<1>12. StoredBefore'
  BY <1>1, <1>2, <1>3, <1>6 DEF OrderInv, StoredBefore, Below
<1> QED BY <1>7, <1>8, <1>9, <1>10, <1>11, <1>12 DEF OrderInv

LEMMA AcquireOrder ==
    ASSUME PoolInv, OrderInv, PoolInv', NEW r \in Requests, Acquire(r) PROVE OrderInv'
<1>1. UNCHANGED <<queue, staged, stored, thread>> /\ req[r].pc = "due"
      /\ taken \in Nat
  BY OrderTypes DEF Acquire
<1>2. CASE Finish(r) /\ UNCHANGED taken
  <2>1. ReqQuiet
    BY <1>2, QuietStep
  <2>2. Live' \subseteq Live
    <3>1. ReqSame
      BY <1>2, FinishReq DEF PoolInv, ReqSame, Holding
    <3> QED BY <1>1, <3>1, FewerLive DEF QueueSame, ThreadSame
  <2>3. taken <= taken'
    BY <1>1, <1>2
  <2> QED BY <1>1, <2>1, <2>2, <2>3, QuietOrder
<1>3. CASE TakeSlot(r)
  <2>1. ReqQuiet
    BY <1>3, QuietStep
  <2>2. taken' = taken + 1 /\ \A q \in Requests \ {r} : req'[q] = req[q]
    BY <1>3 DEF TakeSlot, PoolInv, ReqOK
  <2>3. req'[r].task.no = taken + 1
    BY <1>3 DEF TakeSlot, PoolInv, ReqOK
  <2>4. \A y \in Live' : y \in Live \/ y.no > taken
    <3> SUFFICES ASSUME NEW y \in Live' PROVE y \in Live \/ y.no > taken
      OBVIOUS
    <3>1. CASE \E q \in Requests : req'[q].pc \in Holding /\ y = req'[q].task
      BY <1>1, <2>2, <2>3, <3>1, LiveIs
    <3>2. CASE \E i \in DOMAIN queue' : y = queue'[i]
      BY <1>1, <3>2, LiveIs
    <3>3. CASE \E t \in Thread : thread'[t].pc \in Working /\ y = thread'[t].task
      BY <1>1, <3>3, LiveIs
    <3> QED BY <3>1, <3>2, <3>3, LiveIsNext
  <2>5. taken <= taken'
    BY <1>1, <2>2
  <2> QED BY <1>1, <2>1, <2>4, <2>5, QuietOrder
<1> QED BY <1>2, <1>3 DEF Acquire

\* The other steps: no summary is staged, held or written, no number given out.
LEMMA OtherOrder ==
    ASSUME PoolInv, OrderInv, PoolInv',
           \/ \E r \in Requests :
                 \/ NotDue(r) \/ Build(r) \/ Enqueue(r) \/ GiveUp(r)
                 \/ Drain(r) \/ Clear(r) \/ Start(r) \/ Stop(r)
                 \/ \E i \in {1, 2}, here, next \in Joins : Join(r, i, here, next)
                 \/ \E here, next \in Joins : Joined(r, here, next)
           \/ \E t \in Thread : Look(t) \/ Answer(t) \/ Hang(t) \/ Release(t) \/ SpuriousWake(t)
    PROVE  OrderInv'
<1>1. taken \in Nat
  BY OrderTypes
<1>2. ASSUME NEW r \in Requests,
             \/ NotDue(r) \/ Build(r) \/ Enqueue(r) \/ GiveUp(r)
             \/ Drain(r) \/ Clear(r) \/ Start(r) \/ Stop(r)
             \/ \E i \in {1, 2}, here, next \in Joins : Join(r, i, here, next)
             \/ \E here, next \in Joins : Joined(r, here, next)
      PROVE  OrderInv'
  <2>1. staged' \subseteq staged /\ UNCHANGED <<taken, stored>>
    BY <1>2 DEF NotDue, Build, Enqueue, GiveUp, Drain, Clear, Start, Stop, Join, Joined
  <2>2. \/ Finish(r) \/ \E p \in ReqPc \ {"write"} : Goto(r, p)
        \/ \E i \in {1, 2}, here, next \in Joins : Join(r, i, here, next)
        \/ \E here, next \in Joins : Joined(r, here, next)
    BY <1>2 DEF NotDue, Build, Enqueue, GiveUp, Drain, Clear, Start, Stop, ReqPc
  <2>3. ReqQuiet
    BY <2>2, QuietStep
  <2>4. CASE NotDue(r) \/ Build(r)
    BY <1>1, <2>1, <2>3, <2>4, RequestSame, FewerLive, QuietOrder
  <2>5. CASE Enqueue(r)
    BY <1>1, <2>1, <2>3, <2>5, EnqueueLive, QuietOrder
  <2>6. CASE GiveUp(r) \/ Drain(r)
    BY <1>1, <2>1, <2>3, <2>6, EndLive, QuietOrder
  <2>7. CASE \/ Clear(r) \/ Start(r) \/ Stop(r)
             \/ \E i \in {1, 2}, here, next \in Joins : Join(r, i, here, next)
             \/ \E here, next \in Joins : Joined(r, here, next)
    BY <1>1, <2>1, <2>3, <2>7, SavingSame, FewerLive, QuietOrder
  <2> QED BY <1>2, <2>4, <2>5, <2>6, <2>7
<1>3. ASSUME NEW t \in Thread, Look(t) \/ Answer(t) \/ Hang(t) \/ Release(t) \/ SpuriousWake(t)
      PROVE  OrderInv'
  <2>1. UNCHANGED <<taken, staged, stored, req>>
    BY <1>3 DEF Look, Answer, Hang, Release, SpuriousWake
  <2>2. ReqQuiet
    BY <2>1 DEF ReqQuiet
  <2>3. Live' \subseteq Live
    BY <1>3, LookLive, EndLive, WorkSame, FewerLive
  <2> QED BY <1>1, <2>1, <2>2, <2>3, QuietOrder
<1> QED BY <1>2, <1>3

LEMMA OrderInit == Init => OrderInv
<1> SUFFICES ASSUME Init PROVE OrderInv
  OBVIOUS
<1>1. Held = {} /\ staged = {} /\ taken = 0 /\ stored = [s \in Sessions |-> 0]
  BY IdleType DEF Init, Held
<1>2. \A x : x \notin Live
  BY LiveIs, IdleType, BornType DEF Init, Holding, Working, Born
<1> QED BY <1>1, <1>2 DEF OrderInv, Alone, StagedOnce, HeldIsOwn, NotAhead, StagedBefore,
           HeldBefore, StoredBefore, WrittenNext

LEMMA OrderStep ==
    ASSUME PoolInv, RingInv, OrderInv, PoolInv', [Next]_vars PROVE OrderInv'
<1>1. CASE UNCHANGED vars
  BY <1>1 DEF vars, Live, Held, OrderInv, Alone, StagedOnce, HeldIsOwn, NotAhead,
     StagedBefore, HeldBefore, StoredBefore, WrittenNext, Below
<1>2. ASSUME NEW r \in Requests, Proceed(r) \/ Visit(r) \/ Stop(r) PROVE OrderInv'
  <2>1. "join1" \in Joins /\ "join2" \in Joins /\ "drain" \in Joins
    BY DEF Joins
  <2>2. CASE Flush(r) \/ WriteSummary(r) \/ Visit(r) \/ Acquire(r)
    BY <2>2, FlushOrder, WriteOrder, VisitOrder, AcquireOrder
  <2>3. CASE \/ NotDue(r) \/ Build(r) \/ Enqueue(r) \/ GiveUp(r)
             \/ Drain(r) \/ Clear(r) \/ Start(r) \/ Stop(r)
             \/ \E i \in {1, 2}, here, next \in Joins : Join(r, i, here, next)
             \/ \E here, next \in Joins : Joined(r, here, next)
    BY <2>3, OtherOrder
  <2> QED BY <1>2, <2>1, <2>2, <2>3 DEF Proceed
<1>3. ASSUME NEW t \in Thread, Work(t) \/ SpuriousWake(t) \/ Hang(t) PROVE OrderInv'
  BY <1>3, StageOrder, OtherOrder DEF Work
<1> QED BY <1>1, <1>2, <1>3 DEF Next

\* What a write replaces was stored before what it writes was taken.
LEMMA WriteNewer ==
    ASSUME PoolInv, OrderInv, [Next]_vars PROVE [NeverOlder]_stored
<1>1. ASSUME NEW r \in Requests, WriteSummary(r) PROVE NeverOlder
  <2> DEFINE s == req[r].session
  <2>1. r \in Held /\ s \in Sessions
    BY <1>1, OrderTypes DEF WriteSummary, Held
  <2>2. stored'[s] = req[r].task.no /\ \A u \in Sessions : u # s => stored'[u] = stored[u]
    BY <1>1, <2>1 DEF WriteSummary, PoolInv, StoredOK
  <2>3. stored[s] \in Nat /\ req[r].task.no \in Nat /\ \A u \in Sessions : stored[u] \in Nat
    BY <2>1, OrderTypes
  <2>4. ~req[r].rival => Below(stored[s], req[r].task.no)
    BY <2>1 DEF OrderInv, WrittenNext
  <2>5. ASSUME NEW u \in Sessions, stored'[u] < stored[u]
        PROVE  u = s /\ req[r].task.no < stored[s]
    BY <2>2, <2>3, <2>5
  <2>6. stored[s] > Slots \/ req[r].rival \/ ~(req[r].task.no < stored[s])
    BY <2>3, <2>4 DEF Below
  <2> QED BY <2>5, <2>6 DEF NeverOlder
<1>2. ASSUME ~\E r \in Requests : WriteSummary(r) PROVE UNCHANGED stored
  BY <1>2 DEF Next, vars, Proceed, Work, Visit, Flush, NotDue, Acquire, Build, Enqueue,
     GiveUp, Join, Joined, Drain, Clear, Start, Stop, Look, Answer, Stage, Release,
     SpuriousWake, Hang
<1> QED BY <1>1, <1>2

(* A stored summary is only replaced by an older one if another request    *)
(* served the session between taking a summary and writing it, or after    *)
(* the ring of slots has gone round: whatever the model calls do and       *)
(* however often the pool is restarted.                                    *)
THEOREM SummariesInOrder == Spec => SummaryOrder
<1>1. PoolInv /\ RingInv /\ OrderInv /\ [Next]_vars /\ PoolInv' => OrderInv'
  BY OrderStep
<1>2. PoolInv /\ OrderInv /\ [Next]_vars => [NeverOlder]_stored
  BY WriteNewer
<1> QED BY <1>1, <1>2, PoolAlways, RingInit, RingStep, OrderInit, PTL
        DEF Spec, SummaryOrder
=============================================================================
