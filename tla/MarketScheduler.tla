--------------------------- MODULE MarketScheduler ---------------------------
(***************************************************************************)
(* The background thread of services/market/market_scheduler.c.  Each      *)
(* round goes through five jobs; it decides on a job while it holds the    *)
(* mutex, runs it without, and takes the mutex again.  The configuration   *)
(* may change and the server may stop the thread while a job runs.         *)
(*                                                                         *)
(* The clock is left out: whether the interval of a job has passed is      *)
(* chosen freely, and a timed wait may end at any time.                    *)
(***************************************************************************)
EXTENDS Naturals, Sequences

CONSTANT MaxDays     \* bound on the days that pass

Jobs == <<"dca", "indices", "mcp", "fx", "quotes">>
Network == {"indices", "fx", "quotes"}
Configs == [auto : BOOLEAN, mode : {"manual", "interval", "trading_hours"}]

VARIABLES
    running,     \* g_sched_running
    config,      \* g_config_auto_sync, g_config_sync_mode
    sched,       \* thread: "off", "deciding" (holds the mutex), "working", "waiting", "gone"
    job,         \* index of the job decided on or running
    today,       \* tm_yday
    checkedDay,  \* last_dca_check_day
    signalled,   \* the condition was signalled while the thread waited on it
    main         \* main thread: "starting", "serving", "joining", "returned"

schedVars == <<running, config, sched, job, today, checkedDay, signalled, main>>

SchedInit ==
    /\ running = FALSE
    /\ config = [auto |-> TRUE, mode |-> "trading_hours"]
    /\ sched = "off"
    /\ job = 1
    /\ today = 1
    /\ checkedDay = 0
    /\ signalled = FALSE
    /\ main = "starting"

MutexFree == sched # "deciding"

----------------------------------------------------------------------------
(* The main thread and the requests *)

SchedStart ==
    /\ main = "starting"
    /\ \/ running' = TRUE /\ sched' = "deciding"
       \/ running' = FALSE /\ UNCHANGED sched       \* pthread_create fails
    /\ main' = "serving"
    /\ UNCHANGED <<config, job, today, checkedDay, signalled>>

\* g_sched_running is read without the mutex first.
SchedStop ==
    /\ main = "serving"
    /\ IF running
       THEN /\ MutexFree
            /\ running' = FALSE
            /\ signalled' = (sched = "waiting")
            /\ main' = "joining"
       ELSE main' = "returned" /\ UNCHANGED <<running, signalled>>
    /\ UNCHANGED <<config, sched, job, today, checkedDay>>

SchedJoin ==
    /\ main = "joining"
    /\ sched = "gone"
    /\ main' = "returned"
    /\ UNCHANGED <<running, config, sched, job, today, checkedDay, signalled>>

SetConfig(c) ==
    /\ MutexFree
    /\ main = "serving"
    /\ config' = c
    /\ UNCHANGED <<running, sched, job, today, checkedDay, signalled, main>>

DayPasses ==
    /\ today < MaxDays
    /\ today' = today + 1
    /\ UNCHANGED <<running, config, sched, job, checkedDay, signalled, main>>

----------------------------------------------------------------------------
(* scheduler_loop *)

Automatic == config.auto /\ config.mode # "manual"

MayRun(j) == CASE j = "dca"      -> today # checkedDay
               [] j = "mcp"      -> TRUE
               [] j \in Network  -> Automatic

RunJob ==
    /\ sched = "deciding" /\ job <= Len(Jobs)
    /\ MayRun(Jobs[job])
    /\ checkedDay' = IF Jobs[job] = "dca" THEN today ELSE checkedDay
    /\ sched' = "working"
    /\ UNCHANGED <<running, config, job, today, signalled, main>>

\* It must not run, or its interval has not passed; what has no interval runs.
PassOver ==
    /\ sched = "deciding" /\ job <= Len(Jobs)
    /\ MayRun(Jobs[job]) => Jobs[job] \in Network
    /\ job' = job + 1
    /\ UNCHANGED <<running, config, sched, today, checkedDay, signalled, main>>

\* The job is done and the mutex taken again.
JobDone ==
    /\ sched = "working"
    /\ sched' = "deciding"
    /\ job' = job + 1
    /\ UNCHANGED <<running, config, today, checkedDay, signalled, main>>

\* pthread_cond_timedwait, whatever happened to `running` since the round began.
Wait ==
    /\ sched = "deciding" /\ job > Len(Jobs)
    /\ sched' = "waiting"
    /\ signalled' = FALSE
    /\ UNCHANGED <<running, config, job, today, checkedDay, main>>

\* Slip: a wait without a deadline.
Wake_NoTimeout ==
    /\ sched = "waiting"
    /\ signalled
    /\ IF running THEN sched' = "deciding" /\ job' = 1
                  ELSE sched' = "gone" /\ UNCHANGED job
    /\ UNCHANGED <<running, config, today, checkedDay, signalled, main>>

\* Signalled or after 30 seconds: another round, or the end of the thread.
Wake ==
    /\ sched = "waiting"
    /\ IF running THEN sched' = "deciding" /\ job' = 1
                  ELSE sched' = "gone" /\ UNCHANGED job
    /\ UNCHANGED <<running, config, today, checkedDay, signalled, main>>

Round == RunJob \/ PassOver \/ JobDone \/ Wait \/ Wake

SchedNext ==
    \/ SchedStart \/ SchedStop \/ SchedJoin \/ DayPasses
    \/ \E c \in Configs : SetConfig(c)
    \/ Round

\* A job ends (its network calls have timeouts), a timed wait ends, and main
\* goes on once the thread is gone.
SchedSpec == SchedInit /\ [][SchedNext]_schedVars /\ WF_schedVars(Round) /\ WF_schedVars(SchedJoin)

----------------------------------------------------------------------------
\* Shutting down ends: market_scheduler_stop joins a thread that may have been
\* in the middle of a job, where its signal is lost; the thread then sits out a
\* whole timed wait before it looks at the flag again.
StopReturns == main = "joining" ~> main = "returned"

=============================================================================
