----------------------------- MODULE MCLiveness -----------------------------
(***************************************************************************)
(* The activities of the server that must come to an end: the tasks of the *)
(* summary pool and the saving of its settings, the shutdown of the market *)
(* scheduler, and a run of the AI loop.  They share no state; the first    *)
(* state picks one.                                                        *)
(***************************************************************************)
EXTENDS SummaryPool, MarketScheduler

VARIABLES part,
    pc, cancelled, stats, attempt, batch, msgs, seenHashes, text, thought, saved,
    result, verdict, freq, ran

Loop   == INSTANCE AiLoop WITH ToolCalls <- {"search", "buy"}, Parallel <- {"search"},
              MaxBatch <- 2, MaxPieces <- 1, MaxTurns <- 1, TokenBudget <- 2, ToolBudget <- 2,
              DupSlots <- 1, MaxFrequency <- 1

poolVars == vars
loopVars == <<pc, cancelled, stats, attempt, batch, msgs, seenHashes, text, thought, saved,
              result, verdict, freq, ran>>
allVars  == <<part, poolVars, schedVars, loopVars>>

OnPool(A)   == part = "summary" /\ A /\ UNCHANGED <<part, schedVars, loopVars>>
OnMarket(A) == part = "market"  /\ A /\ UNCHANGED <<part, poolVars, loopVars>>
OnLoop(A)   == part = "loop"    /\ A /\ UNCHANGED <<part, poolVars, schedVars>>

\* The server has come down, the run is over.
Ended == \/ part = "market" /\ main = "returned" /\ UNCHANGED allVars
         \/ part = "loop" /\ pc = "ended" /\ UNCHANGED allVars

LiveInit == part \in {"summary", "market", "loop"}
              /\ Init /\ SchedInit /\ Loop!LoopInit

LiveNext ==
    \/ \E r \in Requests : OnPool(Visit(r)) \/ OnPool(Stop(r)) \/ OnPool(Proceed(r))
    \/ \E t \in Thread : OnPool(Work(t)) \/ OnPool(SpuriousWake(t)) \/ OnPool(Hang(t))
    \/ OnMarket(SchedNext)
    \/ OnLoop(Loop!LoopNext)
    \/ Ended

\* What the specifications assume, each of its own threads.
LiveFairness ==
    /\ \A r \in Requests : WF_allVars(OnPool(Proceed(r)))
    /\ \A t \in Thread : WF_allVars(OnPool(Work(t)))
    /\ WF_allVars(OnMarket(Round)) /\ WF_allVars(OnMarket(SchedJoin))
    /\ WF_allVars(OnLoop(Loop!LoopStep))

LiveSpec == LiveInit /\ [][LiveNext]_allVars /\ LiveFairness

\* The property of the loop, under its own name.
RunEnds == Loop!RunEnds
=============================================================================
