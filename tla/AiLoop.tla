------------------------------- MODULE AiLoop -------------------------------
(***************************************************************************)
(* One run of the assistant (ai/runtime/loop.c): turns of a model call and *)
(* the tool calls it asks for, under budgets, until the model answers.     *)
(* Tools pass two gates: the policy evaluation of the loop, which counts   *)
(* the call, and the one of the dispatcher, which only looks.              *)
(*                                                                         *)
(* A text is the sequence of the pieces the model streamed, a piece the    *)
(* number of its model call; what a tool returns is left out.  Of the id   *)
(* of a call it matters whether it is longer than the 63 bytes the         *)
(* parallel branch has room for.                                           *)
(***************************************************************************)
EXTENDS Naturals, Sequences, FiniteSets

CONSTANTS
    ToolCalls,    \* what the model may ask for: a tool and its arguments
    Parallel,     \* those of the two stateless network tools
    MaxBatch,     \* bound on the calls of one answer
    MaxPieces,    \* bound on the pieces one answer is streamed in
    MaxTurns,     \* limits.max_iterations
    TokenBudget,  \* limits.token_budget, in model calls
    ToolBudget,   \* limits.tool_budget
    DupSlots,     \* LOOP_DUP_CALL_SLOTS
    MaxFrequency  \* max_frequency_per_minute

ASSUME LoopAssumption ==
    {MaxBatch, MaxPieces, MaxTurns, TokenBudget, ToolBudget, DupSlots, MaxFrequency} \subseteq Nat

VARIABLES
    pc,         \* where the run is
    cancelled,  \* *cancel_token: the client went away
    stats,      \* turns done, model calls paid for, tool calls executed
    attempt,    \* retries of the model call under way
    batch,      \* calls of the current answer, with what became of each
    msgs,       \* the roles and tool_call_ids of the conversation
    seenHashes,       \* seen_hashes
    text,       \* accumulated: pieces of the current turn
    thought,    \* thinking was streamed
    saved,      \* assistant messages handed to mf_ai_message_insert, which may
                \* fail: nothing depends on it
    result,     \* status, got_text, model_call_failed
    verdict,    \* terminal callbacks: "done", "error"
    freq,       \* calls of this user counted in this minute
    ran         \* calls whose tool was executed

loopVars == <<pc, cancelled, stats, attempt, batch, msgs, seenHashes, text, thought,
              saved, result, verdict, freq, ran>>

LoopInit ==
    /\ pc = "start"
    /\ cancelled = FALSE
    /\ stats = [turns |-> 0, tokens |-> 0, tools |-> 0]
    /\ attempt = 0
    /\ batch = << >>
    /\ msgs = << >>
    /\ seenHashes = {}
    /\ text = << >>
    /\ thought = FALSE
    /\ saved = << >>
    /\ result = [status |-> "OK", gotText |-> FALSE, failed |-> FALSE]
    /\ verdict = << >>
    /\ freq = 0
    /\ ran = << >>

Goto(l) == pc' = l
Status(s) == result' = [result EXCEPT !.status = s]

----------------------------------------------------------------------------
(* Around the turns *)

\* Validation, provider and driver; an error ends the run at once.
Begin ==
    /\ pc = "start"
    /\ \/ ~cancelled /\ Goto("turn") /\ UNCHANGED <<result, verdict>>
       \/ /\ Goto("ended")
          /\ Status(IF cancelled THEN "CANCELLED" ELSE "MODEL")
          /\ verdict' = Append(verdict, "error")
    /\ UNCHANGED <<cancelled, stats, attempt, batch, msgs, seenHashes, text, thought, saved,
                   freq, ran>>

\* ai_runtime_limits_check_pre_turn.  The time may be up, or the money spent, at
\* any turn.
PreTurnStatuses ==
    IF cancelled THEN {"CANCELLED"}
    ELSE {"TIMEOUT", "CONTEXT_OVERFLOW"}
         \union IF stats.tokens < TokenBudget THEN {"OK"} ELSE {}

PreTurn ==
    /\ pc = "turn"
    /\ IF stats.turns >= MaxTurns
       THEN Goto("after") /\ UNCHANGED <<result, text>>
       ELSE \E s \in PreTurnStatuses :
            /\ Status(s)
            /\ IF s = "OK" THEN Goto("chat") /\ text' = << >>
                           ELSE Goto("after") /\ UNCHANGED text
    /\ attempt' = 0
    /\ UNCHANGED <<cancelled, stats, batch, msgs, seenHashes, thought, saved, verdict,
                   freq, ran>>

\* The model streams, in the call of a turn or in the closing one.  A piece is
\* kept and forwarded, unless the client was gone before it came.
Stream ==
    /\ pc \in {"chat", "wrap"} /\ ~cancelled
    /\ \/ Len(text) < MaxPieces /\ text' = Append(text, stats.tokens) /\ UNCHANGED thought
       \/ ~thought /\ thought' = TRUE /\ UNCHANGED text
    /\ UNCHANGED <<pc, cancelled, stats, attempt, batch, msgs, seenHashes, saved, result,
                   verdict, freq, ran>>

\* The call never returns: MINEFOLIO_AI_HTTP_TIMEOUT_MS is 0, or the driver is
\* the one that knows no timeout.
Hang ==
    /\ pc \in {"chat", "wrap"}
    /\ Goto("hung")
    /\ UNCHANGED <<cancelled, stats, attempt, batch, msgs, seenHashes, text, thought, saved,
                   result, verdict, freq, ran>>

\* A transient error with nothing streamed: twice more, after a pause.
RetryChat ==
    /\ pc = "chat"
    /\ attempt < 2 /\ text = << >> /\ ~cancelled
    /\ attempt' = attempt + 1
    /\ UNCHANGED <<pc, cancelled, stats, batch, msgs, seenHashes, text, thought, saved, result,
                   verdict, freq, ran>>

\* Any other error, or one too many; cancellation is looked at first.
ChatFails ==
    /\ pc = "chat"
    /\ Goto("after")
    /\ \/ cancelled /\ Status("CANCELLED")
       \/ /\ ~cancelled
          /\ \E s \in {"MODEL", "TIMEOUT"} :
                result' = [result EXCEPT !.status = s, !.failed = TRUE]
    /\ UNCHANGED <<cancelled, stats, attempt, batch, msgs, seenHashes, text, thought, saved,
                   verdict, freq, ran>>

Save(t) == saved' = Append(saved, t)

Answering == /\ pc = "chat"
             /\ stats' = [stats EXCEPT !.tokens = @ + 1]

\* The answer was cut short, which keeps what came before, or holds no tool call:
\* it is the final one.
ChatAnswers ==
    /\ Answering
    /\ IF cancelled
       THEN Status("CANCELLED") /\ Goto("after") /\ UNCHANGED saved
       ELSE /\ result' = [result EXCEPT !.status = "OK", !.gotText = TRUE]
            /\ IF text # << >> \/ thought THEN Save(text) ELSE UNCHANGED saved
            /\ Goto("finish")
    /\ UNCHANGED <<cancelled, attempt, batch, msgs, seenHashes, text, thought, verdict,
                   freq, ran>>

\* The ids of one answer are all long, or all short.
CallId(n, long) == [no |-> <<stats.turns, n>>, long |-> long, cut |-> FALSE]
BatchEntry(c, n, long) == [call |-> c, id |-> CallId(n, long), outcome |-> "open"]

\* Slip: the budget is compared before the calls of this answer are added.
ChatAsks_BudgetOfPast ==
    /\ ~cancelled
    /\ Answering
    /\ \E n \in 1 .. MaxBatch, long \in BOOLEAN : \E calls \in [1 .. n -> ToolCalls] :
          IF stats.tools >= ToolBudget
          THEN Status("TOOL") /\ Goto("after") /\ UNCHANGED <<batch, msgs>>
          ELSE /\ batch' = [i \in 1 .. n |-> BatchEntry(calls[i], i, long)]
               /\ msgs' = Append(msgs, [role |-> "assistant",
                                        ids |-> [i \in 1 .. n |-> batch'[i].id]])
               /\ Goto("serial")
               /\ UNCHANGED result
    /\ UNCHANGED <<cancelled, attempt, seenHashes, text, thought, saved, verdict, freq, ran>>

\* It asks for tools.  Two to eight calls of network tools run in parallel.
ChatAsks ==
    /\ ~cancelled
    /\ Answering
    /\ \E n \in 1 .. MaxBatch, long \in BOOLEAN : \E calls \in [1 .. n -> ToolCalls] :
          IF stats.tools + n > ToolBudget
          THEN Status("TOOL") /\ Goto("after") /\ UNCHANGED <<batch, msgs>>
          ELSE /\ batch' = [i \in 1 .. n |-> BatchEntry(calls[i], i, long)]
               /\ msgs' = Append(msgs, [role |-> "assistant",
                                        ids |-> [i \in 1 .. n |-> batch'[i].id]])
               /\ Goto(IF n \in 2 .. 8 /\ \A i \in 1 .. n : calls[i] \in Parallel
                       THEN "evaluate" ELSE "serial")
               /\ UNCHANGED result
    /\ UNCHANGED <<cancelled, attempt, seenHashes, text, thought, saved, verdict, freq, ran>>

----------------------------------------------------------------------------
(* The gates *)

\* The calls whose outcome is known.
Settled == {i \in DOMAIN batch : batch[i].outcome # "open"}
Current == Cardinality(Settled) + 1

Outcome(i, o) == batch' = [batch EXCEPT ![i].outcome = o]

\* Slip: network tools may be asked twice.
Remember_OnlySerial(c) == seenHashes' = IF c \in Parallel THEN seenHashes ELSE seenHashes \union {c}

\* seen_hashes takes no more than DupSlots entries.
Remember(c) == seenHashes' = IF Cardinality(seenHashes) < DupSlots THEN seenHashes \union {c} ELSE seenHashes

\* ai_policy_evaluate counts the call unless a role or the frequency forbids it;
\* an amount may forbid it later.  What is allowed may be a duplicate, need the
\* user's confirmation, or be on its way.
Evaluate(i) ==
    \/ freq' = freq /\ Outcome(i, "denied") /\ UNCHANGED seenHashes
    \/ /\ freq < MaxFrequency /\ freq' = freq + 1
       /\ \/ Outcome(i, "denied") /\ UNCHANGED seenHashes
          \/ /\ batch[i].call \in seenHashes
             /\ Outcome(i, "duplicate") /\ UNCHANGED seenHashes
          \/ /\ batch[i].call \notin seenHashes /\ batch[i].call \notin Parallel
             /\ Outcome(i, "unconfirmed") /\ UNCHANGED seenHashes
          \/ /\ batch[i].call \notin seenHashes
             /\ Outcome(i, "go")
             /\ Remember(batch[i].call)

\* ai_tool_dispatch_parsed: schema and validation, then the policy once more,
\* without counting; then the tool.
Dispatch(c) ==
    \/ UNCHANGED ran
    \/ freq < MaxFrequency /\ ran' = Append(ran, c)

ToolMessage(i) == [role |-> "tool", ids |-> <<batch[i].id>>]

\* The parallel branch copies the id into an array of 64 bytes.
Cut(id) == [id EXCEPT !.cut = id.long]
ShortMessage(i) == [role |-> "tool", ids |-> <<Cut(batch[i].id)>>]

----------------------------------------------------------------------------
(* A batch, one call after the other *)

SerialGate ==
    /\ pc = "serial"
    /\ Current \in DOMAIN batch
    /\ Evaluate(Current)
    /\ IF batch'[Current].outcome = "go"
       THEN Goto("dispatch") /\ UNCHANGED msgs
       ELSE msgs' = Append(msgs, ToolMessage(Current)) /\ UNCHANGED pc
    /\ UNCHANGED <<cancelled, stats, attempt, text, thought, saved, result, verdict, ran>>

SerialRun ==
    /\ pc = "dispatch"
    /\ LET i == Current - 1 IN
       /\ Dispatch(batch[i].call)
       /\ msgs' = Append(msgs, ToolMessage(i))
    /\ stats' = [stats EXCEPT !.tools = @ + 1]
    /\ Goto("serial")
    /\ UNCHANGED <<cancelled, attempt, batch, seenHashes, text, thought, saved, result, verdict, freq>>

EndTurn ==
    /\ pc = "serial" /\ Current \notin DOMAIN batch
    /\ stats' = [stats EXCEPT !.turns = @ + 1]
    /\ batch' = << >>
    /\ Goto("turn")
    /\ UNCHANGED <<cancelled, attempt, msgs, seenHashes, text, thought, saved, result, verdict,
                   freq, ran>>

----------------------------------------------------------------------------
(* A batch in parallel: evaluated in order, run by threads, gathered in order *)

ParallelGate ==
    /\ pc = "evaluate"
    /\ IF Current \in DOMAIN batch
       THEN Evaluate(Current) /\ UNCHANGED pc
       ELSE Goto("workers") /\ UNCHANGED <<batch, seenHashes, freq>>
    /\ UNCHANGED <<cancelled, stats, attempt, msgs, text, thought, saved, result, verdict,
                   ran>>

Worker(i) ==
    /\ pc = "workers"
    /\ batch[i].outcome = "go"
    /\ Dispatch(batch[i].call)
    /\ Outcome(i, "ran")
    /\ UNCHANGED <<pc, cancelled, stats, attempt, msgs, seenHashes, text, thought, saved, result,
                   verdict, freq>>

\* Slip: a call that was not executed gets no message.
Gather_OnlyRun ==
    /\ pc = "workers"
    /\ \A i \in DOMAIN batch : batch[i].outcome # "go"
    /\ stats' = [turns  |-> stats.turns + 1, tokens |-> stats.tokens,
                 tools  |-> stats.tools + Cardinality({i \in DOMAIN batch :
                                                          batch[i].outcome = "ran"})]
    /\ msgs' = msgs \o [i \in 1 .. Cardinality({j \in DOMAIN batch : batch[j].outcome = "ran"})
                           |-> ShortMessage(i)]
    /\ batch' = << >>
    /\ Goto("turn")
    /\ UNCHANGED <<cancelled, attempt, seenHashes, text, thought, saved, result, verdict,
                   freq, ran>>

\* Slip: the threads of refused calls are waited for as well.
Gather_WaitsForAll ==
    /\ pc = "workers"
    /\ \A i \in DOMAIN batch : batch[i].outcome = "ran"
    /\ stats' = [turns  |-> stats.turns + 1, tokens |-> stats.tokens,
                 tools  |-> stats.tools + Len(batch)]
    /\ msgs' = msgs \o [i \in DOMAIN batch |-> ShortMessage(i)]
    /\ batch' = << >>
    /\ Goto("turn")
    /\ UNCHANGED <<cancelled, attempt, seenHashes, text, thought, saved, result, verdict,
                   freq, ran>>

\* Every thread is joined before the first result is looked at.
Gather ==
    /\ pc = "workers"
    /\ \A i \in DOMAIN batch : batch[i].outcome # "go"
    /\ stats' = [turns  |-> stats.turns + 1, tokens |-> stats.tokens,
                 tools  |-> stats.tools + Cardinality({i \in DOMAIN batch :
                                                          batch[i].outcome = "ran"})]
    /\ msgs' = msgs \o [i \in DOMAIN batch |-> ShortMessage(i)]
    /\ batch' = << >>
    /\ Goto("turn")
    /\ UNCHANGED <<cancelled, attempt, seenHashes, text, thought, saved, result, verdict,
                   freq, ran>>

----------------------------------------------------------------------------
(* The end *)

\* No text and no error: the turns are used up.  A run that ended for want of
\* budget gets one more call, without tools.
After ==
    /\ pc = "after"
    /\ LET s == IF result.status = "OK" THEN "TIMEOUT" ELSE result.status
           wrap == /\ ~result.failed /\ ~cancelled
                   /\ s \in {"TIMEOUT", "TOOL", "CONTEXT_OVERFLOW"} IN
       /\ Status(s)
       /\ IF wrap THEN Goto("wrap") /\ text' = << >> ELSE Goto("finish") /\ UNCHANGED text
    /\ UNCHANGED <<cancelled, stats, attempt, batch, msgs, seenHashes, thought, saved, verdict,
                   freq, ran>>

\* Whether the client is still there is not looked at any more: the answer may
\* hold what came after it had left.
WrapUp ==
    /\ pc = "wrap"
    /\ \/ \E t \in {text, Append(text, stats.tokens)} :
          /\ t # << >> /\ (t # text => cancelled)
          /\ Save(t)
          /\ result' = [result EXCEPT !.status = "OK", !.gotText = TRUE]
       \/ UNCHANGED <<saved, result>>
    /\ stats' = [stats EXCEPT !.tokens = @ + 1]
    /\ Goto("finish")
    /\ UNCHANGED <<cancelled, attempt, batch, msgs, seenHashes, text, thought, verdict, freq,
                   ran>>

\* Slip: the text is kept again after it was saved as the answer.
Finish_Again ==
    /\ pc = "finish"
    /\ IF text # << >> \/ thought THEN Save(text) ELSE UNCHANGED saved
    /\ verdict' = Append(verdict, IF result.status = "OK" THEN "done" ELSE "error")
    /\ Goto("ended")
    /\ UNCHANGED <<cancelled, stats, attempt, batch, msgs, seenHashes, text, thought, result,
                   freq, ran>>

\* What was streamed before an error is kept, then the client is told.
Finish ==
    /\ pc = "finish"
    /\ IF /\ ~result.gotText
          /\ text # << >> \/ thought
          /\ result.status = "MODEL" => text # << >>
       THEN Save(text) ELSE UNCHANGED saved
    /\ verdict' = Append(verdict, IF result.status = "OK" THEN "done" ELSE "error")
    /\ Goto("ended")
    /\ UNCHANGED <<cancelled, stats, attempt, batch, msgs, seenHashes, text, thought, result,
                   freq, ran>>

----------------------------------------------------------------------------
(* Around the run *)

\* A write to the client fails.
Cancel ==
    /\ ~cancelled /\ pc # "ended"
    /\ cancelled' = TRUE
    /\ UNCHANGED <<pc, stats, attempt, batch, msgs, seenHashes, text, thought, saved, result,
                   verdict, freq, ran>>

\* Another session of the same user calls a tool, or the minute is over.
Elsewhere ==
    /\ pc # "ended"
    /\ freq' \in ({freq + 1} \cap 0 .. MaxFrequency) \union {0}
    /\ UNCHANGED <<pc, cancelled, stats, attempt, batch, msgs, seenHashes, text, thought, saved,
                   result, verdict, ran>>

LoopStep ==
    \/ Begin \/ PreTurn \/ RetryChat \/ ChatFails \/ ChatAnswers \/ ChatAsks
    \/ SerialGate \/ SerialRun \/ EndTurn
    \/ ParallelGate \/ (\E i \in 1 .. MaxBatch : i \in DOMAIN batch /\ Worker(i)) \/ Gather
    \/ After \/ WrapUp \/ Finish

LoopNext == LoopStep \/ Stream \/ Hang \/ Cancel \/ Elsewhere

\* A model call that does not hang returns, and every tool does: they have
\* timeouts.
LoopSpec == LoopInit /\ [][LoopNext]_loopVars /\ WF_loopVars(LoopStep)

----------------------------------------------------------------------------
(* Properties *)

\* Message m answers the call id, one of n.
Answer(m, id, n) == m = [role |-> "tool", ids |-> <<id>>]
                    \/ (n > 1 /\ m = [role |-> "tool", ids |-> <<Cut(id)>>])

\* The conversation a model call sends is one the providers accept: each call
\* of an assistant message is answered by one tool message, with its id and in
\* its place, whatever became of the call (denied, duplicate, unconfirmed, run
\* by a thread that finished before or after the others).  Of an id of more than
\* 63 bytes only the head may come back, when the call was one of several.
EveryCallAnswered ==
    pc \in {"chat", "wrap"} =>
        \A i \in DOMAIN msgs : msgs[i].role = "assistant" =>
            LET n == Len(msgs[i].ids) IN
            /\ i + n <= Len(msgs)
            /\ \A k \in 1 .. n : Answer(msgs[i + k], msgs[i].ids[k], n)
            /\ i + n < Len(msgs) => msgs[i + n + 1].role = "assistant"

\* No call is executed twice in one run, unless the table of seen calls is full.
NoDoubleRun ==
    \A i, j \in DOMAIN ran : i # j /\ ran[i] = ran[j] => Cardinality(seenHashes) >= DupSlots

\* The budgets hold whatever the model asks for; the closing call is the only
\* one beyond them.
BudgetsHold ==
    /\ stats.tools <= ToolBudget
    /\ Len(ran) <= stats.tools + Cardinality(DOMAIN batch)
    /\ stats.turns <= MaxTurns
    /\ stats.tokens <= TokenBudget + 1

\* The client hears one verdict.  The session is given at most one answer, and
\* it is what the client was shown in the last call of the model, also when it
\* left in the middle of it (only of the closing call it may hold more than a
\* client saw that left); and nothing that was shown there is forgotten.
OneVerdict ==
    /\ Len(verdict) <= 1
    /\ (pc = "ended" <=> verdict # << >>)
    /\ Len(saved) <= 1
    /\ saved # << >> =>
          \/ saved[1] = text
          \/ cancelled /\ \E p \in 0 .. TokenBudget : saved[1] = Append(text, p)
    /\ pc = "ended" /\ text # << >> => saved # << >>

\* A run ends, whatever the tools and the client do, unless a call of the model
\* never returns.
RunEnds == pc # "start" ~> pc \in {"ended", "hung"}

=============================================================================
