-------------------------- MODULE AssistantProofs --------------------------
(***************************************************************************)
(* The AI assistant: that a run of the loop answers every call it was      *)
(* asked, once, within its budgets and with one verdict; that a snapshot   *)
(* of the configuration is freed exactly when nobody holds it any more;    *)
(* that requests work with the settings last reported as saved; and that a *)
(* workflow that fails compensates what had succeeded, the latest first.   *)
(***************************************************************************)
EXTENDS AiLoop, AiSettings, Workflow, FiniteSetTheorems, SequenceTheorems, TLAPS

-----------------------------------------------------------------------------
(* The loop, for any tools and any limits.                                   *)
Outcomes == {"open", "denied", "duplicate", "unconfirmed", "go", "ran"}
Ids == [no : Nat \X Nat, long : BOOLEAN, cut : BOOLEAN]
Entries == [call : ToolCalls, id : Ids, outcome : Outcomes]
Messages == [role : {"assistant", "tool"}, ids : Seq(Ids)]

LoopTypes ==
    /\ pc \in {"start", "turn", "chat", "serial", "dispatch", "evaluate", "workers",
               "after", "wrap", "hung", "finish", "ended"}
    /\ stats \in [turns : Nat, tokens : Nat, tools : Nat]
    /\ batch \in Seq(Entries)
    /\ msgs \in Seq(Messages)
    /\ seenHashes \in SUBSET ToolCalls /\ IsFiniteSet(seenHashes)
    /\ ran \in Seq(ToolCalls)

Busy == {"serial", "dispatch", "evaluate", "workers"}

(* A batch is there while it is worked on; its calls get their outcomes in   *)
(* order, only a thread makes "ran" of one, and only several run in threads. *)
InOrder ==
    /\ Current \in 1 .. (Len(batch) + 1)
    /\ Settled = 1 .. (Current - 1)
    /\ pc \notin Busy => batch = << >>
    /\ pc = "dispatch" => Current # 1
    /\ pc # "workers" => \A i \in DOMAIN batch : batch[i].outcome # "ran"
    /\ pc \in {"evaluate", "workers"} => Len(batch) > 1

(* What may still be counted as a call of the batch is within the budget.    *)
RanNow == {i \in DOMAIN batch : batch[i].outcome = "ran"}
WithinBudgets ==
    /\ stats.turns <= MaxTurns
    /\ pc \in Busy \cup {"chat"} => stats.turns < MaxTurns
    /\ stats.tokens <= TokenBudget + 1
    /\ pc \notin {"finish", "ended"} => stats.tokens <= TokenBudget
    /\ pc = "chat" => stats.tokens < TokenBudget
    /\ stats.tools <= ToolBudget
    /\ pc \in {"evaluate", "workers"} => stats.tools + Len(batch) <= ToolBudget
    /\ pc = "serial" => stats.tools + Len(batch) <= ToolBudget + (Current - 1)
    /\ pc = "dispatch" => stats.tools + Len(batch) + 2 <= ToolBudget + Current
    /\ Len(ran) <= stats.tools + Cardinality(RanNow)

(* As long as the table has room: what ran is in it, once; what is about to  *)
(* run is in it and has not run yet.                                         *)
Going == CASE pc = "dispatch"                 -> {Current - 1}
           [] pc \in {"evaluate", "workers"}  -> {i \in DOMAIN batch : batch[i].outcome = "go"}
           [] OTHER                           -> {}
OnceEach ==
    Cardinality(seenHashes) < DupSlots =>
        /\ \A i, j \in DOMAIN ran : ran[i] = ran[j] => i = j
        /\ \A i \in DOMAIN ran : ran[i] \in seenHashes
        /\ \A i \in Going : /\ batch[i].call \in seenHashes
                            /\ \A j \in DOMAIN ran : ran[j] # batch[i].call
        /\ \A i, j \in Going : batch[i].call = batch[j].call => i = j

(* The first l messages are complete; those from p on are the request for a  *)
(* batch and its answers up to the call a.                                   *)
Complete(ms, l) ==
    \A i \in 1 .. l : ms[i].role = "assistant" =>
        LET n == Len(ms[i].ids) IN
        /\ i + n <= l
        /\ \A k \in 1 .. n : Answer(ms[i + k], ms[i].ids[k], n)
        /\ i + n < l => ms[i + n + 1].role = "assistant"
AnsweredUpTo(ms, b, p, a) ==
    /\ p \in 1 .. Len(ms) /\ Len(ms) = p + a
    /\ Complete(ms, p - 1)
    /\ ms[p].role = "assistant"
    /\ Len(ms[p].ids) = Len(b)
    /\ \A i \in 1 .. Len(b) : ms[p].ids[i] = b[i].id
    /\ \A k \in 1 .. a : Answer(ms[p + k], b[k].id, Len(b))
Answers == CASE pc = "serial" -> Current - 1 [] pc = "dispatch" -> Current - 2 [] OTHER -> 0
Conversation ==
    IF pc \in Busy THEN \E p \in DOMAIN msgs : AnsweredUpTo(msgs, batch, p, Answers)
                   ELSE Complete(msgs, Len(msgs))

(* The verdict comes with the end, and what is kept is the text of the end,   *)
(* of the closing call perhaps with what came after the client had left.      *)
Results == [status : {"OK", "MODEL", "CANCELLED", "TIMEOUT", "TOOL", "CONTEXT_OVERFLOW"},
            gotText : BOOLEAN, failed : BOOLEAN]
Kept == \/ saved = << >> \/ saved = <<text>>
        \/ cancelled /\ \E p \in 0 .. TokenBudget : saved = <<Append(text, p)>>
Verdict ==
    /\ result \in Results /\ text \in Seq(Nat)
    /\ pc = "start" => text = << >>
    /\ IF pc = "ended" THEN Len(verdict) = 1 ELSE verdict = << >>
    /\ IF pc \in {"finish", "ended"} THEN Kept ELSE saved = << >> /\ ~ result.gotText
    /\ pc = "finish" /\ ~ result.gotText => saved = << >>
    /\ pc = "finish" /\ result.gotText /\ text # << >> => saved # << >>
    /\ pc = "ended" /\ text # << >> => saved # << >>

LoopInv == LoopTypes /\ InOrder /\ WithinBudgets /\ OnceEach /\ Conversation /\ Verdict
-----------------------------------------------------------------------------
LEMMA CountTo == \A k \in Nat : IsFiniteSet(1 .. k) /\ Cardinality(1 .. k) = k
  BY FS_Interval

LEMMA RanFinite == LoopTypes => IsFiniteSet(RanNow) /\ Cardinality(RanNow) \in 0 .. Len(batch)
  <1> SUFFICES ASSUME LoopTypes PROVE IsFiniteSet(RanNow) /\ Cardinality(RanNow) \in 0 .. Len(batch)
    OBVIOUS
  <1>1. Len(batch) \in Nat /\ DOMAIN batch = 1 .. Len(batch)
    BY DEF LoopTypes
  <1>2. IsFiniteSet(DOMAIN batch) /\ Cardinality(DOMAIN batch) = Len(batch)
    BY <1>1, CountTo
  <1>3. RanNow \subseteq DOMAIN batch
    BY DEF RanNow
  <1>4. IsFiniteSet(RanNow) /\ Cardinality(RanNow) <= Cardinality(DOMAIN batch)
    BY <1>2, <1>3, FS_Subset
  <1>5. Cardinality(RanNow) \in Nat
    BY <1>4, FS_CardinalityType
  <1> QED BY <1>1, <1>2, <1>4, <1>5

LEMMA AppendTyped ==
  ASSUME NEW S, NEW s \in Seq(S), NEW e \in S
  PROVE  /\ Append(s, e) \in Seq(S) /\ Len(Append(s, e)) = Len(s) + 1
         /\ Append(s, e)[Len(s) + 1] = e
         /\ \A i \in DOMAIN s : Append(s, e)[i] = s[i]
  BY AppendProperties

LEMMA ConcatTyped ==
  ASSUME NEW S, NEW s \in Seq(S), NEW t \in Seq(S)
  PROVE  /\ s \o t \in Seq(S) /\ Len(s \o t) = Len(s) + Len(t)
         /\ \A i \in 1 .. Len(s) : (s \o t)[i] = s[i]
         /\ \A k \in 1 .. Len(t) : (s \o t)[Len(s) + k] = t[k]
  BY ConcatProperties

LEMMA EntryTyped ==
  ASSUME LoopTypes, NEW i \in DOMAIN batch
  PROVE  batch[i] \in Entries /\ batch[i].call \in ToolCalls
  <1>1. batch[i] \in Entries
    BY DEF LoopTypes
  <1> QED BY <1>1 DEF Entries

(* One call of the batch gets its outcome.                                   *)
LEMMA OutcomeSet ==
  ASSUME LoopTypes, NEW i \in DOMAIN batch, NEW o \in Outcomes, Outcome(i, o)
  PROVE  /\ batch' \in Seq(Entries) /\ Len(batch') = Len(batch)
         /\ DOMAIN batch' = DOMAIN batch
         /\ \A j \in DOMAIN batch :
               /\ batch'[j].call = batch[j].call /\ batch'[j].id = batch[j].id
               /\ batch'[j].outcome = IF j = i THEN o ELSE batch[j].outcome
  <1> DEFINE e == [batch[i] EXCEPT !.outcome = o]
  <1>1. batch \in Seq(Entries) /\ batch[i] \in Entries /\ i \in 1 .. Len(batch)
    BY DEF LoopTypes
  <1>2. e \in Entries /\ e.call = batch[i].call /\ e.id = batch[i].id /\ e.outcome = o
    BY <1>1 DEF Entries
  <1>3. batch' = [batch EXCEPT ![i] = e]
    BY DEF Outcome
  <1> HIDE DEF e
  <1>4. batch' \in Seq(Entries) /\ Len(batch') = Len(batch) /\ DOMAIN batch' = DOMAIN batch
    BY <1>1, <1>2, <1>3
  <1>5. ASSUME NEW j \in DOMAIN batch
        PROVE  /\ batch'[j].call = batch[j].call /\ batch'[j].id = batch[j].id
               /\ batch'[j].outcome = IF j = i THEN o ELSE batch[j].outcome
    BY <1>1, <1>2, <1>3
  <1> QED BY <1>4, <1>5

(* The next call of the batch gets its outcome.                              *)
LEMMA NextSettled ==
  ASSUME LoopTypes, InOrder, Current \in DOMAIN batch,
         NEW o \in Outcomes \ {"open"}, Outcome(Current, o)
  PROVE  Current' = Current + 1 /\ Settled' = 1 .. Current /\ Current \in Nat \ {0}
  <1>1. /\ Current \in Nat \ {0} /\ Current \in 1 .. Len(batch) /\ Len(batch) \in Nat
        /\ Settled = 1 .. (Current - 1)
    BY DEF LoopTypes, InOrder
  <1>2. /\ DOMAIN batch' = DOMAIN batch
        /\ \A j \in DOMAIN batch :
               batch'[j].outcome = IF j = Current THEN o ELSE batch[j].outcome
    BY OutcomeSet
  <1>3. Settled' = Settled \cup {Current}
    BY <1>1, <1>2 DEF Settled
  <1>4. Settled' = 1 .. Current
    BY <1>1, <1>3
  <1>5. Current' = Current + 1
    BY <1>1, <1>4, CountTo DEF Current
  <1> QED BY <1>1, <1>4, <1>5

(* A batch whose calls are all open, and no batch.                           *)
LEMMA NoneSettled ==
  ASSUME \A i \in DOMAIN batch : batch[i].outcome = "open"
  PROVE  Settled = {} /\ Current = 1
  <1>1. Settled = {}
    BY DEF Settled
  <1> QED BY <1>1, FS_EmptySet DEF Current

LEMMA NoneSettledNext ==
  ASSUME \A i \in DOMAIN batch' : batch'[i].outcome = "open"
  PROVE  Settled' = {} /\ Current' = 1
  <1>1. Settled' = {}
    BY DEF Settled
  <1> QED BY <1>1, FS_EmptySet DEF Current

(* What an evaluation does: the call gets an outcome, and is remembered if   *)
(* it goes.                                                                  *)
LEMMA Evaluated ==
  ASSUME LoopTypes, NEW i \in DOMAIN batch, Evaluate(i)
  PROVE  /\ \E o \in Outcomes \ {"open", "ran"} : Outcome(i, o)
         /\ seenHashes' \in SUBSET ToolCalls /\ IsFiniteSet(seenHashes')
         /\ \/ seenHashes' = seenHashes /\ ~ Outcome(i, "go")
            \/ /\ batch[i].call \notin seenHashes /\ Remember(batch[i].call) /\ Outcome(i, "go")
  <1>1. batch[i].call \in ToolCalls
    BY EntryTyped
  <1>2. seenHashes \in SUBSET ToolCalls /\ IsFiniteSet(seenHashes)
    BY DEF LoopTypes
  <1>3. ASSUME NEW o \in {"denied", "duplicate", "unconfirmed"}, Outcome(i, o)
        PROVE  ~ Outcome(i, "go")
    <2>1. batch'[i].outcome = o
      BY <1>3, OutcomeSet DEF Outcomes
    <2>2. ASSUME Outcome(i, "go") PROVE batch'[i].outcome = "go"
      BY <2>2, OutcomeSet DEF Outcomes
    <2> QED BY <2>1, <2>2
  <1>4. CASE batch[i].call \notin seenHashes /\ Remember(batch[i].call) /\ Outcome(i, "go")
    BY <1>1, <1>2, <1>4, FS_AddElement DEF Remember, Outcomes
  <1>5. CASE \E o \in {"denied", "duplicate", "unconfirmed"} : Outcome(i, o) /\ UNCHANGED seenHashes
    BY <1>2, <1>3, <1>5 DEF Outcomes
  <1>6. \/ batch[i].call \notin seenHashes /\ Remember(batch[i].call) /\ Outcome(i, "go")
        \/ \E o \in {"denied", "duplicate", "unconfirmed"} : Outcome(i, o) /\ UNCHANGED seenHashes
    BY DEF Evaluate
  <1> QED BY <1>4, <1>5, <1>6
-----------------------------------------------------------------------------
LEMMA LoopStart == LoopInit => LoopInv
  <1> SUFFICES ASSUME LoopInit PROVE LoopInv
    OBVIOUS
  <1> USE DEF LoopInit
  <1>1. IsFiniteSet({}) /\ Cardinality({}) = 0
    BY FS_EmptySet
  <1>2. LoopTypes
    BY <1>1 DEF LoopTypes
  <1>3. Settled = {} /\ Current = 1
    BY NoneSettled
  <1>4. InOrder
    BY <1>3 DEF InOrder, Busy
  <1>5. WithinBudgets
    <2>1. RanNow = {}
      BY DEF RanNow
    <2> QED BY <1>1, <2>1, LoopAssumption DEF WithinBudgets, Busy
  <1>6. OnceEach
    BY DEF OnceEach, Going
  <1>7. Conversation
    BY DEF Conversation, Complete, Busy
  <1>8. Verdict
    BY DEF Verdict, Results
  <1> QED BY <1>2, <1>4, <1>5, <1>6, <1>7, <1>8 DEF LoopInv

(* The steps at which no batch is under way, before and after.               *)
Quiet == \/ Begin \/ PreTurn \/ Stream \/ Hang \/ RetryChat \/ ChatFails \/ ChatAnswers
         \/ After \/ WrapUp \/ Finish

LEMMA QuietSteps ==
  ASSUME LoopTypes, Quiet
  PROVE  /\ pc \notin Busy /\ pc' \notin Busy
         /\ UNCHANGED <<batch, msgs, seenHashes, ran>>
         /\ stats'.tools = stats.tools /\ stats'.turns = stats.turns
         /\ stats' \in [turns : Nat, tokens : Nat, tools : Nat]
         /\ pc' \in {"turn", "chat", "after", "wrap", "hung", "finish", "ended"}
  <1> USE DEF Goto, Busy, LoopTypes
  <1>1. CASE Begin
    BY <1>1 DEF Begin
  <1>2. CASE PreTurn
    BY <1>2 DEF PreTurn
  <1>3. CASE RetryChat
    BY <1>3 DEF RetryChat
  <1>4. CASE ChatFails
    BY <1>4 DEF ChatFails
  <1>5. CASE ChatAnswers
    <2>1. /\ pc = "chat" /\ stats' = [stats EXCEPT !.tokens = @ + 1]
          /\ UNCHANGED <<batch, msgs, seenHashes, ran>>
      BY <1>5 DEF ChatAnswers, Answering
    <2>2. pc' \in {"after", "finish"}
      BY <1>5 DEF ChatAnswers
    <2> QED BY <2>1, <2>2
  <1>6. CASE After
    BY <1>6 DEF After
  <1>7. CASE WrapUp
    BY <1>7 DEF WrapUp
  <1>8. CASE Finish
    BY <1>8 DEF Finish
  <1>9. CASE Stream \/ Hang
    BY <1>9 DEF Stream, Hang
  <1> QED BY <1>1, <1>2, <1>3, <1>4, <1>5, <1>6, <1>7, <1>8, <1>9 DEF Quiet

(* The model asks for tools: a batch of open calls, and its message.         *)
LEMMA Asked ==
  ASSUME LoopTypes, ChatAsks
  PROVE  /\ pc = "chat" /\ UNCHANGED <<seenHashes, ran, saved, verdict>>
         /\ stats' = [stats EXCEPT !.tokens = @ + 1]
         /\ \/ pc' = "after" /\ UNCHANGED <<batch, msgs>>
            \/ /\ pc' \in {"serial", "evaluate"}
               /\ batch' \in Seq(Entries) /\ batch' # << >>
               /\ \A i \in DOMAIN batch' : batch'[i].outcome = "open"
               /\ stats.tools + Len(batch') <= ToolBudget
               /\ pc' = "evaluate" => Len(batch') > 1
               /\ \E m \in Messages :
                    /\ msgs' = Append(msgs, m)
                    /\ m.role = "assistant" /\ Len(m.ids) = Len(batch')
                    /\ \A i \in DOMAIN batch' : m.ids[i] = batch'[i].id
  <1>1. /\ pc = "chat" /\ UNCHANGED <<seenHashes, ran, saved, verdict>>
        /\ stats' = [stats EXCEPT !.tokens = @ + 1]
    BY DEF ChatAsks, Answering
  <1>2. PICK n \in 1 .. MaxBatch, long \in BOOLEAN : \E calls \in [1 .. n -> ToolCalls] :
          IF stats.tools + n > ToolBudget
          THEN Status("TOOL") /\ Goto("after") /\ UNCHANGED <<batch, msgs>>
          ELSE /\ batch' = [i \in 1 .. n |-> BatchEntry(calls[i], i, long)]
               /\ msgs' = Append(msgs, [role |-> "assistant",
                                        ids |-> [i \in 1 .. n |-> batch'[i].id]])
               /\ Goto(IF n \in 2 .. 8 /\ \A i \in 1 .. n : calls[i] \in Parallel
                       THEN "evaluate" ELSE "serial")
               /\ UNCHANGED result
    BY DEF ChatAsks
  <1>3. PICK calls \in [1 .. n -> ToolCalls] :
          IF stats.tools + n > ToolBudget
          THEN Status("TOOL") /\ Goto("after") /\ UNCHANGED <<batch, msgs>>
          ELSE /\ batch' = [i \in 1 .. n |-> BatchEntry(calls[i], i, long)]
               /\ msgs' = Append(msgs, [role |-> "assistant",
                                        ids |-> [i \in 1 .. n |-> batch'[i].id]])
               /\ Goto(IF n \in 2 .. 8 /\ \A i \in 1 .. n : calls[i] \in Parallel
                       THEN "evaluate" ELSE "serial")
               /\ UNCHANGED result
    BY <1>2
  <1>4. CASE stats.tools + n > ToolBudget
    BY <1>1, <1>3, <1>4 DEF Goto
  <1>5. CASE ~ (stats.tools + n > ToolBudget)
    <2> DEFINE m == [role |-> "assistant", ids |-> [i \in 1 .. n |-> batch'[i].id]]
    <2>1. n \in Nat \ {0} /\ stats.tools \in Nat /\ stats.turns \in Nat /\ ToolBudget \in Nat
      BY LoopAssumption DEF LoopTypes
    <2>2. \A i \in 1 .. n : /\ BatchEntry(calls[i], i, long) \in Entries
                            /\ BatchEntry(calls[i], i, long).outcome = "open"
      BY <2>1 DEF BatchEntry, CallId, Ids, Entries, Outcomes
    <2>3. /\ batch' = [i \in 1 .. n |-> BatchEntry(calls[i], i, long)]
          /\ msgs' = Append(msgs, m) /\ pc' \in {"serial", "evaluate"}
          /\ pc' = "evaluate" => n > 1
      BY <1>3, <1>5, <2>1 DEF Goto
    <2>4. /\ batch' \in Seq(Entries) /\ Len(batch') = n /\ DOMAIN batch' = 1 .. n
          /\ \A i \in 1 .. n : batch'[i] \in Entries /\ batch'[i].outcome = "open"
      BY <2>1, <2>2, <2>3
    <2>5. \A i \in 1 .. n : batch'[i].id \in Ids
      BY <2>4 DEF Entries
    <2>6. m \in Messages /\ m.role = "assistant" /\ Len(m.ids) = n
          /\ \A i \in 1 .. n : m.ids[i] = batch'[i].id
      BY <2>1, <2>5 DEF Messages
    <2>7. stats.tools + Len(batch') <= ToolBudget /\ batch' # << >>
      BY <1>5, <2>1, <2>4
    <2> HIDE DEF m
    <2> QED BY <1>1, <2>3, <2>4, <2>6, <2>7
  <1> QED BY <1>4, <1>5

(* A tool message for one call, and one whose id is cut.                     *)
LEMMA ToolMessageTyped ==
  ASSUME LoopTypes, NEW i \in DOMAIN batch
  PROVE  /\ ToolMessage(i) \in Messages /\ ShortMessage(i) \in Messages
         /\ Answer(ToolMessage(i), batch[i].id, Len(batch))
         /\ Len(batch) > 1 => Answer(ShortMessage(i), batch[i].id, Len(batch))
  <1>1. batch[i].id \in Ids
    <2>1. batch[i] \in Entries
      BY DEF LoopTypes
    <2> QED BY <2>1 DEF Entries
  <1>2. Cut(batch[i].id) \in Ids
    BY <1>1 DEF Cut, Ids
  <1> QED BY <1>1, <1>2 DEF ToolMessage, ShortMessage, Messages, Answer

LEMMA AnswerIsTool == \A m, id, n : Answer(m, id, n) => m.role = "tool"
  BY DEF Answer
-----------------------------------------------------------------------------
(* Types, and the order of the outcomes.                                     *)
LEMMA SettlingTypes ==
  ASSUME LoopTypes, InOrder, Current \in DOMAIN batch,
         NEW o \in Outcomes \ {"open", "ran"}, Outcome(Current, o),
         pc' \in Busy, pc # "workers", pc' \in {"evaluate", "workers"} => pc = pc', stats' = stats, msgs' \in Seq(Messages), ran' = ran,
         seenHashes' \in SUBSET ToolCalls, IsFiniteSet(seenHashes')
  PROVE  LoopTypes' /\ InOrder'
  <1>1. /\ batch' \in Seq(Entries) /\ Len(batch') = Len(batch) /\ DOMAIN batch' = DOMAIN batch
        /\ \A j \in DOMAIN batch : batch'[j].outcome = IF j = Current THEN o ELSE batch[j].outcome
    BY OutcomeSet
  <1>2. Current' = Current + 1 /\ Settled' = 1 .. Current /\ Current \in Nat \ {0}
    BY NextSettled
  <1>3. Current \in 1 .. Len(batch) /\ Len(batch) \in Nat
    BY DEF LoopTypes
  <1>4. \A i \in DOMAIN batch' : batch'[i].outcome # "ran"
    BY <1>1 DEF InOrder
  <1>5. LoopTypes'
    BY <1>1 DEF LoopTypes, Busy
  <1>6. InOrder'
    BY <1>1, <1>2, <1>3, <1>4 DEF InOrder
  <1> QED BY <1>5, <1>6

LEMMA TypesKeep ==
  ASSUME LoopInv, LoopNext
  PROVE  LoopTypes' /\ InOrder'
  <1>0. LoopTypes /\ InOrder
    BY DEF LoopInv
  <1>1. CASE Quiet
    <2>1. LoopTypes'
      BY <1>0, <1>1, QuietSteps DEF LoopTypes
    <2>2. InOrder'
      BY <1>0, <1>1, QuietSteps DEF InOrder, Current, Settled, Busy
    <2> QED BY <2>1, <2>2
  <1>2. CASE ChatAsks
    <2>1. CASE pc' = "after" /\ UNCHANGED <<batch, msgs>>
      <3>1. LoopTypes'
        BY <1>0, <1>2, <2>1, Asked DEF LoopTypes
      <3>2. InOrder'
        BY <1>0, <1>2, <2>1, Asked DEF InOrder, Current, Settled, Busy
      <3> QED BY <3>1, <3>2
    <2>2. CASE pc' \in {"serial", "evaluate"}
      <3>1. /\ batch' \in Seq(Entries) /\ \A i \in DOMAIN batch' : batch'[i].outcome = "open"
            /\ \E m \in Messages : msgs' = Append(msgs, m)
            /\ pc' = "evaluate" => Len(batch') > 1
        BY <1>0, <1>2, <2>2, Asked
      <3>2. msgs' \in Seq(Messages)
        BY <1>0, <3>1, AppendProperties DEF LoopTypes
      <3>3. LoopTypes'
        BY <1>0, <1>2, <2>2, <3>1, <3>2, Asked DEF LoopTypes
      <3>4. Settled' = {} /\ Current' = 1
        BY <3>1, NoneSettledNext
      <3>5. Len(batch') \in Nat
        BY <3>1
      <3>6. InOrder'
        BY <2>2, <3>1, <3>4, <3>5 DEF InOrder, Busy
      <3> QED BY <3>3, <3>6
    <2> QED BY <1>0, <1>2, <2>1, <2>2, Asked
  <1>3. CASE SerialGate
    <2>1. /\ pc = "serial" /\ Current \in DOMAIN batch /\ Evaluate(Current)
          /\ pc' \in {"serial", "dispatch"} /\ stats' = stats /\ ran' = ran
          /\ msgs' = msgs \/ msgs' = Append(msgs, ToolMessage(Current))
      BY <1>3 DEF SerialGate, Goto
    <2>2. msgs' \in Seq(Messages)
      <3>1. ToolMessage(Current) \in Messages /\ msgs \in Seq(Messages)
        BY <1>0, <2>1, ToolMessageTyped DEF LoopTypes
      <3> QED BY <2>1, <3>1, AppendTyped
    <2>3. seenHashes' \in SUBSET ToolCalls /\ IsFiniteSet(seenHashes')
      BY <1>0, <2>1, Evaluated
    <2>4. PICK o \in Outcomes \ {"open", "ran"} : Outcome(Current, o)
      BY <1>0, <2>1, Evaluated
    <2>5. pc' \in Busy /\ pc # "workers" /\ pc' \notin {"evaluate", "workers"}
      BY <2>1 DEF Busy
    <2> QED BY <1>0, <2>1, <2>2, <2>3, <2>4, <2>5, SettlingTypes
  <1>4. CASE SerialRun
    <2> DEFINE i == Current - 1
    <2>1. /\ pc = "dispatch" /\ pc' = "serial"
          /\ UNCHANGED <<batch, seenHashes>> /\ stats' = [stats EXCEPT !.tools = @ + 1]
          /\ msgs' = Append(msgs, ToolMessage(i))
          /\ ran' = ran \/ ran' = Append(ran, batch[i].call)
      BY <1>4 DEF SerialRun, Goto, Dispatch
    <2>2. i \in DOMAIN batch
      <3>1. /\ Len(batch) \in Nat /\ DOMAIN batch = 1 .. Len(batch)
            /\ Current \in 1 .. (Len(batch) + 1) /\ Current # 1
        BY <1>0, <2>1 DEF InOrder, LoopTypes
      <3> QED BY <3>1
    <2>3. batch[i].call \in ToolCalls
      BY <1>0, <2>2, EntryTyped
    <2> HIDE DEF i
    <2>4. msgs' \in Seq(Messages) /\ ran' \in Seq(ToolCalls)
      <3>1. ToolMessage(i) \in Messages
        BY <1>0, <2>2, ToolMessageTyped
      <3>2. msgs \in Seq(Messages) /\ ran \in Seq(ToolCalls)
        BY <1>0 DEF LoopTypes
      <3>3. msgs' \in Seq(Messages)
        BY <2>1, <3>1, <3>2, AppendTyped
      <3>4. ran' \in Seq(ToolCalls)
        BY <2>1, <2>3, <3>2, AppendTyped
      <3> QED BY <3>3, <3>4
    <2>5. LoopTypes'
      <3>0. stats \in [turns : Nat, tokens : Nat, tools : Nat]
        BY <1>0 DEF LoopTypes
      <3>1. stats' \in [turns : Nat, tokens : Nat, tools : Nat]
        BY <2>1, <3>0
      <3>2. /\ batch' \in Seq(Entries) /\ seenHashes' \in SUBSET ToolCalls /\ IsFiniteSet(seenHashes')
        BY <1>0, <2>1 DEF LoopTypes
      <3> QED BY <2>1, <2>4, <3>1, <3>2 DEF LoopTypes
    <2>6. InOrder'
      <3>1. Current' = Current /\ Settled' = Settled
        BY <2>1 DEF Current, Settled
      <3>2. \A j \in DOMAIN batch : batch[j].outcome # "ran"
        BY <1>0, <2>1 DEF InOrder
      <3> QED BY <1>0, <2>1, <3>1, <3>2 DEF InOrder, Busy
    <2> QED BY <2>5, <2>6
  <1>5. CASE EndTurn
    <2>1. LoopTypes'
      <3>1. /\ pc' = "turn" /\ batch' = << >> /\ UNCHANGED <<msgs, seenHashes, ran>>
            /\ stats' = [stats EXCEPT !.turns = @ + 1]
        BY <1>5 DEF EndTurn, Goto
      <3>2. stats \in [turns : Nat, tokens : Nat, tools : Nat]
        BY <1>0 DEF LoopTypes
      <3>3. stats' \in [turns : Nat, tokens : Nat, tools : Nat]
        BY <3>1, <3>2
      <3> QED BY <1>0, <3>1, <3>3 DEF LoopTypes
    <2>2. batch' = << >> /\ pc' = "turn"
      BY <1>5 DEF EndTurn, Goto
    <2>3. InOrder'
      BY <2>2, NoneSettledNext DEF InOrder
    <2> QED BY <2>1, <2>3
  <1>6. CASE ParallelGate
    <2>1. CASE Current \in DOMAIN batch
      <3>1. /\ Evaluate(Current) /\ pc = "evaluate" /\ pc' = "evaluate" /\ stats' = stats /\ ran' = ran
            /\ msgs' = msgs
        BY <1>6, <2>1 DEF ParallelGate
      <3>2. msgs' \in Seq(Messages)
        BY <1>0, <3>1 DEF LoopTypes
      <3>3. seenHashes' \in SUBSET ToolCalls /\ IsFiniteSet(seenHashes')
        BY <1>0, <2>1, <3>1, Evaluated
      <3>4. PICK o \in Outcomes \ {"open", "ran"} : Outcome(Current, o)
        BY <1>0, <2>1, <3>1, Evaluated
      <3>5. pc' \in Busy /\ pc # "workers" /\ pc = pc'
        BY <3>1 DEF Busy
      <3> QED BY <1>0, <2>1, <3>1, <3>2, <3>3, <3>4, <3>5, SettlingTypes
    <2>2. CASE Current \notin DOMAIN batch
      <3>1. /\ pc = "evaluate" /\ pc' = "workers"
            /\ UNCHANGED <<batch, seenHashes, stats, ran, msgs>>
        BY <1>6, <2>2 DEF ParallelGate, Goto
      <3>2. LoopTypes'
        BY <1>0, <3>1 DEF LoopTypes
      <3>3. InOrder'
        BY <1>0, <3>1 DEF InOrder, Current, Settled, Busy
      <3> QED BY <3>2, <3>3
    <2> QED BY <2>1, <2>2
  <1>7. ASSUME NEW i \in DOMAIN batch, Worker(i) PROVE LoopTypes' /\ InOrder'
    <2>1. /\ pc = "workers" /\ pc' = pc /\ batch[i].outcome = "go" /\ Outcome(i, "ran")
          /\ ran' = ran \/ ran' = Append(ran, batch[i].call)
          /\ UNCHANGED <<stats, msgs, seenHashes>>
      BY <1>7 DEF Worker, Dispatch
    <2>2. /\ batch' \in Seq(Entries) /\ Len(batch') = Len(batch) /\ DOMAIN batch' = DOMAIN batch
          /\ \A j \in DOMAIN batch :
                batch'[j].outcome = IF j = i THEN "ran" ELSE batch[j].outcome
      BY <1>0, <2>1, OutcomeSet DEF Outcomes
    <2>3. batch[i].call \in ToolCalls
      BY <1>0, EntryTyped
    <2>4. ran' \in Seq(ToolCalls)
      <3>1. ran \in Seq(ToolCalls)
        BY <1>0 DEF LoopTypes
      <3> QED BY <2>1, <2>3, <3>1, AppendTyped
    <2>5. LoopTypes'
      BY <1>0, <2>1, <2>2, <2>4 DEF LoopTypes
    <2>6. Settled' = Settled
      BY <2>1, <2>2 DEF Settled
    <2>7. InOrder'
      BY <1>0, <2>1, <2>2, <2>6 DEF InOrder, Current, Busy
    <2> QED BY <2>5, <2>7
  <1>8. CASE Gather
    <2>1. /\ pc' = "turn" /\ batch' = << >> /\ UNCHANGED <<seenHashes, ran>>
          /\ stats' = [turns  |-> stats.turns + 1, tokens |-> stats.tokens,
                       tools  |-> stats.tools + Cardinality(RanNow)]
          /\ msgs' = msgs \o [i \in DOMAIN batch |-> ShortMessage(i)]
      BY <1>8 DEF Gather, Goto, RanNow
    <2>2. [i \in DOMAIN batch |-> ShortMessage(i)] \in Seq(Messages)
      <3>1. DOMAIN batch = 1 .. Len(batch) /\ Len(batch) \in Nat
        BY <1>0 DEF LoopTypes
      <3>2. \A i \in 1 .. Len(batch) : ShortMessage(i) \in Messages
        BY <1>0, <3>1, ToolMessageTyped
      <3> QED BY <3>1, <3>2
    <2>3. msgs' \in Seq(Messages)
      BY <1>0, <2>1, <2>2, ConcatProperties DEF LoopTypes
    <2>4. stats' \in [turns : Nat, tokens : Nat, tools : Nat]
      BY <1>0, <2>1, RanFinite DEF LoopTypes
    <2>5. LoopTypes'
      BY <1>0, <2>1, <2>3, <2>4 DEF LoopTypes
    <2>6. InOrder'
      BY <2>1, NoneSettledNext DEF InOrder
    <2> QED BY <2>5, <2>6
  <1>9. CASE Cancel \/ Elsewhere
    <2>1. UNCHANGED <<pc, stats, batch, msgs, seenHashes, ran>>
      BY <1>9 DEF Cancel, Elsewhere
    <2>2. LoopTypes'
      BY <1>0, <2>1 DEF LoopTypes
    <2>3. InOrder'
      BY <1>0, <2>1 DEF InOrder, Current, Settled, Busy
    <2> QED BY <2>2, <2>3
  <1> QED BY <1>1, <1>2, <1>3, <1>4, <1>5, <1>6, <1>7, <1>8, <1>9
          DEF LoopNext, LoopStep, Quiet
-----------------------------------------------------------------------------
(* The budgets.                                                              *)
LEMMA NoneRan ==
  ASSUME LoopTypes, InOrder, pc # "workers"
  PROVE  RanNow = {} /\ Cardinality(RanNow) = 0
  BY FS_EmptySet DEF InOrder, RanNow

LEMMA Counters ==
  ASSUME LoopTypes
  PROVE  /\ stats.turns \in Nat /\ stats.tokens \in Nat /\ stats.tools \in Nat
         /\ Len(batch) \in Nat /\ Len(ran) \in Nat
  BY DEF LoopTypes

LEMMA BudgetsKept ==
  ASSUME LoopInv, LoopNext
  PROVE  WithinBudgets'
  <1>0. /\ LoopTypes /\ InOrder /\ WithinBudgets /\ LoopTypes' /\ InOrder'
        /\ {MaxBatch, MaxTurns, TokenBudget, ToolBudget} \subseteq Nat
    BY TypesKeep, LoopAssumption DEF LoopInv
  <1>a. Current \in Nat /\ Current' \in Nat /\ (DOMAIN batch = 1 .. Len(batch))
    <2>1. Len(batch) \in Nat /\ Len(batch') \in Nat /\ DOMAIN batch = 1 .. Len(batch)
      BY <1>0 DEF LoopTypes
    <2>2. Current \in 1 .. (Len(batch) + 1) /\ Current' \in 1 .. (Len(batch') + 1)
      BY <1>0 DEF InOrder
    <2> QED BY <2>1, <2>2
  <1>b. stats \in [turns : Nat, tokens : Nat, tools : Nat]
    BY <1>0 DEF LoopTypes
  <1>n. pc' # "workers" => Cardinality(RanNow)' = 0
    <2> SUFFICES ASSUME pc' # "workers" PROVE Cardinality(RanNow)' = 0
      OBVIOUS
    <2>1. RanNow' = {}
      BY <1>0 DEF InOrder, RanNow
    <2> QED BY <2>1, FS_EmptySet
  <1> USE DEF Goto, Busy
  <1>1. CASE Quiet
    <2>1. /\ UNCHANGED <<batch, ran>> /\ pc' \notin Busy /\ pc \notin Busy
          /\ stats'.tools = stats.tools /\ stats'.turns = stats.turns
          /\ RanNow' = RanNow
      BY <1>0, <1>1, QuietSteps DEF RanNow
    <2>2. /\ stats'.tokens <= TokenBudget + 1
          /\ pc' \notin {"finish", "ended"} => stats'.tokens <= TokenBudget
          /\ pc' = "chat" => stats'.tokens < TokenBudget
          /\ pc' = "chat" => stats'.turns < MaxTurns
      <3>1. CASE Begin
        BY <1>0, <3>1, Counters DEF Begin, WithinBudgets
      <3>2. CASE PreTurn
        BY <1>0, <3>2, Counters DEF PreTurn, PreTurnStatuses, WithinBudgets
      <3>3. CASE RetryChat
        BY <1>0, <3>3, Counters DEF RetryChat, WithinBudgets
      <3>4. CASE ChatFails
        BY <1>0, <3>4, Counters DEF ChatFails, WithinBudgets
      <3>5. CASE ChatAnswers
        <4>1. stats'.tokens = stats.tokens + 1 /\ pc = "chat" /\ pc' \in {"after", "finish"}
          BY <1>b, <3>5 DEF ChatAnswers, Answering
        <4> QED BY <1>0, <4>1, Counters DEF WithinBudgets
      <3>6. CASE After
        BY <1>0, <3>6, Counters DEF After, WithinBudgets
      <3>7. CASE WrapUp
        <4>1. stats'.tokens = stats.tokens + 1 /\ pc = "wrap" /\ pc' = "finish"
          BY <1>b, <3>7 DEF WrapUp
        <4> QED BY <1>0, <4>1, Counters DEF WithinBudgets
      <3>8. CASE Finish
        BY <1>0, <3>8, Counters DEF Finish, WithinBudgets
      <3>9. CASE Stream \/ Hang
        BY <1>0, <3>9, Counters DEF Stream, Hang, WithinBudgets
      <3> QED BY <1>1, <3>1, <3>2, <3>3, <3>4, <3>5, <3>6, <3>7, <3>8, <3>9 DEF Quiet
    <2> QED BY <1>0, <2>1, <2>2 DEF WithinBudgets
  <1>2. CASE ChatAsks
    <2>1. /\ pc = "chat" /\ ran' = ran
          /\ stats'.turns = stats.turns /\ stats'.tools = stats.tools
          /\ stats'.tokens = stats.tokens + 1
      BY <1>0, <1>2, <1>b, Asked
    <2>2. pc' # "workers" /\ Cardinality(RanNow) = 0
      BY <1>0, <1>2, <2>1, Asked, NoneRan
    <2>3. CASE pc' = "after" /\ batch' = batch
      BY <1>0, <1>n, <2>1, <2>2, <2>3, Counters DEF WithinBudgets
    <2>4. CASE pc' \in {"serial", "evaluate"}
      <3>1. /\ stats.tools + Len(batch') <= ToolBudget /\ Len(batch') \in Nat
            /\ \A i \in DOMAIN batch' : batch'[i].outcome = "open"
        BY <1>0, <1>2, <2>4, Asked
      <3>2. Current' = 1
        BY <3>1, NoneSettledNext
      <3> QED BY <1>0, <1>n, <2>1, <2>2, <2>4, <3>1, <3>2, Counters DEF WithinBudgets
    <2> QED BY <1>0, <1>2, <2>3, <2>4, Asked
  <1>3. CASE SerialGate
    <2>1. /\ pc = "serial" /\ pc' \in {"serial", "dispatch"} /\ UNCHANGED <<stats, ran>>
          /\ Current \in DOMAIN batch /\ Evaluate(Current)
      BY <1>3 DEF SerialGate
    <2>2. Len(batch') = Len(batch) /\ Current' = Current + 1
      BY <1>0, <2>1, Evaluated, OutcomeSet, NextSettled
    <2>3. Cardinality(RanNow) = 0 /\ Cardinality(RanNow)' = 0
      BY <1>0, <1>n, <2>1, NoneRan
    <2>4. stats.tools + Len(batch) + 1 <= ToolBudget + Current
      <3>1. stats.tools + Len(batch) <= ToolBudget + (Current - 1)
        BY <1>0, <2>1 DEF WithinBudgets
      <3>2. {stats.tools, Len(batch), ToolBudget, Current} \subseteq Nat
        BY <1>0, <1>a, Counters
      <3> QED BY <3>1, <3>2
    <2>5. /\ pc' = "serial" => stats.tools + Len(batch') <= ToolBudget + (Current' - 1)
          /\ pc' = "dispatch" => stats.tools + Len(batch') + 2 <= ToolBudget + Current'
      <3>1. {stats.tools, Len(batch), ToolBudget, Current} \subseteq Nat
        BY <1>0, <1>a, Counters
      <3>2. /\ stats.tools + Len(batch) <= ToolBudget + ((Current + 1) - 1)
            /\ stats.tools + Len(batch) + 2 <= ToolBudget + (Current + 1)
        BY <2>4, <3>1
      <3> QED BY <2>2, <3>2
    <2>6. /\ Len(ran) <= stats.tools + 0 /\ stats.turns < MaxTurns /\ stats.tokens <= TokenBudget
          /\ stats.turns <= MaxTurns /\ stats.tokens <= TokenBudget + 1 /\ stats.tools <= ToolBudget
      BY <1>0, <2>1, <2>3 DEF WithinBudgets, Busy
    <2> QED BY <2>1, <2>3, <2>5, <2>6 DEF WithinBudgets, Busy
  <1>4. CASE SerialRun
    <2>1. /\ pc = "dispatch" /\ pc' = "serial" /\ batch' = batch
          /\ stats'.turns = stats.turns /\ stats'.tokens = stats.tokens
          /\ stats'.tools = stats.tools + 1
      BY <1>4, <1>b DEF SerialRun
    <2>2. Current' = Current /\ Current <= Len(batch) + 1
      BY <1>0, <2>1, Counters DEF Current, Settled, InOrder
    <2>3. Cardinality(RanNow) = 0
      BY <1>0, <2>1, NoneRan
    <2>4. Len(ran') <= Len(ran) + 1
      BY <1>0, <1>4, Counters DEF SerialRun, Dispatch, LoopTypes
    <2>5. Len(ran') \in Nat
      BY <1>0 DEF LoopTypes
    <2>6. stats.tools + Len(batch) + 2 <= ToolBudget + Current
      BY <1>0, <2>1 DEF WithinBudgets
    <2>7. /\ stats'.tools <= ToolBudget
          /\ stats'.tools + Len(batch') <= ToolBudget + (Current' - 1)
      <3>1. /\ ToolBudget \in Nat /\ stats.tools \in Nat /\ Len(batch) \in Nat
            /\ Current \in Nat
        BY <1>0, <1>a, Counters
      <3>2. stats.tools + 1 <= ToolBudget
        BY <2>2, <2>6, <3>1
      <3>3. (stats.tools + 1) + Len(batch) <= ToolBudget + (Current - 1)
        BY <2>6, <3>1
      <3> QED BY <2>1, <2>2, <3>2, <3>3
    <2>8. Cardinality(RanNow)' = 0 /\ Len(ran') <= stats'.tools
      <3>1. Len(ran) <= stats.tools + Cardinality(RanNow)
        BY <1>0 DEF WithinBudgets
      <3>2. {stats.tools, Len(ran), Len(ran')} \subseteq Nat
        BY <1>0, <2>5, Counters
      <3>3. Len(ran') <= stats.tools + 1
        BY <2>3, <2>4, <3>1, <3>2
      <3> QED BY <1>n, <2>1, <3>3
    <2> QED BY <1>0, <2>1, <2>5, <2>7, <2>8, Counters DEF WithinBudgets
  <1>5. CASE EndTurn
    <2>1. /\ pc = "serial" /\ pc' = "turn" /\ ran' = ran
          /\ stats'.turns = stats.turns + 1 /\ stats'.tokens = stats.tokens
          /\ stats'.tools = stats.tools
      BY <1>5, <1>b DEF EndTurn
    <2>2. Cardinality(RanNow) = 0
      BY <1>0, <2>1, NoneRan
    <2> QED BY <1>0, <1>n, <2>1, <2>2, Counters DEF WithinBudgets
  <1>6. CASE ParallelGate
    <2>1. /\ pc = "evaluate" /\ pc' \in {"evaluate", "workers"} /\ UNCHANGED <<stats, ran>>
          /\ Current \in DOMAIN batch => Evaluate(Current)
          /\ Current \notin DOMAIN batch => batch' = batch
      BY <1>6 DEF ParallelGate
    <2>2. Len(batch') = Len(batch)
      BY <1>0, <2>1, Evaluated, OutcomeSet
    <2>3. Cardinality(RanNow) = 0
      BY <1>0, <2>1, NoneRan
    <2>4. Cardinality(RanNow)' = 0
      <3>1. CASE pc' = "workers"
        <4>1. batch' = batch
          BY <1>6, <3>1, <2>1 DEF ParallelGate
        <4>2. RanNow' = RanNow
          BY <4>1 DEF RanNow
        <4> QED BY <2>3, <4>2
      <3> QED BY <1>n, <3>1
    <2> QED BY <1>0, <2>1, <2>2, <2>3, <2>4, Counters DEF WithinBudgets
  <1>7. ASSUME NEW i \in DOMAIN batch, Worker(i) PROVE WithinBudgets'
    <2>1. /\ pc = "workers" /\ pc' = pc /\ batch[i].outcome = "go" /\ Outcome(i, "ran")
          /\ stats' = stats /\ Dispatch(batch[i].call)
      BY <1>7 DEF Worker
    <2>2. /\ Len(batch') = Len(batch) /\ DOMAIN batch' = DOMAIN batch
          /\ \A j \in DOMAIN batch :
                batch'[j].outcome = IF j = i THEN "ran" ELSE batch[j].outcome
      BY <1>0, <2>1, OutcomeSet DEF Outcomes
    <2>3. RanNow' = RanNow \cup {i} /\ i \notin RanNow
      BY <2>1, <2>2 DEF RanNow
    <2>4. Cardinality(RanNow)' = Cardinality(RanNow) + 1 /\ Cardinality(RanNow) \in Nat
      <3>1. IsFiniteSet(RanNow) /\ Cardinality(RanNow) \in Nat
        BY <1>0, RanFinite, Counters
      <3>2. Cardinality(RanNow \cup {i}) = Cardinality(RanNow) + 1
        BY <2>3, <3>1, FS_AddElement
      <3> QED BY <2>3, <3>1, <3>2
    <2>5. Len(ran') <= Len(ran) + 1
      BY <1>0, <2>1, Counters DEF Dispatch, LoopTypes
    <2>6. Len(ran') <= stats.tools + (Cardinality(RanNow) + 1)
      <3>1. Len(ran) <= stats.tools + Cardinality(RanNow)
        BY <1>0 DEF WithinBudgets
      <3>2. Len(ran') \in Nat
        BY <1>0 DEF LoopTypes
      <3>3. {Len(ran), stats.tools} \subseteq Nat
        BY <1>0, Counters
      <3>4. {Len(ran), Len(ran'), stats.tools, Cardinality(RanNow)} \subseteq Nat
        BY <2>4, <3>2, <3>3
      <3> QED BY <2>5, <3>1, <3>4
    <2>7. /\ stats.turns < MaxTurns /\ stats.turns <= MaxTurns
          /\ stats.tokens <= TokenBudget /\ stats.tokens <= TokenBudget + 1
          /\ stats.tools <= ToolBudget /\ stats.tools + Len(batch) <= ToolBudget
      BY <1>0, <2>1 DEF WithinBudgets, Busy
    <2> QED BY <2>1, <2>2, <2>4, <2>6, <2>7 DEF WithinBudgets, Busy
  <1>8. CASE Gather
    <2>1. /\ pc = "workers" /\ pc' = "turn" /\ ran' = ran
          /\ stats'.turns = stats.turns + 1 /\ stats'.tokens = stats.tokens
          /\ stats'.tools = stats.tools + Cardinality(RanNow)
      BY <1>8, <1>b DEF Gather, RanNow
    <2>2. Cardinality(RanNow) \in 0 .. Len(batch)
      BY <1>0, RanFinite
    <2>3. /\ stats.tools + Len(batch) <= ToolBudget /\ stats.turns < MaxTurns
          /\ stats.tokens <= TokenBudget /\ stats.tokens <= TokenBudget + 1
          /\ Len(ran) <= stats.tools + Cardinality(RanNow)
      BY <1>0, <2>1 DEF WithinBudgets, Busy
    <2>4. /\ stats.turns + 1 <= MaxTurns
          /\ stats.tools + Cardinality(RanNow) <= ToolBudget
          /\ Len(ran) <= (stats.tools + Cardinality(RanNow)) + 0
      <3>1. {stats.tools, stats.turns, MaxTurns, ToolBudget, Len(batch), Len(ran)} \subseteq Nat
        BY <1>0, Counters
      <3> QED BY <2>2, <2>3, <3>1
    <2> QED BY <1>n, <2>1, <2>3, <2>4 DEF WithinBudgets, Busy
  <1>9. CASE Cancel \/ Elsewhere
    BY <1>0, <1>9 DEF Cancel, Elsewhere, WithinBudgets, RanNow, Current, Settled
  <1> QED BY <1>1, <1>2, <1>3, <1>4, <1>5, <1>6, <1>7, <1>8, <1>9
          DEF LoopNext, LoopStep, Quiet
-----------------------------------------------------------------------------
(* No call runs twice.                                                       *)
LEMMA NothingGoes ==
  ASSUME UNCHANGED <<seenHashes, ran>>, Going' = {}, OnceEach
  PROVE  OnceEach'
  BY DEF OnceEach

(* What goes is remembered, and was not known before.                        *)
LEMMA GoingRemembered ==
  ASSUME LoopTypes, OnceEach, NEW i \in DOMAIN batch,
         batch[i].call \notin seenHashes, Remember(batch[i].call),
         Cardinality(seenHashes') < DupSlots
  PROVE  /\ Cardinality(seenHashes) < DupSlots /\ seenHashes' = seenHashes \cup {batch[i].call}
         /\ \A j \in DOMAIN ran : ran[j] # batch[i].call
  <1>1. seenHashes' = seenHashes \/ seenHashes' = seenHashes \cup {batch[i].call}
    BY DEF Remember
  <1>2. Cardinality(seenHashes) < DupSlots
    <2>1. CASE seenHashes' = seenHashes
      BY <2>1
    <2>2. CASE seenHashes' = seenHashes \cup {batch[i].call}
      BY <2>2 DEF Remember
    <2> QED BY <1>1, <2>1, <2>2
  <1> QED BY <1>2 DEF Remember, OnceEach

(* A call that is about to run appears in what ran.                          *)
LEMMA RunningOnce ==
  ASSUME LoopTypes, OnceEach, Cardinality(seenHashes) < DupSlots, seenHashes' = seenHashes,
         NEW i \in Going, i \in DOMAIN batch,
         ran' = ran \/ ran' = Append(ran, batch[i].call)
  PROVE  /\ \A j, k \in DOMAIN ran' : ran'[j] = ran'[k] => j = k
         /\ \A j \in DOMAIN ran' : ran'[j] \in seenHashes
         /\ \A j \in DOMAIN ran' : \/ j \in DOMAIN ran /\ ran'[j] = ran[j]
                                   \/ ran'[j] = batch[i].call
  <1>1. /\ \A j, k \in DOMAIN ran : ran[j] = ran[k] => j = k
        /\ \A j \in DOMAIN ran : ran[j] \in seenHashes
        /\ batch[i].call \in seenHashes
        /\ \A j \in DOMAIN ran : ran[j] # batch[i].call
    BY DEF OnceEach
  <1>2. CASE ran' = ran
    BY <1>1, <1>2
  <1>3. CASE ran' = Append(ran, batch[i].call)
    <2>1. batch[i].call \in ToolCalls /\ ran \in Seq(ToolCalls)
      BY EntryTyped DEF LoopTypes
    <2>2. /\ Len(ran) \in Nat /\ DOMAIN ran = 1 .. Len(ran)
          /\ DOMAIN ran' = 1 .. (Len(ran) + 1)
          /\ ran'[Len(ran) + 1] = batch[i].call
          /\ \A j \in DOMAIN ran : ran'[j] = ran[j]
      BY <1>3, <2>1, AppendTyped
    <2>3. \A j \in DOMAIN ran' : j \in DOMAIN ran \/ j = Len(ran) + 1
      BY <2>2
    <2>4. \A j \in DOMAIN ran' : ran'[j] = batch[i].call => j = Len(ran) + 1
      BY <1>1, <2>2, <2>3
    <2> QED BY <1>1, <2>2, <2>3, <2>4
  <1> QED BY <1>2, <1>3

LEMMA OnceKept ==
  ASSUME LoopInv, LoopNext
  PROVE  OnceEach'
  <1>0. LoopTypes /\ InOrder /\ OnceEach /\ LoopTypes' /\ InOrder'
    BY TypesKeep DEF LoopInv
  <1> USE DEF Goto
  <1>1. CASE Quiet
    <2>1. UNCHANGED <<seenHashes, ran>> /\ pc' \notin Busy
      BY <1>0, <1>1, QuietSteps
    <2>2. Going' = {}
      BY <2>1 DEF Going, Busy
    <2> QED BY <1>0, <2>1, <2>2, NothingGoes
  <1>2. CASE ChatAsks
    <2>1. UNCHANGED <<seenHashes, ran>>
      BY <1>0, <1>2, Asked
    <2>2. Going' = {}
      <3>1. CASE pc' \in {"after", "serial"}
        BY <3>1 DEF Going
      <3>2. CASE pc' = "evaluate"
        <4>1. \A i \in DOMAIN batch' : batch'[i].outcome = "open"
          BY <1>0, <1>2, <3>2, Asked
        <4> QED BY <3>2, <4>1 DEF Going
      <3> QED BY <1>0, <1>2, <3>1, <3>2, Asked
    <2> QED BY <1>0, <2>1, <2>2, NothingGoes
  <1>3. CASE SerialGate
    <2>1. /\ pc = "serial" /\ Current \in DOMAIN batch /\ Evaluate(Current) /\ ran' = ran
          /\ \/ batch'[Current].outcome = "go" /\ pc' = "dispatch"
             \/ batch'[Current].outcome # "go" /\ pc' = "serial"
      BY <1>3 DEF SerialGate
    <2>2. CASE Outcome(Current, "go") /\ batch[Current].call \notin seenHashes
                 /\ Remember(batch[Current].call)
      <3>1. batch'[Current].outcome = "go" /\ batch'[Current].call = batch[Current].call
        BY <1>0, <2>1, <2>2, OutcomeSet DEF Outcomes
      <3>2. Current' = Current + 1 /\ Current \in Nat
        BY <1>0, <2>1, <2>2, NextSettled DEF Outcomes
      <3>3. Going' = {Current}
        BY <2>1, <3>1, <3>2 DEF Going
      <3> SUFFICES ASSUME Cardinality(seenHashes') < DupSlots
                   PROVE  /\ \A i, j \in DOMAIN ran : ran[i] = ran[j] => i = j
                          /\ \A i \in DOMAIN ran : ran[i] \in seenHashes'
                          /\ batch[Current].call \in seenHashes'
                          /\ \A j \in DOMAIN ran : ran[j] # batch[Current].call
        BY <2>1, <3>1, <3>3 DEF OnceEach
      <3>4. /\ Cardinality(seenHashes) < DupSlots /\ seenHashes' = seenHashes \cup {batch[Current].call}
            /\ \A j \in DOMAIN ran : ran[j] # batch[Current].call
        BY <1>0, <2>1, <2>2, GoingRemembered
      <3> QED BY <1>0, <3>4 DEF OnceEach
    <2>3. CASE seenHashes' = seenHashes /\ ~ Outcome(Current, "go")
      <3>1. PICK o \in Outcomes \ {"open", "ran"} : Outcome(Current, o)
        BY <1>0, <2>1, Evaluated
      <3>2. batch'[Current].outcome # "go"
        <4>1. o # "go"
          BY <2>3, <3>1
        <4>2. batch'[Current].outcome = o
          BY <1>0, <2>1, <3>1, OutcomeSet
        <4> QED BY <4>1, <4>2
      <3>3. Going' = {}
        BY <2>1, <3>2 DEF Going
      <3> QED BY <1>0, <2>1, <2>3, <3>3, NothingGoes
    <2>4. \/ Outcome(Current, "go") /\ batch[Current].call \notin seenHashes
             /\ Remember(batch[Current].call)
          \/ seenHashes' = seenHashes /\ ~ Outcome(Current, "go")
      BY <1>0, <2>1, Evaluated
    <2> QED BY <2>2, <2>3, <2>4
  <1>4. CASE SerialRun
    <2>1. /\ pc = "dispatch" /\ pc' = "serial" /\ UNCHANGED <<batch, seenHashes>>
          /\ ran' = ran \/ ran' = Append(ran, batch[Current - 1].call)
      BY <1>4 DEF SerialRun, Dispatch
    <2>2. Going = {Current - 1} /\ Going' = {} /\ Current - 1 \in DOMAIN batch
      <3>0. Len(batch) \in Nat /\ DOMAIN batch = 1 .. Len(batch)
        BY <1>0 DEF LoopTypes
      <3>1. Current \in 1 .. (Len(batch) + 1) /\ Current # 1
        BY <1>0, <2>1 DEF InOrder
      <3>2. Current - 1 \in DOMAIN batch
        BY <3>0, <3>1
      <3> QED BY <2>1, <3>2 DEF Going
    <2> SUFFICES ASSUME Cardinality(seenHashes) < DupSlots
                 PROVE  /\ \A i, j \in DOMAIN ran' : ran'[i] = ran'[j] => i = j
                        /\ \A i \in DOMAIN ran' : ran'[i] \in seenHashes
      BY <2>1, <2>2 DEF OnceEach
    <2>3. PICK i \in DOMAIN batch : i = Current - 1
      BY <2>2
    <2>4. i \in Going /\ (ran' = ran \/ ran' = Append(ran, batch[i].call)) /\ seenHashes' = seenHashes
      BY <2>1, <2>2, <2>3
    <2> QED BY <1>0, <2>3, <2>4, RunningOnce
  <1>5. CASE EndTurn
    <2>1. UNCHANGED <<seenHashes, ran>> /\ Going' = {}
      BY <1>5 DEF EndTurn, Going
    <2> QED BY <1>0, <2>1, NothingGoes
  <1>6. CASE ParallelGate
    <2>1. CASE Current \notin DOMAIN batch
      <3>1. UNCHANGED <<batch, seenHashes, ran>> /\ Going' = Going
        BY <1>6, <2>1 DEF ParallelGate, Going
      <3> QED BY <1>0, <3>1 DEF OnceEach
    <2>2. CASE Current \in DOMAIN batch
      <3>0. /\ pc = "evaluate" /\ pc' = "evaluate" /\ Evaluate(Current) /\ ran' = ran
        BY <1>6, <2>2 DEF ParallelGate
      <3>1. batch[Current].outcome = "open"
        <4>1. Current \in Nat /\ Current \notin Settled
          BY <1>0 DEF InOrder, LoopTypes
        <4> QED BY <2>2, <4>1 DEF Settled
      <3>2. CASE Outcome(Current, "go") /\ batch[Current].call \notin seenHashes
                   /\ Remember(batch[Current].call)
        <4>1. /\ DOMAIN batch' = DOMAIN batch
              /\ \A j \in DOMAIN batch :
                   /\ batch'[j].call = batch[j].call
                   /\ batch'[j].outcome = IF j = Current THEN "go" ELSE batch[j].outcome
          BY <1>0, <2>2, <3>2, OutcomeSet DEF Outcomes
        <4>2. Going' = Going \cup {Current} /\ Going \subseteq DOMAIN batch
          BY <2>2, <3>0, <4>1 DEF Going
        <4> SUFFICES ASSUME Cardinality(seenHashes') < DupSlots
                     PROVE  /\ \A i, j \in DOMAIN ran : ran[i] = ran[j] => i = j
                            /\ \A i \in DOMAIN ran : ran[i] \in seenHashes'
                            /\ \A i \in Going' :
                                 /\ batch[i].call \in seenHashes'
                                 /\ \A j \in DOMAIN ran : ran[j] # batch[i].call
                            /\ \A i, j \in Going' : batch[i].call = batch[j].call => i = j
          BY <2>2, <3>0, <4>1, <4>2 DEF OnceEach
        <4>3. /\ Cardinality(seenHashes) < DupSlots /\ seenHashes' = seenHashes \cup {batch[Current].call}
              /\ \A j \in DOMAIN ran : ran[j] # batch[Current].call
          BY <1>0, <2>2, <3>2, GoingRemembered
        <4>4. /\ \A i \in Going : /\ batch[i].call \in seenHashes
                                  /\ \A j \in DOMAIN ran : ran[j] # batch[i].call
              /\ \A i, j \in Going : batch[i].call = batch[j].call => i = j
          BY <1>0, <4>3 DEF OnceEach
        <4>5. \A i \in Going : batch[i].call # batch[Current].call
          BY <3>2, <4>4
        <4> QED BY <1>0, <4>2, <4>3, <4>4, <4>5 DEF OnceEach
      <3>3. CASE seenHashes' = seenHashes /\ ~ Outcome(Current, "go")
        <4>1. PICK o \in Outcomes \ {"open", "ran"} : Outcome(Current, o)
          BY <1>0, <2>2, <3>0, Evaluated
        <4>2. /\ DOMAIN batch' = DOMAIN batch
              /\ \A j \in DOMAIN batch :
                   /\ batch'[j].call = batch[j].call
                   /\ batch'[j].outcome = IF j = Current THEN o ELSE batch[j].outcome
          BY <1>0, <2>2, <4>1, OutcomeSet
        <4>3. o # "go"
          BY <3>3, <4>1
        <4>4. Going' = Going /\ Going \subseteq DOMAIN batch
          BY <2>2, <3>0, <3>1, <4>2, <4>3 DEF Going
        <4> QED BY <1>0, <3>0, <3>3, <4>2, <4>4 DEF OnceEach
      <3> QED BY <1>0, <2>2, <3>0, <3>2, <3>3, Evaluated
    <2> QED BY <2>1, <2>2
  <1>7. ASSUME NEW i \in DOMAIN batch, Worker(i) PROVE OnceEach'
    <2>1. /\ pc = "workers" /\ pc' = pc /\ batch[i].outcome = "go" /\ Outcome(i, "ran")
          /\ seenHashes' = seenHashes
          /\ ran' = ran \/ ran' = Append(ran, batch[i].call)
      BY <1>7 DEF Worker, Dispatch
    <2>2. /\ DOMAIN batch' = DOMAIN batch
          /\ \A j \in DOMAIN batch :
               /\ batch'[j].call = batch[j].call
               /\ batch'[j].outcome = IF j = i THEN "ran" ELSE batch[j].outcome
      BY <1>0, <2>1, OutcomeSet DEF Outcomes
    <2>3. Going' = Going \ {i} /\ i \in Going /\ Going \subseteq DOMAIN batch
      BY <2>1, <2>2 DEF Going
    <2> SUFFICES ASSUME Cardinality(seenHashes) < DupSlots
                 PROVE  /\ \A j, k \in DOMAIN ran' : ran'[j] = ran'[k] => j = k
                        /\ \A j \in DOMAIN ran' : ran'[j] \in seenHashes
                        /\ \A k \in Going \ {i} :
                             /\ batch[k].call \in seenHashes
                             /\ \A j \in DOMAIN ran' : ran'[j] # batch[k].call
                        /\ \A j, k \in Going : batch[j].call = batch[k].call => j = k
      BY <2>1, <2>2, <2>3 DEF OnceEach
    <2>4. /\ \A j, k \in DOMAIN ran' : ran'[j] = ran'[k] => j = k
          /\ \A j \in DOMAIN ran' : ran'[j] \in seenHashes
          /\ \A j \in DOMAIN ran' : \/ j \in DOMAIN ran /\ ran'[j] = ran[j]
                                    \/ ran'[j] = batch[i].call
      BY <1>0, <2>1, <2>3, RunningOnce
    <2>5. /\ \A k \in Going : /\ batch[k].call \in seenHashes
                              /\ \A j \in DOMAIN ran : ran[j] # batch[k].call
          /\ \A j, k \in Going : batch[j].call = batch[k].call => j = k
      BY <1>0 DEF OnceEach
    <2> QED BY <2>3, <2>4, <2>5
  <1>8. CASE Gather
    <2>1. UNCHANGED <<seenHashes, ran>> /\ Going' = {}
      BY <1>8 DEF Gather, Going
    <2> QED BY <1>0, <2>1, NothingGoes
  <1>9. CASE Cancel \/ Elsewhere
    <2>1. UNCHANGED <<pc, seenHashes, ran, batch>>
      BY <1>9 DEF Cancel, Elsewhere
    <2>2. Going' = Going
      BY <2>1 DEF Going, Current, Settled
    <2> QED BY <1>0, <2>1, <2>2 DEF OnceEach
  <1> QED BY <1>1, <1>2, <1>3, <1>4, <1>5, <1>6, <1>7, <1>8, <1>9
          DEF LoopNext, LoopStep, Quiet
-----------------------------------------------------------------------------
(* The conversation.                                                         *)
LEMMA CompleteSame ==
  ASSUME NEW ms, NEW more, NEW l \in Nat, \A i \in 1 .. l : more[i] = ms[i],
         \A i \in 1 .. l : Len(ms[i].ids) \in Nat,
         Complete(ms, l)
  PROVE  Complete(more, l)
  <1> SUFFICES ASSUME NEW i \in 1 .. l, more[i].role = "assistant"
               PROVE  /\ i + Len(more[i].ids) <= l
                      /\ \A k \in 1 .. Len(more[i].ids) :
                            Answer(more[i + k], more[i].ids[k], Len(more[i].ids))
                      /\ i + Len(more[i].ids) < l =>
                            more[i + Len(more[i].ids) + 1].role = "assistant"
    BY DEF Complete
  <1> DEFINE n == Len(ms[i].ids)
  <1>1. more[i] = ms[i] /\ n \in Nat
    OBVIOUS
  <1>2. /\ i + n <= l
        /\ \A k \in 1 .. n : Answer(ms[i + k], ms[i].ids[k], n)
        /\ i + n < l => ms[i + n + 1].role = "assistant"
    BY <1>1 DEF Complete
  <1> HIDE DEF n
  <1>3. \A k \in 1 .. n : i + k \in 1 .. l
    BY <1>1, <1>2
  <1>4. i + n < l => i + n + 1 \in 1 .. l
    BY <1>1
  <1>5. \A k \in 1 .. n : Answer(more[i + k], more[i].ids[k], n)
    BY <1>1, <1>2, <1>3
  <1>6. i + n < l => more[i + n + 1].role = "assistant"
    BY <1>1, <1>2, <1>4
  <1> QED BY <1>1, <1>2, <1>5, <1>6 DEF n

(* Once the last call of the batch is answered, the conversation is complete. *)
LEMMA AllAnswered ==
  ASSUME NEW ms \in Seq(Messages), NEW b \in Seq(Entries), NEW p \in Nat,
         AnsweredUpTo(ms, b, p, Len(b))
  PROVE  Complete(ms, Len(ms))
  <1>1. /\ Len(b) \in Nat /\ Len(ms) = p + Len(b) /\ p \in Nat \ {0}
        /\ Complete(ms, p - 1) /\ ms[p].role = "assistant"
        /\ Len(ms[p].ids) = Len(b)
        /\ \A k \in 1 .. Len(b) : ms[p].ids[k] = b[k].id
        /\ \A k \in 1 .. Len(b) : Answer(ms[p + k], b[k].id, Len(b))
    BY DEF AnsweredUpTo
  <1> SUFFICES ASSUME NEW i \in 1 .. Len(ms), ms[i].role = "assistant"
               PROVE  /\ i + Len(ms[i].ids) <= Len(ms)
                      /\ \A k \in 1 .. Len(ms[i].ids) :
                            Answer(ms[i + k], ms[i].ids[k], Len(ms[i].ids))
                      /\ i + Len(ms[i].ids) < Len(ms) =>
                            ms[i + Len(ms[i].ids) + 1].role = "assistant"
    BY DEF Complete
  <1>2. CASE i < p
    <2> DEFINE n == Len(ms[i].ids)
    <2>1. n \in Nat
      <3>1. ms[i] \in Messages
        OBVIOUS
      <3> QED BY <3>1 DEF Messages
    <2>2. i \in 1 .. (p - 1)
      BY <1>1, <1>2
    <2>3. /\ i + n <= p - 1
          /\ \A k \in 1 .. n : Answer(ms[i + k], ms[i].ids[k], n)
          /\ i + n < p - 1 => ms[i + n + 1].role = "assistant"
      BY <1>1, <2>2 DEF Complete
    <2> HIDE DEF n
    <2>4. i + n = p - 1 \/ i + n < p - 1
      BY <1>1, <2>1, <2>3
    <2>5. i + n = p - 1 => i + n + 1 = p
      BY <1>1, <2>1
    <2>6. ms[i + n + 1].role = "assistant"
      BY <1>1, <2>3, <2>4, <2>5
    <2>7. i + n <= Len(ms)
      BY <1>1, <2>1, <2>3
    <2> QED BY <2>3, <2>6, <2>7 DEF n
  <1>3. CASE i = p
    <2>1. Len(ms[i].ids) = Len(b) /\ ms[i].ids = ms[p].ids
      BY <1>1, <1>3
    <2>2. i + Len(b) = Len(ms) /\ ~ (i + Len(b) < Len(ms))
      BY <1>1, <1>3
    <2>3. \A k \in 1 .. Len(b) : Answer(ms[i + k], ms[i].ids[k], Len(b))
      BY <1>1, <1>3
    <2> QED BY <1>1, <2>1, <2>2, <2>3
  <1>4. CASE i > p
    <2>1. PICK k \in 1 .. Len(b) : i = p + k
      <3>1. i \in Nat /\ p \in Nat /\ i <= p + Len(b) /\ Len(b) \in Nat
        BY <1>1
      <3>2. PICK k \in Nat : k = i - p
        BY <1>4, <3>1
      <3>3. k \in 1 .. Len(b) /\ i = p + k
        BY <1>4, <3>1, <3>2
      <3> QED BY <3>3
    <2>2. ms[p + k].role = "tool"
      <3>1. Answer(ms[p + k], b[k].id, Len(b))
        BY <1>1
      <3> QED BY <3>1, AnswerIsTool
    <2>3. ms[i].role = "tool"
      BY <2>1, <2>2
    <2> QED BY <2>3
  <1> QED BY <1>1, <1>2, <1>3, <1>4

(* One more answer.                                                          *)
LEMMA OneMoreAnswer ==
  ASSUME LoopTypes, NEW b \in Seq(Entries), NEW p \in Nat, NEW a \in Nat,
         AnsweredUpTo(msgs, batch, p, a), a + 1 \in DOMAIN batch,
         Len(b) = Len(batch), \A i \in DOMAIN batch : b[i].id = batch[i].id
  PROVE  AnsweredUpTo(Append(msgs, ToolMessage(a + 1)), b, p, a + 1)
  <1> DEFINE more == Append(msgs, ToolMessage(a + 1))
  <1>1. /\ ToolMessage(a + 1) \in Messages /\ msgs \in Seq(Messages)
        /\ Answer(ToolMessage(a + 1), batch[a + 1].id, Len(batch))
        /\ Len(batch) \in Nat /\ DOMAIN batch = 1 .. Len(batch)
    <2>1. /\ msgs \in Seq(Messages) /\ Len(batch) \in Nat /\ DOMAIN batch = 1 .. Len(batch)
      BY DEF LoopTypes
    <2>2. PICK i \in DOMAIN batch : i = a + 1
      OBVIOUS
    <2> QED BY <2>1, <2>2, ToolMessageTyped
  <1>2. /\ Len(msgs) \in Nat /\ Len(more) = Len(msgs) + 1
        /\ more[Len(msgs) + 1] = ToolMessage(a + 1)
        /\ \A i \in 1 .. Len(msgs) : more[i] = msgs[i]
    BY <1>1, AppendTyped
  <1> HIDE DEF more
  <1>3. /\ p \in 1 .. Len(msgs) /\ Len(msgs) = p + a
        /\ Complete(msgs, p - 1) /\ msgs[p].role = "assistant"
        /\ Len(msgs[p].ids) = Len(batch)
        /\ \A k \in 1 .. Len(batch) : msgs[p].ids[k] = batch[k].id
        /\ \A k \in 1 .. a : Answer(msgs[p + k], batch[k].id, Len(batch))
    BY DEF AnsweredUpTo
  <1>4. \A i \in 1 .. Len(msgs) : Len(msgs[i].ids) \in Nat
    <2> SUFFICES ASSUME NEW i \in 1 .. Len(msgs) PROVE Len(msgs[i].ids) \in Nat
      OBVIOUS
    <2>1. msgs[i] \in Messages
      BY <1>1
    <2> QED BY <2>1 DEF Messages
  <1>5. Complete(more, p - 1)
    <2>1. PICK l \in Nat : l = p - 1
      BY <1>2, <1>3
    <2>2. \A i \in 1 .. l : i \in 1 .. Len(msgs)
      BY <1>2, <1>3, <2>1
    <2>3. \A i \in 1 .. l : more[i] = msgs[i] /\ Len(msgs[i].ids) \in Nat
      BY <1>2, <1>4, <2>2
    <2>4. Complete(more, l)
      BY <1>3, <2>1, <2>3, CompleteSame
    <2> QED BY <2>1, <2>4
  <1>6. more[p] = msgs[p] /\ p \in 1 .. Len(more) /\ Len(more) = p + (a + 1)
    BY <1>2, <1>3
  <1>7. \A k \in 1 .. (a + 1) : Answer(more[p + k], b[k].id, Len(b))
    <2> SUFFICES ASSUME NEW k \in 1 .. (a + 1)
                 PROVE  Answer(more[p + k], b[k].id, Len(b))
      OBVIOUS
    <2>0. k \in DOMAIN batch /\ b[k].id = batch[k].id
      <3>1. a + 1 \in 1 .. Len(batch)
        BY <1>1
      <3>2. k \in DOMAIN batch
        BY <1>1, <3>1
      <3> QED BY <3>2
    <2>1. CASE k \in 1 .. a
      <3>1. p + k \in 1 .. Len(msgs)
        BY <1>2, <1>3, <2>1
      <3> QED BY <1>2, <1>3, <2>0, <2>1, <3>1
    <2>2. CASE k = a + 1
      <3>1. p + k = Len(msgs) + 1
        BY <1>2, <1>3, <2>2
      <3> QED BY <1>1, <1>2, <2>0, <2>2, <3>1
    <2> QED BY <2>1, <2>2
  <1>8. AnsweredUpTo(more, b, p, a + 1)
    BY <1>1, <1>3, <1>5, <1>6, <1>7 DEF AnsweredUpTo
  <1> QED BY <1>8 DEF more

LEMMA ConversationKept ==
  ASSUME LoopInv, LoopNext
  PROVE  Conversation'
  <1>0. LoopTypes /\ InOrder /\ Conversation /\ LoopTypes' /\ InOrder'
    BY TypesKeep DEF LoopInv
  <1>a. /\ batch \in Seq(Entries) /\ msgs \in Seq(Messages)
        /\ Len(batch) \in Nat /\ DOMAIN batch = 1 .. Len(batch)
        /\ batch' \in Seq(Entries) /\ msgs' \in Seq(Messages)
    BY <1>0 DEF LoopTypes
  <1> USE DEF Goto
  <1>1. CASE Quiet
    <2>1. msgs' = msgs /\ pc \notin Busy /\ pc' \notin Busy
      BY <1>0, <1>1, QuietSteps
    <2> QED BY <1>0, <2>1 DEF Conversation
  <1>2. CASE ChatAsks
    <2>1. Complete(msgs, Len(msgs)) /\ pc = "chat"
      BY <1>0, <1>2, Asked DEF Conversation, Busy
    <2>2. CASE pc' = "after" /\ msgs' = msgs
      BY <2>1, <2>2 DEF Conversation, Busy
    <2>3. CASE pc' \in {"serial", "evaluate"}
      <3>1. PICK m \in Messages :
               /\ msgs' = Append(msgs, m)
               /\ m.role = "assistant" /\ Len(m.ids) = Len(batch')
               /\ \A i \in DOMAIN batch' : m.ids[i] = batch'[i].id
        BY <1>0, <1>2, <2>3, Asked
      <3>2. Settled' = {} /\ Current' = 1
        <4>1. \A i \in DOMAIN batch' : batch'[i].outcome = "open"
          BY <1>0, <1>2, <2>3, Asked
        <4> QED BY <4>1, NoneSettledNext
      <3>3. PICK p \in Nat : p = Len(msgs) + 1
        BY <1>a
      <3>4. /\ Len(msgs') = p /\ msgs'[p] = m /\ p - 1 = Len(msgs)
            /\ \A i \in 1 .. Len(msgs) : msgs'[i] = msgs[i]
        BY <1>a, <3>1, <3>3, AppendTyped
      <3>5. Complete(msgs', p - 1)
        <4>1. \A i \in 1 .. Len(msgs) : Len(msgs[i].ids) \in Nat
          <5> SUFFICES ASSUME NEW i \in 1 .. Len(msgs) PROVE Len(msgs[i].ids) \in Nat
            OBVIOUS
          <5>1. msgs[i] \in Messages
            BY <1>a
          <5> QED BY <5>1 DEF Messages
        <4>2. PICK l \in Nat : l = Len(msgs)
          BY <1>a
        <4>3. Complete(msgs', l)
          BY <2>1, <3>4, <4>1, <4>2, CompleteSame
        <4> QED BY <3>4, <4>2, <4>3
      <3>6. AnsweredUpTo(msgs', batch', p, 0)
        <4>1. p \in 1 .. Len(msgs') /\ Len(msgs') = p + 0 /\ DOMAIN batch' = 1 .. Len(batch')
          BY <1>a, <3>3, <3>4
        <4> QED BY <3>1, <3>4, <3>5, <4>1 DEF AnsweredUpTo
      <3>7. Answers' = 0
        BY <2>3, <3>2 DEF Answers
      <3>8. p \in DOMAIN msgs'
        BY <1>a, <3>3, <3>4
      <3> QED BY <2>3, <3>6, <3>7, <3>8 DEF Conversation, Busy
    <2> QED BY <1>0, <1>2, <2>2, <2>3, Asked
  <1>3. CASE SerialGate
    <2>1. /\ pc = "serial" /\ Current \in DOMAIN batch /\ Evaluate(Current)
          /\ \/ pc' = "dispatch" /\ msgs' = msgs
             \/ pc' = "serial" /\ msgs' = Append(msgs, ToolMessage(Current))
      BY <1>3 DEF SerialGate
    <2>2. PICK p \in DOMAIN msgs : AnsweredUpTo(msgs, batch, p, Current - 1)
      BY <1>0, <2>1 DEF Conversation, Answers, Busy
    <2>3. PICK o \in Outcomes \ {"open", "ran"} : Outcome(Current, o)
      BY <1>0, <2>1, Evaluated
    <2>4. /\ Len(batch') = Len(batch) /\ \A i \in DOMAIN batch : batch'[i].id = batch[i].id
          /\ Current' = Current + 1 /\ Current \in Nat \ {0} /\ p \in Nat
      BY <1>0, <1>a, <2>1, <2>3, OutcomeSet, NextSettled
    <2>5. CASE pc' = "dispatch" /\ msgs' = msgs
      <3>1. Answers' = Current - 1 /\ Current - 1 <= Len(batch)
        BY <1>a, <2>1, <2>4, <2>5 DEF Answers
      <3>2. AnsweredUpTo(msgs, batch', p, Current - 1)
        <4>1. PICK a \in Nat : a = Current - 1 /\ a <= Len(batch)
          BY <2>4, <3>1
        <4>2. AnsweredUpTo(msgs, batch, p, a)
          BY <2>2, <4>1
        <4>3. \A k \in 1 .. a : k \in DOMAIN batch
          BY <1>a, <4>1
        <4>4. AnsweredUpTo(msgs, batch', p, a)
          BY <1>a, <2>4, <4>2, <4>3 DEF AnsweredUpTo
        <4> QED BY <4>1, <4>4
      <3> QED BY <2>5, <3>1, <3>2 DEF Conversation, Busy
    <2>6. CASE pc' = "serial" /\ msgs' = Append(msgs, ToolMessage(Current))
      <3>1. Answers' = Current
        BY <2>4, <2>6 DEF Answers
      <3>2. AnsweredUpTo(msgs', batch', p, Current)
        <4>1. PICK a \in Nat : a = Current - 1 /\ Current = a + 1
          BY <2>4
        <4> QED BY <1>0, <1>a, <2>1, <2>2, <2>4, <2>6, <4>1, OneMoreAnswer
      <3>3. p \in DOMAIN msgs'
        BY <1>a, <3>2 DEF AnsweredUpTo
      <3> QED BY <2>6, <3>1, <3>2, <3>3 DEF Conversation, Busy
    <2> QED BY <2>1, <2>5, <2>6
  <1>4. CASE SerialRun
    <2>1. /\ pc = "dispatch" /\ pc' = "serial" /\ batch' = batch
          /\ msgs' = Append(msgs, ToolMessage(Current - 1))
      BY <1>4 DEF SerialRun
    <2>2. PICK p \in DOMAIN msgs : AnsweredUpTo(msgs, batch, p, Current - 2)
      BY <1>0, <2>1 DEF Conversation, Answers, Busy
    <2>3. Current' = Current
      BY <2>1 DEF Current, Settled
    <2>4. PICK a \in Nat : a = Current - 2 /\ Current - 1 = a + 1 /\ a + 1 \in DOMAIN batch
      BY <1>0, <1>a, <2>1 DEF InOrder
    <2>5. AnsweredUpTo(msgs', batch', p, a + 1)
      BY <1>0, <1>a, <2>1, <2>2, <2>4, OneMoreAnswer
    <2>6. Answers' = a + 1
      BY <2>1, <2>3, <2>4 DEF Answers
    <2>7. p \in DOMAIN msgs'
      BY <1>a, <2>5 DEF AnsweredUpTo
    <2> QED BY <2>1, <2>5, <2>6, <2>7 DEF Conversation, Busy
  <1>5. CASE EndTurn
    <2>1. pc = "serial" /\ pc' = "turn" /\ msgs' = msgs /\ Current \notin DOMAIN batch
      BY <1>5 DEF EndTurn
    <2>2. Current - 1 = Len(batch)
      BY <1>0, <1>a, <2>1 DEF InOrder
    <2>3. PICK p \in DOMAIN msgs : AnsweredUpTo(msgs, batch, p, Len(batch))
      BY <1>0, <2>1, <2>2 DEF Conversation, Answers, Busy
    <2>4. Complete(msgs, Len(msgs))
      BY <1>a, <2>3, AllAnswered
    <2> QED BY <2>1, <2>4 DEF Conversation, Busy
  <1>6. CASE ParallelGate
    <2>1. /\ pc = "evaluate" /\ pc' \in {"evaluate", "workers"} /\ msgs' = msgs
          /\ Current \in DOMAIN batch => Evaluate(Current)
          /\ Current \notin DOMAIN batch => batch' = batch
      BY <1>6 DEF ParallelGate
    <2>2. PICK p \in DOMAIN msgs : AnsweredUpTo(msgs, batch, p, 0)
      BY <1>0, <2>1 DEF Conversation, Answers, Busy
    <2>3. Len(batch') = Len(batch) /\ \A i \in DOMAIN batch : batch'[i].id = batch[i].id
      BY <1>0, <2>1, Evaluated, OutcomeSet
    <2>4. AnsweredUpTo(msgs', batch', p, 0) /\ Answers' = 0
      BY <1>a, <2>1, <2>2, <2>3 DEF AnsweredUpTo, Answers
    <2> QED BY <2>1, <2>4 DEF Conversation, Busy
  <1>7. ASSUME NEW i \in DOMAIN batch, Worker(i) PROVE Conversation'
    <2>1. pc = "workers" /\ pc' = pc /\ msgs' = msgs /\ Outcome(i, "ran")
      BY <1>7 DEF Worker
    <2>2. PICK p \in DOMAIN msgs : AnsweredUpTo(msgs, batch, p, 0)
      BY <1>0, <2>1 DEF Conversation, Answers, Busy
    <2>3. Len(batch') = Len(batch) /\ \A j \in DOMAIN batch : batch'[j].id = batch[j].id
      BY <1>0, <2>1, OutcomeSet DEF Outcomes
    <2>4. AnsweredUpTo(msgs', batch', p, 0) /\ Answers' = 0
      BY <1>a, <2>1, <2>2, <2>3 DEF AnsweredUpTo, Answers
    <2> QED BY <2>1, <2>4 DEF Conversation, Busy
  <1>8. CASE Gather
    <2> DEFINE answers == [i \in DOMAIN batch |-> ShortMessage(i)]
    <2>1. pc = "workers" /\ pc' = "turn" /\ msgs' = msgs \o answers
      BY <1>8 DEF Gather
    <2>2. PICK p \in DOMAIN msgs : AnsweredUpTo(msgs, batch, p, 0)
      BY <1>0, <2>1 DEF Conversation, Answers, Busy
    <2>3. /\ Len(msgs) = p /\ Len(msgs) \in Nat /\ p \in Nat \ {0}
          /\ Complete(msgs, p - 1) /\ msgs[p].role = "assistant"
          /\ Len(msgs[p].ids) = Len(batch)
          /\ \A i \in 1 .. Len(batch) : msgs[p].ids[i] = batch[i].id
      BY <1>a, <2>2 DEF AnsweredUpTo
    <2>4. /\ answers \in Seq(Messages) /\ Len(answers) = Len(batch)
          /\ \A k \in 1 .. Len(batch) : Answer(answers[k], batch[k].id, Len(batch))
      <3>1. \A i \in 1 .. Len(batch) :
               /\ ShortMessage(i) \in Messages
               /\ Answer(ShortMessage(i), batch[i].id, Len(batch))
        BY <1>0, <1>a, <2>1, ToolMessageTyped DEF InOrder
      <3> QED BY <1>a, <3>1
    <2> HIDE DEF answers
    <2>5. /\ Len(msgs') = p + Len(batch)
          /\ \A i \in 1 .. p : msgs'[i] = msgs[i]
          /\ \A k \in 1 .. Len(batch) : msgs'[p + k] = answers[k]
      <3>1. /\ Len(msgs \o answers) = Len(msgs) + Len(answers)
            /\ \A i \in 1 .. Len(msgs) : (msgs \o answers)[i] = msgs[i]
            /\ \A k \in 1 .. Len(answers) : (msgs \o answers)[Len(msgs) + k] = answers[k]
        <4>1. msgs \in Seq(Messages) /\ answers \in Seq(Messages)
          BY <1>a, <2>4
        <4> QED BY <4>1, ConcatTyped
      <3>2. Len(msgs) = p /\ Len(answers) = Len(batch) /\ msgs' = msgs \o answers
        BY <2>1, <2>3, <2>4
      <3> QED BY <3>1, <3>2
    <2>6. Complete(msgs', p - 1)
      <3>1. \A i \in 1 .. Len(msgs) : Len(msgs[i].ids) \in Nat
        <4> SUFFICES ASSUME NEW i \in 1 .. Len(msgs) PROVE Len(msgs[i].ids) \in Nat
          OBVIOUS
        <4>1. msgs[i] \in Messages
          BY <1>a
        <4> QED BY <4>1 DEF Messages
      <3>2. PICK l \in Nat : l = p - 1
        BY <2>3
      <3>3. \A i \in 1 .. l : msgs'[i] = msgs[i] /\ Len(msgs[i].ids) \in Nat
        BY <2>3, <2>5, <3>1, <3>2
      <3>4. Complete(msgs', l)
        BY <2>3, <3>2, <3>3, CompleteSame
      <3> QED BY <3>2, <3>4
    <2>7. AnsweredUpTo(msgs', batch, p, Len(batch))
      <3>1. p \in 1 .. Len(msgs') /\ msgs'[p] = msgs[p]
        BY <1>a, <2>3, <2>5
      <3> QED BY <2>3, <2>4, <2>5, <2>6, <3>1 DEF AnsweredUpTo
    <2>8. Complete(msgs', Len(msgs'))
      BY <1>a, <2>3, <2>7, AllAnswered
    <2> QED BY <2>1, <2>8 DEF Conversation, Busy
  <1>9. CASE Cancel \/ Elsewhere
    <2>1. UNCHANGED <<pc, msgs, batch>>
      BY <1>9 DEF Cancel, Elsewhere
    <2>2. Answers' = Answers
      BY <2>1 DEF Answers, Current, Settled
    <2> QED BY <1>0, <2>1, <2>2 DEF Conversation
  <1> QED BY <1>1, <1>2, <1>3, <1>4, <1>5, <1>6, <1>7, <1>8, <1>9
          DEF LoopNext, LoopStep, Quiet
-----------------------------------------------------------------------------
(* The verdict.                                                              *)
LEMMA VerdictKept ==
  ASSUME LoopInv, LoopNext
  PROVE  Verdict'
  <1>0. LoopTypes /\ Verdict
    BY DEF LoopInv
  <1> USE DEF Goto, Verdict, Save, Status
  <1>a. result \in Results
    BY <1>0
  <1>1. CASE Begin
    <2>1. /\ pc = "start" /\ pc' \in {"turn", "ended"}
          /\ UNCHANGED <<text, saved, cancelled>> /\ text = << >> /\ saved = << >>
          /\ pc' = "ended" => verdict' = Append(<< >>, "error")
          /\ pc' = "turn" => UNCHANGED <<result, verdict>>
      BY <1>0, <1>1 DEF Begin
    <2>2. result' \in Results /\ result'.gotText = result.gotText
      BY <1>a, <1>1 DEF Begin, Results
    <2>3. pc' = "ended" => Len(verdict') = 1
      BY <2>1
    <2>4. Kept'
      BY <2>1 DEF Kept
    <2> QED BY <1>0, <2>1, <2>2, <2>3, <2>4
  <1>2. CASE PreTurn
    <2>1. /\ pc = "turn" /\ pc' \in {"chat", "after"}
          /\ text' = text \/ text' = << >>
          /\ UNCHANGED <<saved, verdict>>
      BY <1>0, <1>2 DEF PreTurn
    <2>2. result' \in Results /\ result'.gotText = result.gotText
      BY <1>a, <1>2 DEF PreTurn, PreTurnStatuses, Results
    <2>3. text' \in Seq(Nat) /\ saved = << >> /\ verdict = << >> /\ ~ result.gotText
      <3>1. << >> \in Seq(Nat)
        OBVIOUS
      <3> QED BY <1>0, <2>1, <3>1
    <2> QED BY <2>1, <2>2, <2>3
  <1>13. CASE Stream \/ Hang
    <2>1. stats.tokens \in Nat
      BY <1>0, Counters
    <2> QED BY <1>0, <1>13, <2>1 DEF Stream, Hang
  <1>3. CASE RetryChat
    BY <1>0, <1>3 DEF RetryChat
  <1>4. CASE ChatFails
    <2>1. pc = "chat" /\ pc' = "after" /\ UNCHANGED <<text, saved, verdict>>
      BY <1>0, <1>4 DEF ChatFails
    <2>2. result' \in Results /\ result'.gotText = result.gotText
      BY <1>a, <1>4 DEF ChatFails, Results
    <2> QED BY <1>0, <2>1, <2>2
  <1>5. CASE ChatAnswers
    <2>1. pc = "chat" /\ UNCHANGED <<text, verdict, cancelled>> /\ saved = << >> /\ ~ result.gotText
      BY <1>0, <1>5 DEF ChatAnswers, Answering
    <2>2. CASE cancelled
      <3>1. pc' = "after" /\ saved' = saved
        BY <1>5, <2>2 DEF ChatAnswers
      <3>2. result' \in Results /\ result'.gotText = result.gotText
        BY <1>a, <1>5, <2>2 DEF ChatAnswers, Results
      <3> QED BY <1>0, <2>1, <3>1, <3>2
    <2>3. CASE ~ cancelled
      <3>1. /\ result' = [result EXCEPT !.status = "OK", !.gotText = TRUE] /\ pc' = "finish"
            /\ saved' = << >> \/ saved' = <<text>>
            /\ text # << >> => saved' # << >>
        BY <1>5, <2>1, <2>3 DEF ChatAnswers
      <3>2. result' \in Results /\ result'.gotText
        BY <1>a, <3>1 DEF Results
      <3> QED BY <1>0, <2>1, <3>1, <3>2 DEF Kept
    <2> QED BY <2>2, <2>3
  <1>6. CASE After
    <2>1. /\ pc = "after" /\ pc' \in {"wrap", "finish"}
          /\ text' = text \/ text' = << >>
          /\ UNCHANGED <<saved, verdict>> /\ saved = << >>
      BY <1>0, <1>6 DEF After
    <2>2. result' \in Results /\ result'.gotText = result.gotText
      BY <1>a, <1>6 DEF After, Results
    <2>3. Kept'
      BY <2>1 DEF Kept
    <2>4. text' \in Seq(Nat) /\ verdict = << >> /\ ~ result.gotText
      <3>1. << >> \in Seq(Nat)
        OBVIOUS
      <3> QED BY <1>0, <2>1, <3>1
    <2> QED BY <2>1, <2>2, <2>3, <2>4
  <1>7. CASE WrapUp
    <2>1. /\ pc = "wrap" /\ pc' = "finish" /\ UNCHANGED <<text, verdict, cancelled>>
          /\ saved = << >> /\ ~ result.gotText
          /\ stats.tokens \in 0 .. TokenBudget
      BY <1>0, <1>7, Counters, LoopAssumption DEF WrapUp, LoopInv, WithinBudgets
    <2>2. CASE UNCHANGED <<saved, result>>
      <3>1. Kept' /\ result' \in Results /\ ~ result'.gotText /\ saved' = << >>
        BY <1>a, <2>1, <2>2 DEF Kept
      <3>2. text' \in Seq(Nat) /\ verdict' = << >> /\ pc' = "finish"
        BY <1>0, <2>1
      <3> QED BY <3>1, <3>2
    <2>3. ASSUME NEW t \in {text, Append(text, stats.tokens)}, t # text => cancelled,
                 saved' = Append(saved, t),
                 result' = [result EXCEPT !.status = "OK", !.gotText = TRUE]
          PROVE  Verdict'
      <3>1. result' \in Results /\ result'.gotText
        BY <1>a, <2>3 DEF Results
      <3>2. saved' = <<t>> /\ saved' # << >>
        <4>1. Append(<< >>, t) = <<t>> /\ <<t>> # << >>
          OBVIOUS
        <4> QED BY <2>1, <2>3, <4>1
      <3>3. Kept'
        <4>1. CASE t = text
          BY <2>1, <3>2, <4>1 DEF Kept
        <4>2. CASE t # text
          <5>1. cancelled' /\ saved' = <<Append(text', stats.tokens)>>
            BY <2>1, <2>3, <3>2, <4>2
          <5> QED BY <2>1, <5>1 DEF Kept
        <4> QED BY <4>1, <4>2
      <3>4. text' \in Seq(Nat) /\ verdict' = << >> /\ pc' = "finish"
        BY <1>0, <2>1
      <3> QED BY <3>1, <3>2, <3>3, <3>4
    <2> QED BY <1>7, <2>2, <2>3 DEF WrapUp
  <1>8. CASE Finish
    <2>1. /\ pc = "finish" /\ pc' = "ended" /\ UNCHANGED <<text, cancelled, result>>
          /\ Len(verdict') = 1 /\ Kept /\ text \in Seq(Nat) /\ result \in Results
      BY <1>0, <1>8 DEF Finish
    <2>2. CASE saved' = saved
      <3>1. text # << >> => saved # << >>
        BY <1>0, <1>8, <2>1, <2>2 DEF Finish
      <3> QED BY <2>1, <2>2, <3>1 DEF Kept
    <2>3. CASE saved' = Append(saved, text) /\ ~ result.gotText
      <3>1. saved' = <<text>>
        <4>1. saved = << >> /\ Append(<< >>, text) = <<text>>
          BY <1>0, <2>1, <2>3
        <4> QED BY <2>3, <4>1
      <3> QED BY <2>1, <3>1 DEF Kept
    <2> QED BY <1>8, <2>2, <2>3 DEF Finish
  <1>9. CASE ChatAsks
    <2>1. result' \in Results /\ result'.gotText = result.gotText /\ text' = text
      BY <1>a, <1>9 DEF ChatAsks, Results
    <2>2. pc = "chat" /\ pc' \in {"after", "serial", "evaluate"} /\ UNCHANGED <<saved, verdict>>
      BY <1>0, <1>9, Asked
    <2> QED BY <1>0, <2>1, <2>2
  <1>10. CASE SerialGate \/ SerialRun \/ EndTurn \/ ParallelGate \/ Gather
    BY <1>0, <1>10 DEF SerialGate, SerialRun, EndTurn, ParallelGate, Gather
  <1>11. ASSUME NEW i \in DOMAIN batch, Worker(i) PROVE Verdict'
    BY <1>0, <1>11 DEF Worker
  <1>12. CASE Cancel \/ Elsewhere
    BY <1>0, <1>12 DEF Cancel, Elsewhere, Kept
  <1> QED BY <1>1, <1>2, <1>3, <1>4, <1>5, <1>6, <1>7, <1>8, <1>9, <1>10, <1>11, <1>12, <1>13
          DEF LoopNext, LoopStep

-----------------------------------------------------------------------------
LEMMA LoopStepKeeps == LoopInv /\ [LoopNext]_loopVars => LoopInv'
  <1> SUFFICES ASSUME LoopInv, [LoopNext]_loopVars PROVE LoopInv'
    OBVIOUS
  <1>1. CASE LoopNext
    BY <1>1, TypesKeep, BudgetsKept, OnceKept, ConversationKept, VerdictKept DEF LoopInv
  <1>2. CASE UNCHANGED loopVars
    <2>1. LoopTypes' /\ InOrder'
      BY <1>2 DEF loopVars, LoopInv, LoopTypes, InOrder, Settled, Current
    <2>2. WithinBudgets'
      BY <1>2 DEF loopVars, LoopInv, WithinBudgets, RanNow, Settled, Current
    <2>3. OnceEach'
      <3>1. Going' = Going /\ UNCHANGED <<seenHashes, ran, batch>>
        BY <1>2 DEF loopVars, Going, Settled, Current
      <3> QED BY <3>1 DEF LoopInv, OnceEach
    <2>4. Conversation'
      <3>1. Answers' = Answers /\ UNCHANGED <<pc, msgs, batch>>
        BY <1>2 DEF loopVars, Answers, Settled, Current
      <3> QED BY <3>1 DEF LoopInv, Conversation
    <2>5. Verdict'
      BY <1>2 DEF loopVars, LoopInv, Verdict, Kept
    <2> QED BY <2>1, <2>2, <2>3, <2>4, <2>5 DEF LoopInv
  <1> QED BY <1>1, <1>2

(* The invariant above holds in every state of a run.                        *)
THEOREM LoopAlways == LoopSpec => []LoopInv
  BY LoopStart, LoopStepKeeps, PTL DEF LoopSpec

(* The conversation sent to the model is one the providers accept, whatever  *)
(* became of the calls and whether they ran one by one or in threads.        *)
THEOREM EveryCallAnsweredAlways == LoopSpec => []EveryCallAnswered
  <1>1. LoopInv => EveryCallAnswered
    <2> SUFFICES ASSUME LoopInv, pc \in {"chat", "wrap"}
                 PROVE  \A i \in DOMAIN msgs : msgs[i].role = "assistant" =>
                          LET n == Len(msgs[i].ids) IN
                          /\ i + n <= Len(msgs)
                          /\ \A k \in 1 .. n : Answer(msgs[i + k], msgs[i].ids[k], n)
                          /\ i + n < Len(msgs) => msgs[i + n + 1].role = "assistant"
      BY DEF EveryCallAnswered
    <2>1. Complete(msgs, Len(msgs)) /\ DOMAIN msgs = 1 .. Len(msgs)
      BY DEF LoopInv, Conversation, Busy, LoopTypes
    <2> QED BY <2>1 DEF Complete
  <1> QED BY <1>1, LoopAlways, PTL

(* A tool is not executed twice on the same arguments in one run.            *)
THEOREM NoDoubleRunAlways == LoopSpec => []NoDoubleRun
  <1>1. LoopInv => NoDoubleRun
    <2> SUFFICES ASSUME LoopInv, NEW i \in DOMAIN ran, NEW j \in DOMAIN ran,
                        i # j, ran[i] = ran[j]
                 PROVE  Cardinality(seenHashes) >= DupSlots
      BY DEF NoDoubleRun
    <2>1. ~ (Cardinality(seenHashes) < DupSlots)
      BY DEF LoopInv, OnceEach
    <2>2. Cardinality(seenHashes) \in Nat /\ DupSlots \in Nat
      BY LoopAssumption, FS_CardinalityType DEF LoopInv, LoopTypes
    <2> QED BY <2>1, <2>2
  <1> QED BY <1>1, LoopAlways, PTL

(* Turns, model calls and tool calls stay within their budgets.              *)
THEOREM BudgetsHoldAlways == LoopSpec => []BudgetsHold
  <1>1. LoopInv => BudgetsHold
    <2> SUFFICES ASSUME LoopInv PROVE BudgetsHold
      OBVIOUS
    <2>0. LoopTypes /\ WithinBudgets
      BY DEF LoopInv
    <2>1. Cardinality(RanNow) \in 0 .. Len(batch)
      BY <2>0, RanFinite
    <2>2. Cardinality(DOMAIN batch) = Len(batch)
      BY <2>0, Counters, CountTo DEF LoopTypes
    <2>3. Len(ran) <= stats.tools + Cardinality(DOMAIN batch)
      BY <2>0, <2>1, <2>2, Counters DEF WithinBudgets
    <2> QED BY <2>0, <2>3 DEF WithinBudgets, BudgetsHold
  <1> QED BY <1>1, LoopAlways, PTL

(* The client hears one verdict; what is kept is the answer it was shown, also *)
(* when it left while it came; and no answer it was shown is forgotten.        *)
THEOREM OneVerdictAlways == LoopSpec => []OneVerdict
  <1>1. LoopInv => OneVerdict
    <2> SUFFICES ASSUME LoopInv PROVE OneVerdict
      OBVIOUS
    <2>1. Verdict
      BY DEF LoopInv
    <2>2. verdict # << >> <=> pc = "ended"
      <3>1. CASE pc = "ended"
        <4>1. Len(verdict) = 1 /\ Len(<< >>) = 0
          BY <2>1, <3>1 DEF Verdict
        <4>2. verdict # << >>
          BY <4>1
        <4> QED BY <3>1, <4>2
      <3>2. CASE pc # "ended"
        BY <2>1, <3>2 DEF Verdict
      <3> QED BY <3>1, <3>2
    <2>3. Len(verdict) <= 1
      <3>1. Len(verdict) = 1 \/ verdict = << >>
        BY <2>1 DEF Verdict
      <3> QED BY <3>1
    <2>4. /\ Len(saved) <= 1
          /\ saved # << >> =>
                \/ saved[1] = text
                \/ cancelled /\ \E p \in 0 .. TokenBudget : saved[1] = Append(text, p)
      <3>1. Kept
        BY <2>1 DEF Verdict, Kept
      <3>2. CASE saved = << >>
        BY <3>2
      <3>3. CASE saved = <<text>>
        BY <3>3
      <3>4. ASSUME cancelled, NEW p \in 0 .. TokenBudget, saved = <<Append(text, p)>>
            PROVE  /\ Len(saved) <= 1 /\ saved[1] = Append(text, p)
                   /\ cancelled
        BY <3>4
      <3> QED BY <3>1, <3>2, <3>3, <3>4 DEF Kept
    <2>5. pc = "ended" /\ text # << >> => saved # << >>
      BY <2>1 DEF Verdict
    <2> QED BY <2>2, <2>3, <2>4, <2>5 DEF OneVerdict
  <1> QED BY <1>1, LoopAlways, PTL

-----------------------------------------------------------------------------
(* The snapshots, for any number of requests that use and save them.         *)
Values == Savers \cup {Unset, Nowhere}
Config == [key : Values, model : Values]
Snapshots == [config : Config, refs : Nat, freed : BOOLEAN]
Points == {"idle", "merge", "ask", "asked", "copy", "crashed", "store", "file", "swap",
           "drop", "reload", "install", "over"}
Saves == [at : Points, draft : Config, old : Nat, inRow : BOOLEAN]

SettingsTypes ==
    /\ inDb \in Config /\ inFile \in Config
    /\ snap \in Seq(Snapshots)
    /\ holds \in [Holders -> Nat]
    /\ asker \in [Askers -> {"idle", "using", "over"}]
    /\ saver \in [Savers -> Saves]

(* Who has a reference to a snapshot: its count is their number.             *)
HoldersOf(n) == {h \in Holders : holds[h] = n}
Counted ==
    \A n \in DOMAIN snap :
        /\ snap[n].refs = Cardinality(HoldersOf(n))
        /\ snap[n].freed <=> snap[n].refs = 0

(* Only snapshots that were made are held, and by those who are at a point   *)
(* between taking a reference and giving it up.                              *)
Holding ==
    /\ \A h \in Holders : holds[h] \in 0 .. Len(snap)
    /\ \A a \in Askers : /\ asker[a] = "idle" => holds[a] = NoSnapshot
                         /\ asker[a] = "using" => holds[a] # NoSnapshot
    /\ \A s \in Savers : /\ saver[s].at \notin {"asked", "drop"} => holds[s] = NoSnapshot
                         /\ saver[s].at = "asked" => holds[s] # NoSnapshot

SettingsInv == SettingsTypes /\ Counted /\ Holding

-----------------------------------------------------------------------------
LEMMA HoldersFinite == IsFiniteSet(Holders)
  <1>1. IsFiniteSet(Askers \cup Savers)
    BY SettingsAssumption, FS_Union
  <1> QED BY <1>1, FS_AddElement DEF Holders

LEMMA HoldersOfFinite == \A n : IsFiniteSet(HoldersOf(n)) /\ Cardinality(HoldersOf(n)) \in Nat
  <1> SUFFICES ASSUME NEW n PROVE IsFiniteSet(HoldersOf(n)) /\ Cardinality(HoldersOf(n)) \in Nat
    OBVIOUS
  <1>1. HoldersOf(n) \in SUBSET Holders
    BY DEF HoldersOf
  <1>2. IsFiniteSet(HoldersOf(n))
    BY <1>1, HoldersFinite, FS_Subset
  <1> QED BY <1>2, FS_CardinalityType

(* One snapshot replaced.                                                    *)
LEMMA Replacing ==
  ASSUME snap \in Seq(Snapshots), NEW n \in DOMAIN snap, NEW e \in Snapshots,
         NEW r, r = [snap EXCEPT ![n] = e]
  PROVE  /\ r \in Seq(Snapshots) /\ DOMAIN r = DOMAIN snap /\ Len(r) = Len(snap)
         /\ r[n] = e
         /\ \A m \in DOMAIN snap : m # n => r[m] = snap[m]
  <1>1. n \in 1 .. Len(snap)
    OBVIOUS
  <1>2. r \in Seq(Snapshots) /\ Len(r) = Len(snap)
    BY <1>1, ExceptSeq
  <1> QED BY <1>2

(* A holder without a reference takes one to the snapshot n.                 *)
LEMMA TakingKeeps ==
  ASSUME SettingsInv, NEW n \in DOMAIN snap, NEW h \in Holders, holds[h] = NoSnapshot,
         snap' = Taken(n), ~ snap[n].freed,
         holds' = [holds EXCEPT ![h] = n]
  PROVE  /\ snap' \in Seq(Snapshots) /\ DOMAIN snap' = DOMAIN snap /\ Len(snap') = Len(snap)
         /\ Counted'
  <1>1. /\ snap \in Seq(Snapshots) /\ holds \in [Holders -> Nat]
        /\ n \in Nat /\ n # NoSnapshot /\ snap[n] \in Snapshots
    BY DEF SettingsInv, SettingsTypes, NoSnapshot
  <1>2. /\ snap' \in Seq(Snapshots) /\ DOMAIN snap' = DOMAIN snap /\ Len(snap') = Len(snap)
        /\ snap'[n].refs = snap[n].refs + 1 /\ snap'[n].freed = snap[n].freed
        /\ \A m \in DOMAIN snap : m # n => snap'[m] = snap[m]
    <2> DEFINE e == Counts(n, snap[n].refs + 1, snap[n].freed)
    <2>1. e \in Snapshots /\ e.refs = snap[n].refs + 1 /\ e.freed = snap[n].freed
      BY <1>1 DEF Snapshots, Counts
    <2>2. snap' = [snap EXCEPT ![n] = e]
      BY DEF Taken
    <2> HIDE DEF e
    <2> QED BY <1>1, <2>1, <2>2, Replacing
  <1>3. HoldersOf(n)' = HoldersOf(n) \cup {h} /\ h \notin HoldersOf(n)
    BY <1>1 DEF HoldersOf
  <1>4. Cardinality(HoldersOf(n)') = Cardinality(HoldersOf(n)) + 1
    BY <1>3, HoldersOfFinite, FS_AddElement
  <1>5. \A m \in DOMAIN snap : m # n => HoldersOf(m)' = HoldersOf(m)
    BY <1>1 DEF HoldersOf, NoSnapshot
  <1>6. snap[n].refs = Cardinality(HoldersOf(n)) /\ snap[n].refs \in Nat
    BY <1>1 DEF SettingsInv, Counted, Snapshots
  <1>7. ASSUME NEW m \in DOMAIN snap'
        PROVE  /\ snap'[m].refs = Cardinality(HoldersOf(m)')
               /\ snap'[m].freed <=> snap'[m].refs = 0
    <2>1. CASE m = n
      <3>1. snap'[m].refs = Cardinality(HoldersOf(m)')
        BY <2>1, <1>2, <1>4, <1>6
      <3>2. snap'[m].freed <=> snap'[m].refs = 0
        BY <2>1, <1>2, <1>6
      <3> QED BY <3>1, <3>2
    <2>2. CASE m # n
      BY <2>2, <1>2, <1>5 DEF SettingsInv, Counted
    <2> QED BY <2>1, <2>2
  <1> QED BY <1>2, <1>7 DEF Counted

(* A holder gives its reference to the snapshot o up, and if it goes on with *)
(* another it is one that is not made yet.                                   *)
LEMMA DroppingCounts ==
  ASSUME SettingsInv, NEW h \in Holders, NEW o \in DOMAIN snap, holds[h] = o,
         NEW r, r = Dropped(o), holds'[h] \notin DOMAIN snap,
         \A g \in Holders : g # h => holds'[g] = holds[g]
  PROVE  /\ r \in Seq(Snapshots) /\ DOMAIN r = DOMAIN snap /\ Len(r) = Len(snap)
         /\ \A m \in DOMAIN snap : /\ r[m].refs = Cardinality(HoldersOf(m)')
                                   /\ r[m].freed <=> r[m].refs = 0
  <1>1. /\ snap \in Seq(Snapshots) /\ holds \in [Holders -> Nat]
        /\ holds'[h] # o /\ snap[o] \in Snapshots
    BY DEF SettingsInv, SettingsTypes
  <1>2. /\ r \in Seq(Snapshots) /\ DOMAIN r = DOMAIN snap /\ Len(r) = Len(snap)
        /\ r[o].refs = snap[o].refs - 1 /\ (r[o].freed <=> snap[o].refs = 1)
        /\ \A m \in DOMAIN snap : m # o => r[m] = snap[m]
    <2>1. snap[o].refs \in Nat /\ snap[o].refs # 0
      <3>1. snap[o].refs = Cardinality(HoldersOf(o)) /\ h \in HoldersOf(o)
        BY <1>1 DEF SettingsInv, Counted, HoldersOf
      <3>2. Cardinality(HoldersOf(o)) # 0
        BY <3>1, HoldersOfFinite, FS_EmptySet
      <3> QED BY <1>1, <3>1, <3>2 DEF Snapshots
    <2>2. snap[o].refs - 1 \in Nat
      BY <2>1
    <2> DEFINE e == Counts(o, snap[o].refs - 1, snap[o].refs = 1)
    <2>3. e \in Snapshots /\ e.refs = snap[o].refs - 1 /\ (e.freed <=> snap[o].refs = 1)
      BY <1>1, <2>2 DEF Snapshots, Counts
    <2>4. r = [snap EXCEPT ![o] = e]
      BY DEF Dropped
    <2> HIDE DEF e
    <2>5. /\ r \in Seq(Snapshots) /\ DOMAIN r = DOMAIN snap /\ Len(r) = Len(snap)
          /\ r[o] = e
          /\ \A m \in DOMAIN snap : m # o => r[m] = snap[m]
      BY <1>1, <2>3, <2>4, Replacing
    <2> QED BY <2>3, <2>5
  <1>3. HoldersOf(o)' = HoldersOf(o) \ {h} /\ h \in HoldersOf(o)
    BY <1>1 DEF HoldersOf
  <1>4. Cardinality(HoldersOf(o)') = Cardinality(HoldersOf(o)) - 1
    BY <1>3, HoldersOfFinite, FS_RemoveElement
  <1>5. \A m \in DOMAIN snap : m # o => HoldersOf(m)' = HoldersOf(m)
    BY <1>1 DEF HoldersOf
  <1>6. snap[o].refs = Cardinality(HoldersOf(o)) /\ snap[o].refs \in Nat
    BY <1>1 DEF SettingsInv, Counted, Snapshots
  <1>7. ASSUME NEW m \in DOMAIN snap
        PROVE  /\ r[m].refs = Cardinality(HoldersOf(m)')
               /\ r[m].freed <=> r[m].refs = 0
    <2>1. CASE m = o
      <3>1. r[m].refs = Cardinality(HoldersOf(m)')
        BY <2>1, <1>2, <1>4, <1>6
      <3>2. r[m].freed <=> r[m].refs = 0
        BY <2>1, <1>2, <1>6
      <3> QED BY <3>1, <3>2
    <2>2. CASE m # o
      BY <2>2, <1>2, <1>5 DEF SettingsInv, Counted
    <2> QED BY <2>1, <2>2
  <1> QED BY <1>2, <1>7

LEMMA DroppingKeeps ==
  ASSUME SettingsInv, NEW h \in Holders, NEW o \in DOMAIN snap, holds[h] = o,
         snap' = Dropped(o), holds' = [holds EXCEPT ![h] = NoSnapshot]
  PROVE  snap' \in Seq(Snapshots) /\ Len(snap') = Len(snap) /\ Counted'
  <1>1. /\ holds'[h] \notin DOMAIN snap
        /\ \A g \in Holders : g # h => holds'[g] = holds[g]
    BY DEF SettingsInv, SettingsTypes, NoSnapshot
  <1>2. /\ snap' \in Seq(Snapshots) /\ DOMAIN snap' = DOMAIN snap /\ Len(snap') = Len(snap)
        /\ \A m \in DOMAIN snap : /\ snap'[m].refs = Cardinality(HoldersOf(m)')
                                  /\ snap'[m].freed <=> snap'[m].refs = 0
    BY <1>1, DroppingCounts
  <1> QED BY <1>2 DEF Counted

(* A step that leaves the references alone.                                  *)
LEMMA RestKeeps ==
  ASSUME SettingsInv, SettingsTypes', UNCHANGED <<snap, holds>>,
         \A a \in Askers : /\ asker'[a] = "idle" => holds[a] = NoSnapshot
                           /\ asker'[a] = "using" => holds[a] # NoSnapshot,
         \A s \in Savers : /\ saver'[s].at \notin {"asked", "drop"} => holds[s] = NoSnapshot
                           /\ saver'[s].at = "asked" => holds[s] # NoSnapshot
  PROVE  SettingsInv'
  <1>1. Counted'
    BY DEF SettingsInv, Counted, HoldersOf
  <1>2. Holding'
    BY DEF SettingsInv, Holding
  <1> QED BY <1>1, <1>2 DEF SettingsInv

LEMMA SettingsStart == SettingsInit => SettingsInv
  <1> SUFFICES ASSUME SettingsInit PROVE SettingsInv
    OBVIOUS
  <1>1. /\ NoConfig \in Config /\ Blank \in Config /\ Blank # NoConfig
        /\ NoSave \in Saves
    BY DEF NoConfig, Blank, Config, Values, NoSave, Saves, Points, NoSnapshot, Unset, Nowhere
  <1>2. agreed \in Config
    BY <1>1 DEF SettingsInit
  <1>3. CASE agreed = NoConfig
    <2>1. snap = <<>> /\ Len(snap) = 0 /\ holds = [h \in Holders |-> NoSnapshot]
      BY <1>3 DEF SettingsInit, NoSnapshot
    <2>2. SettingsTypes
      BY <1>1, <2>1 DEF SettingsInit, SettingsTypes, NoSnapshot
    <2>3. Counted
      BY <2>1 DEF Counted
    <2>4. Holding
      BY <2>1 DEF Holding, Holders, SettingsInit, NoSnapshot, NoSave
    <2> QED BY <2>2, <2>3, <2>4 DEF SettingsInv
  <1>4. CASE agreed # NoConfig
    <2> DEFINE e == NewSnap(agreed)
    <2>1. e \in Snapshots /\ e.refs = 1 /\ ~ e.freed
      BY <1>2 DEF NewSnap, Snapshots
    <2>2. /\ snap = <<e>> /\ Len(snap) = 1 /\ DOMAIN snap = {1} /\ snap[1] = e
          /\ holds = [h \in Holders |-> IF h = Installed THEN 1 ELSE NoSnapshot]
      BY <1>4 DEF SettingsInit
    <2> HIDE DEF e
    <2>3. SettingsTypes
      <3>1. snap \in Seq(Snapshots)
        BY <2>1, <2>2
      <3> QED BY <1>1, <3>1, <2>2 DEF SettingsInit, SettingsTypes, NoSnapshot
    <2>4. HoldersOf(1) = {Installed}
      BY <2>2 DEF HoldersOf, Holders, NoSnapshot
    <2>5. Counted
      <3>1. Cardinality(HoldersOf(1)) = 1
        BY <2>4, FS_Singleton
      <3> QED BY <2>1, <2>2, <3>1 DEF Counted
    <2>6. Holding
      BY <2>2, SettingsAssumption DEF Holding, Holders, SettingsInit, NoSnapshot, NoSave
    <2> QED BY <2>3, <2>5, <2>6 DEF SettingsInv
  <1> QED BY <1>3, <1>4

(* What is held is a snapshot, and it is not freed.                          *)
LEMMA HeldIsAlive ==
  ASSUME SettingsInv, NEW h \in Holders, holds[h] # NoSnapshot
  PROVE  \E n \in DOMAIN snap : holds[h] = n /\ ~ snap[n].freed
  <1>1. PICK n \in DOMAIN snap : holds[h] = n
    <2>1. snap \in Seq(Snapshots) /\ holds[h] \in 0 .. Len(snap)
      BY DEF SettingsInv, SettingsTypes, Holding
    <2> QED BY <2>1 DEF NoSnapshot
  <1>2. snap[n].refs = Cardinality(HoldersOf(n)) /\ h \in HoldersOf(n)
    BY <1>1 DEF SettingsInv, Counted, HoldersOf
  <1>3. Cardinality(HoldersOf(n)) # 0
    BY <1>2, HoldersOfFinite, FS_EmptySet
  <1> QED BY <1>1, <1>2, <1>3 DEF SettingsInv, Counted

LEMMA AskerKeeps ==
  ASSUME SettingsInv, NEW a \in Askers, AskerStep(a)
  PROVE  SettingsInv'
  <1> USE DEF NoSnapshot
  <1>0. /\ a \in Holders /\ Installed \in Holders /\ a # Installed
        /\ Askers \subseteq Holders /\ Savers \subseteq Holders
        /\ \A s \in Savers : s # a
    BY SettingsAssumption DEF Holders
  <1>1. CASE Acquire(a) /\ holds[Installed] # NoSnapshot
    <2>1. PICK n \in DOMAIN snap : holds[Installed] = n /\ ~ snap[n].freed
      BY <1>0, <1>1, HeldIsAlive
    <2>2. /\ holds[a] = NoSnapshot /\ snap' = Taken(n) /\ holds' = [holds EXCEPT ![a] = n]
          /\ asker' = [asker EXCEPT ![a] = "using"] /\ saver' = saver
          /\ inDb' = inDb /\ inFile' = inFile
      BY <1>1, <2>1 DEF Acquire, SettingsInv, Holding
    <2>3. snap' \in Seq(Snapshots) /\ Len(snap') = Len(snap) /\ Counted'
      BY <1>0, <2>1, <2>2, TakingKeeps
    <2>4. n \in 1 .. Len(snap) /\ snap \in Seq(Snapshots) /\ holds \in [Holders -> Nat]
      BY DEF SettingsInv, SettingsTypes
    <2>5. SettingsTypes'
      BY <1>0, <2>2, <2>3, <2>4 DEF SettingsInv, SettingsTypes
    <2>6. Holding'
      BY <1>0, <2>2, <2>3, <2>4 DEF SettingsInv, SettingsTypes, Holding
    <2> QED BY <2>3, <2>5, <2>6 DEF SettingsInv
  <1>2. CASE Acquire(a) /\ holds[Installed] = NoSnapshot
    <2>1. /\ UNCHANGED <<snap, holds, saver, inDb, inFile>>
          /\ asker' = [asker EXCEPT ![a] = "over"]
      BY <1>2 DEF Acquire
    <2>2. SettingsTypes'
      BY <2>1 DEF SettingsInv, SettingsTypes
    <2> QED BY <2>1, <2>2, RestKeeps DEF SettingsInv, SettingsTypes, Holding
  <1>3. CASE Release(a)
    <2>1. holds[a] # NoSnapshot
      BY <1>3 DEF Release, SettingsInv, Holding
    <2>2. PICK o \in DOMAIN snap : holds[a] = o
      BY <1>0, <2>1, HeldIsAlive
    <2>3. /\ snap' = Dropped(o) /\ holds' = [holds EXCEPT ![a] = 0]
          /\ asker' = [asker EXCEPT ![a] = "over"] /\ saver' = saver
          /\ inDb' = inDb /\ inFile' = inFile
      BY <1>3, <2>2 DEF Release
    <2>4. /\ snap \in Seq(Snapshots) /\ holds \in [Holders -> Nat]
          /\ 0 \in Nat /\ 0 \notin DOMAIN snap
      BY DEF SettingsInv, SettingsTypes
    <2>5. snap' \in Seq(Snapshots) /\ Len(snap') = Len(snap) /\ Counted'
      BY <1>0, <2>2, <2>3, <2>4, DroppingKeeps
    <2>6. SettingsTypes'
      BY <1>0, <2>3, <2>4, <2>5 DEF SettingsInv, SettingsTypes
    <2>7. Holding'
      BY <1>0, <2>3, <2>4, <2>5 DEF SettingsInv, SettingsTypes, Holding
    <2> QED BY <2>5, <2>6, <2>7 DEF SettingsInv
  <1>4. CASE Forget(a)
    <2>1. /\ UNCHANGED <<snap, holds, saver, inDb, inFile>>
          /\ asker' = [asker EXCEPT ![a] = "over"]
      BY <1>4 DEF Forget
    <2>2. SettingsTypes'
      BY <2>1 DEF SettingsInv, SettingsTypes
    <2> QED BY <2>1, <2>2, RestKeeps DEF SettingsInv, SettingsTypes, Holding
  <1> QED BY <1>1, <1>2, <1>3, <1>4 DEF AskerStep

(* What a step leaves of a save.                                             *)
LEMMA SaverMoves ==
  ASSUME SettingsInv, NEW s \in Savers, NEW at \in Points, NEW draft \in Config,
         NEW old \in Nat, NEW inRow \in BOOLEAN, SaverIs(s, at, draft, old, inRow)
  PROVE  /\ saver' \in [Savers -> Saves]
         /\ saver'[s].at = at
         /\ \A t \in Savers : t # s => saver'[t] = saver[t]
  <1> DEFINE q == [at |-> at, draft |-> draft, old |-> old, inRow |-> inRow]
  <1>1. q \in Saves /\ q.at = at
    BY DEF Saves
  <1>2. saver' = [saver EXCEPT ![s] = q] /\ saver \in [Savers -> Saves]
    BY DEF SaverIs, SettingsInv, SettingsTypes
  <1> HIDE DEF q
  <1> QED BY <1>1, <1>2

(* What the steps of a save take from the invariant.                         *)
LEMMA SaverTyped ==
  ASSUME SettingsInv, NEW s \in Savers
  PROVE  /\ saver[s] \in Saves
         /\ saver[s].draft \in Config /\ saver[s].old \in Nat /\ saver[s].inRow \in BOOLEAN
         /\ inDb \in Config /\ inFile \in Config /\ Stored \in Config
         /\ NoConfig \in Config /\ Blank \in Config /\ NoSnapshot \in Nat
  <1>1. NoConfig \in Config /\ Blank \in Config /\ NoSnapshot \in Nat
    BY DEF NoConfig, Blank, Config, Values, NoSnapshot
  <1> QED BY <1>1 DEF SettingsInv, SettingsTypes, Saves, Stored

(* Steps of a save that work on the settings and not on the references.      *)
LEMMA SettingKeeps ==
  ASSUME SettingsInv, NEW s \in Savers,
         \/ Load(s) \/ MergeNamed(s) \/ CopyKey(s) \/ StoreRow(s) \/ StoreFile(s) \/ Reload(s)
  PROVE  SettingsInv'
  <1>1. /\ UNCHANGED <<snap, holds, asker>>
        /\ saver[s].at \notin {"asked", "drop"}
        /\ inDb' \in Config /\ inFile' \in Config
        /\ \E at \in Points \ {"asked", "drop"}, draft \in Config, old \in Nat, inRow \in BOOLEAN :
              SaverIs(s, at, draft, old, inRow)
    <2>1. CASE Load(s)
      <3>1. (IF Stored = NoConfig THEN Blank ELSE Stored) \in Config
        BY SaverTyped
      <3> QED BY <2>1, <3>1, SaverTyped DEF Load, SaverWith, Points
    <2>2. CASE MergeNamed(s)
      <3>1. PICK to \in {"ask", "store"}, draft \in Config : SaverWith(s, to, draft)
        BY <2>2, SaverTyped DEF MergeNamed, Config, Values
      <3> QED BY <2>2, <3>1, SaverTyped DEF MergeNamed, SaverWith, Points
    <2>3. CASE CopyKey(s)
      <3>1. PICK key \in Values, at \in {"ask", "store"} :
              SaverIs(s, at, [key |-> key, model |-> saver[s].draft.model], NoSnapshot, FALSE)
        BY <2>3 DEF CopyKey, Values
      <3>2. [key |-> key, model |-> saver[s].draft.model] \in Config
        BY SaverTyped DEF Config
      <3> QED BY <2>3, <3>1, <3>2, SaverTyped DEF CopyKey, Points
    <2>4. CASE StoreRow(s)
      BY <2>4, SaverTyped DEF StoreRow, SaverAt, SaverWith, Points
    <2>5. CASE StoreFile(s)
      BY <2>5, SaverTyped DEF StoreFile, SaverBeginsAt, Points
    <2>6. CASE Reload(s)
      BY <2>6, SaverTyped DEF Reload, SaverWith, Points
    <2> QED BY <2>1, <2>2, <2>3, <2>4, <2>5, <2>6
  <1>2. /\ saver' \in [Savers -> Saves] /\ saver'[s].at \notin {"asked", "drop"}
        /\ \A t \in Savers : t # s => saver'[t] = saver[t]
    BY <1>1, SaverMoves
  <1>3. SettingsTypes'
    BY <1>1, <1>2 DEF SettingsInv, SettingsTypes
  <1>4. \A t \in Savers : /\ saver'[t].at \notin {"asked", "drop"} => holds[t] = NoSnapshot
                          /\ saver'[t].at = "asked" => holds[t] # NoSnapshot
    BY <1>1, <1>2 DEF SettingsInv, Holding
  <1> QED BY <1>1, <1>3, <1>4, RestKeeps DEF SettingsInv, Holding

(* Steps of a save that change the references: what remains to be shown once *)
(* the counts are right.                                                     *)
LEMMA SavingHolds ==
  ASSUME SettingsInv, NEW s \in Savers, UNCHANGED <<inDb, inFile, asker>>,
         snap' \in Seq(Snapshots), Len(snap) <= Len(snap'), Counted',
         NEW at \in Points, NEW draft \in Config, NEW old \in Nat, NEW inRow \in BOOLEAN,
         SaverIs(s, at, draft, old, inRow),
         holds' \in [Holders -> Nat],
         holds'[s] \in 0 .. Len(snap'), holds'[Installed] \in 0 .. Len(snap'),
         \A h \in Holders : h \notin {s, Installed} => holds'[h] = holds[h],
         at \notin {"asked", "drop"} => holds'[s] = NoSnapshot,
         at = "asked" => holds'[s] # NoSnapshot
  PROVE  SettingsInv'
  <1>1. /\ saver' \in [Savers -> Saves] /\ saver'[s].at = at
        /\ \A t \in Savers : t # s => saver'[t] = saver[t]
    BY ONLY SettingsInv, s \in Savers, at \in Points, draft \in Config, old \in Nat,
            inRow \in BOOLEAN, SaverIs(s, at, draft, old, inRow), SaverMoves
  <1>2. SettingsTypes'
    BY <1>1 DEF SettingsInv, SettingsTypes
  <1>3. /\ Len(snap) \in Nat /\ Len(snap') \in Nat /\ holds \in [Holders -> Nat]
        /\ \A h \in Askers \cup Savers : h \in Holders /\ h # Installed
        /\ \A a \in Askers : a # s
    BY SettingsAssumption DEF SettingsInv, SettingsTypes, Holders
  <1>4. \A h \in Holders : holds'[h] \in 0 .. Len(snap')
    BY <1>3 DEF SettingsInv, Holding
  <1>5. \A a \in Askers : /\ asker'[a] = "idle" => holds'[a] = NoSnapshot
                          /\ asker'[a] = "using" => holds'[a] # NoSnapshot
    BY <1>3 DEF SettingsInv, Holding
  <1>6. \A t \in Savers : /\ saver'[t].at \notin {"asked", "drop"} => holds'[t] = NoSnapshot
                          /\ saver'[t].at = "asked" => holds'[t] # NoSnapshot
    BY <1>1, <1>3 DEF SettingsInv, Holding
  <1>7. Holding'
    BY <1>4, <1>5, <1>6 DEF Holding
  <1> QED BY <1>2, <1>7 DEF SettingsInv

(* A save takes a reference, or finds no snapshot to take one to.            *)
LEMMA AskKeeps ==
  ASSUME SettingsInv, NEW s \in Savers, AskSnapshot(s)
  PROVE  SettingsInv'
  <1>0. /\ s \in Holders /\ Installed \in Holders /\ s # Installed
        /\ holds \in [Holders -> Nat] /\ snap \in Seq(Snapshots)
        /\ \A h \in Holders : holds[h] \in 0 .. Len(snap)
    BY SettingsAssumption DEF Holders, SettingsInv, SettingsTypes, Holding
  <1>1. CASE holds[Installed] # NoSnapshot
    <2>1. PICK n \in DOMAIN snap : holds[Installed] = n /\ ~ snap[n].freed
      BY <1>0, <1>1, HeldIsAlive
    <2>2. /\ holds[s] = NoSnapshot /\ snap' = Taken(n) /\ holds' = [holds EXCEPT ![s] = n]
          /\ SaverIs(s, "asked", saver[s].draft, saver[s].old, saver[s].inRow)
          /\ UNCHANGED <<inDb, inFile, asker>>
      BY <1>1, <2>1 DEF AskSnapshot, SaverAt, SaverWith, SettingsInv, Holding
    <2>3. snap' \in Seq(Snapshots) /\ Len(snap') = Len(snap) /\ Counted'
      BY <1>0, <2>1, <2>2, TakingKeeps
    <2>4. n \in 1 .. Len(snap) /\ n # NoSnapshot /\ "asked" \in Points /\ Len(snap) <= Len(snap')
      BY <1>0, <2>3 DEF NoSnapshot, Points
    <2>5. /\ holds' \in [Holders -> Nat] /\ holds'[s] = n /\ holds'[Installed] = n
          /\ n \in 0 .. Len(snap')
          /\ \A h \in Holders : h \notin {s, Installed} => holds'[h] = holds[h]
      BY <1>0, <2>1, <2>2, <2>3, <2>4
    <2> HIDE DEF SaverIs
    <2> QED BY <2>2, <2>3, <2>4, <2>5, SaverTyped, SavingHolds
  <1>2. CASE holds[Installed] = NoSnapshot
    <2>1. /\ UNCHANGED <<inDb, inFile, asker, snap, holds>> /\ holds[s] = NoSnapshot
          /\ SaverIs(s, "crashed", saver[s].draft, saver[s].old, saver[s].inRow)
      BY <1>2 DEF AskSnapshot, SaverAt, SaverWith, SettingsInv, Holding
    <2>2. Counted'
      BY <2>1 DEF SettingsInv, Counted, HoldersOf
    <2>3. /\ "crashed" \in Points /\ Len(snap) <= Len(snap')
          /\ snap' \in Seq(Snapshots) /\ holds' \in [Holders -> Nat]
          /\ holds'[s] \in 0 .. Len(snap') /\ holds'[Installed] \in 0 .. Len(snap')
          /\ \A h \in Holders : holds'[h] = holds[h]
      BY <2>1, <1>0 DEF Points
    <2> QED BY <2>1, <2>2, <2>3, SaverTyped, SavingHolds
  <1> QED BY <1>1, <1>2

LEMMA GiveBackKeeps ==
  ASSUME SettingsInv, NEW s \in Savers, GiveBack(s)
  PROVE  SettingsInv'
  <1>0. /\ s \in Holders /\ Installed \in Holders /\ s # Installed
        /\ holds \in [Holders -> Nat] /\ snap \in Seq(Snapshots)
        /\ \A h \in Holders : holds[h] \in 0 .. Len(snap)
        /\ NoSnapshot \in Nat /\ NoSnapshot \notin DOMAIN snap
    BY SettingsAssumption DEF Holders, SettingsInv, SettingsTypes, Holding, NoSnapshot
  <1>1. PICK o \in DOMAIN snap : holds[s] = o
    <2>1. holds[s] # NoSnapshot
      BY DEF GiveBack, SettingsInv, Holding
    <2> QED BY <1>0, <2>1, HeldIsAlive
  <1>2. /\ snap' = Dropped(o) /\ holds' = [holds EXCEPT ![s] = NoSnapshot]
        /\ UNCHANGED <<inDb, inFile, asker>>
    BY <1>1 DEF GiveBack
  <1>3. snap' \in Seq(Snapshots) /\ Len(snap') = Len(snap) /\ Counted'
    BY <1>0, <1>1, <1>2, DroppingKeeps
  <1>4. /\ holds' \in [Holders -> Nat] /\ holds'[s] = NoSnapshot
        /\ holds'[s] \in 0 .. Len(snap') /\ holds'[Installed] \in 0 .. Len(snap')
        /\ \A h \in Holders : h \notin {s, Installed} => holds'[h] = holds[h]
        /\ Len(snap) <= Len(snap')
    BY <1>0, <1>2, <1>3 DEF NoSnapshot
  <1>5. \E at \in {"copy", "ask", "store"}, old \in Nat, inRow \in BOOLEAN :
           SaverIs(s, at, saver[s].draft, old, inRow)
    BY <1>0, SaverTyped DEF GiveBack, SaverAt, SaverWith
  <1>6. PICK at \in {"copy", "ask", "store"}, old \in Nat, inRow \in BOOLEAN :
           SaverIs(s, at, saver[s].draft, old, inRow)
    BY <1>5
  <1>7. at \in Points /\ at \notin {"asked", "drop"} /\ at # "asked"
    BY DEF Points
  <1> QED BY <1>2, <1>3, <1>4, <1>6, <1>7, SaverTyped, SavingHolds

(* The reference of the global pointer becomes that of the save.             *)
LEMMA WithdrawKeeps ==
  ASSUME SettingsInv, NEW s \in Savers, Withdraw(s)
  PROVE  SettingsInv'
  <1>0. /\ s \in Holders /\ Installed \in Holders /\ s # Installed
        /\ holds \in [Holders -> Nat] /\ snap \in Seq(Snapshots)
        /\ \A h \in Holders : holds[h] \in 0 .. Len(snap)
        /\ \A n \in DOMAIN snap : n # NoSnapshot
    BY SettingsAssumption DEF Holders, SettingsInv, SettingsTypes, Holding, NoSnapshot
  <1>1. /\ holds' = [holds EXCEPT ![s] = holds[Installed], ![Installed] = NoSnapshot]
        /\ UNCHANGED <<inDb, inFile, asker, snap>> /\ holds[s] = NoSnapshot
        /\ SaverIs(s, "drop", saver[s].draft, saver[s].old, saver[s].inRow)
    BY DEF Withdraw, SaverAt, SaverWith, SettingsInv, Holding
  <1>2. /\ holds' \in [Holders -> Nat]
        /\ holds'[s] = holds[Installed] /\ holds'[Installed] = NoSnapshot
        /\ \A h \in Holders : h \notin {s, Installed} => holds'[h] = holds[h]
    BY <1>0, <1>1 DEF NoSnapshot
  <1>3. ASSUME NEW n \in DOMAIN snap PROVE Cardinality(HoldersOf(n)') = Cardinality(HoldersOf(n))
    <2>1. CASE holds[Installed] = n
      <3> DEFINE Rest == HoldersOf(n) \ {Installed}
      <3>1. HoldersOf(n)' = Rest \cup {s} /\ s \notin Rest /\ Installed \in HoldersOf(n)
        BY <1>0, <1>1, <1>2, <2>1 DEF HoldersOf
      <3>2. IsFiniteSet(Rest) /\ Cardinality(Rest) = Cardinality(HoldersOf(n)) - 1
        BY <3>1, HoldersOfFinite, FS_RemoveElement
      <3>3. Cardinality(HoldersOf(n)') = Cardinality(Rest) + 1
        BY <3>1, <3>2, FS_AddElement
      <3> QED BY <3>2, <3>3, HoldersOfFinite
    <2>2. CASE holds[Installed] # n
      <3>1. HoldersOf(n)' = HoldersOf(n)
        BY <1>0, <1>1, <1>2, <2>2 DEF HoldersOf
      <3> QED BY <3>1
    <2> QED BY <2>1, <2>2
  <1>4. Counted'
    BY <1>1, <1>3 DEF SettingsInv, Counted
  <1>5. /\ "drop" \in Points /\ Len(snap) <= Len(snap') /\ snap' \in Seq(Snapshots)
        /\ holds'[s] \in 0 .. Len(snap') /\ holds'[Installed] \in 0 .. Len(snap')
    BY <1>0, <1>1, <1>2 DEF Points, NoSnapshot
  <1>6. saver[s].draft \in Config /\ saver[s].old \in Nat /\ saver[s].inRow \in BOOLEAN
    BY SaverTyped
  <1>7. /\ UNCHANGED <<inDb, inFile, asker>>
        /\ SaverIs(s, "drop", saver[s].draft, saver[s].old, saver[s].inRow)
    BY <1>1
  <1> QED BY <1>2, <1>4, <1>5, <1>6, <1>7, SavingHolds

LEMMA DropOldKeeps ==
  ASSUME SettingsInv, NEW s \in Savers, DropOld(s)
  PROVE  SettingsInv'
  <1>0. /\ s \in Holders /\ Installed \in Holders /\ s # Installed
        /\ holds \in [Holders -> Nat] /\ snap \in Seq(Snapshots)
        /\ \A h \in Holders : holds[h] \in 0 .. Len(snap)
        /\ NoSnapshot \in Nat /\ NoSnapshot \notin DOMAIN snap
    BY SettingsAssumption DEF Holders, SettingsInv, SettingsTypes, Holding, NoSnapshot
  <1>1. /\ holds' = [holds EXCEPT ![s] = NoSnapshot] /\ UNCHANGED <<inDb, inFile, asker>>
        /\ SaverIs(s, "reload", saver[s].draft, saver[s].old, saver[s].inRow)
    BY DEF DropOld, SaverAt, SaverWith
  <1>2. snap' \in Seq(Snapshots) /\ Len(snap') = Len(snap) /\ Counted'
    <2>1. CASE holds[s] = NoSnapshot
      <3>1. snap' = snap /\ holds' = holds
        BY <1>0, <1>1, <2>1 DEF DropOld
      <3> QED BY <1>0, <3>1 DEF SettingsInv, Counted, HoldersOf
    <2>2. CASE holds[s] # NoSnapshot
      <3>1. PICK o \in DOMAIN snap : holds[s] = o
        BY <1>0, <2>2, HeldIsAlive
      <3>2. snap' = Dropped(o)
        BY <2>2, <3>1 DEF DropOld
      <3> QED BY <1>0, <1>1, <3>1, <3>2, DroppingKeeps
    <2> QED BY <2>1, <2>2
  <1>3. /\ holds' \in [Holders -> Nat] /\ holds'[s] = NoSnapshot
        /\ holds'[s] \in 0 .. Len(snap') /\ holds'[Installed] \in 0 .. Len(snap')
        /\ \A h \in Holders : h \notin {s, Installed} => holds'[h] = holds[h]
        /\ Len(snap) <= Len(snap') /\ "reload" \in Points
    BY <1>0, <1>1, <1>2 DEF NoSnapshot, Points
  <1> QED BY <1>1, <1>2, <1>3, SaverTyped, SavingHolds

(* The snapshot that was installed is given up and a new one made.           *)
LEMMA InstallKeeps ==
  ASSUME SettingsInv, NEW s \in Savers, Install(s)
  PROVE  SettingsInv'
  <1> DEFINE rest == IF holds[Installed] = NoSnapshot THEN snap ELSE Dropped(holds[Installed])
             e == NewSnap(saver[s].draft)
  <1>a. PICK new \in Nat : new = Len(snap) + 1
    BY DEF SettingsInv, SettingsTypes
  <1>0. /\ s \in Holders /\ Installed \in Holders /\ s # Installed
        /\ holds \in [Holders -> Nat] /\ snap \in Seq(Snapshots) /\ Len(snap) \in Nat
        /\ \A h \in Holders : holds[h] \in 0 .. Len(snap)
        /\ new # NoSnapshot /\ new \notin DOMAIN snap
    BY <1>a, SettingsAssumption DEF Holders, SettingsInv, SettingsTypes, Holding, NoSnapshot
  <1>1. /\ snap' = Append(rest, e) /\ holds' = [holds EXCEPT ![Installed] = new]
        /\ UNCHANGED <<inDb, inFile, asker>> /\ holds[s] = NoSnapshot
        /\ SaverIs(s, "over", NoConfig, NoSnapshot, FALSE)
    BY <1>a DEF Install, SaverBeginsAt, SettingsInv, Holding
  <1>2. e \in Snapshots /\ e.refs = 1 /\ ~ e.freed
    BY SaverTyped DEF NewSnap, Snapshots
  <1>3. /\ rest \in Seq(Snapshots) /\ Len(rest) = Len(snap)
        /\ \A n \in DOMAIN snap : /\ rest[n].refs = Cardinality(HoldersOf(n)')
                                  /\ rest[n].freed <=> rest[n].refs = 0
    <2>1. CASE holds[Installed] = NoSnapshot
      <3>1. \A n \in DOMAIN snap : HoldersOf(n)' = HoldersOf(n)
        BY <1>0, <1>1, <2>1 DEF HoldersOf, NoSnapshot
      <3> QED BY <1>0, <2>1, <3>1 DEF SettingsInv, Counted
    <2>2. CASE holds[Installed] # NoSnapshot
      <3>1. PICK o \in DOMAIN snap : holds[Installed] = o
        BY <1>0, <2>2, HeldIsAlive
      <3>2. rest = Dropped(o)
        BY <2>2, <3>1
      <3>3. /\ holds'[Installed] \notin DOMAIN snap
            /\ \A g \in Holders : g # Installed => holds'[g] = holds[g]
        BY <1>0, <1>1
      <3> HIDE DEF rest
      <3> QED BY <1>0, <3>1, <3>2, <3>3, DroppingCounts
    <2> QED BY <2>1, <2>2
  <1>4. HoldersOf(new)' = {Installed}
    <2>1. ASSUME NEW h \in Holders, h # Installed PROVE holds'[h] # new
      <3>1. holds'[h] = holds[h] /\ holds[h] \in 0 .. Len(snap)
        BY <1>0, <1>1, <2>1
      <3> QED BY <1>0, <1>a, <3>1
    <2>2. holds'[Installed] = new
      BY <1>0, <1>1
    <2> QED BY <1>0, <2>1, <2>2 DEF HoldersOf
  <1> HIDE DEF rest, e
  <1>5. /\ snap' \in Seq(Snapshots) /\ Len(snap') = Len(snap) + 1
        /\ snap'[new] = e
        /\ \A n \in DOMAIN snap : snap'[n] = rest[n]
    BY <1>0, <1>1, <1>2, <1>3, <1>a, AppendProperties
  <1>6. ASSUME NEW n \in DOMAIN snap'
        PROVE  /\ snap'[n].refs = Cardinality(HoldersOf(n)')
               /\ snap'[n].freed <=> snap'[n].refs = 0
    <2>1. CASE n = new
      <3>1. HoldersOf(n)' = {Installed} /\ snap'[n] = e
        BY <1>4, <1>5, <2>1
      <3>2. Cardinality({Installed}) = 1
        BY FS_Singleton
      <3> QED BY <1>2, <3>1, <3>2
    <2>2. CASE n # new
      <3>1. n \in DOMAIN snap
        BY <1>0, <1>5, <1>a, <2>2
      <3> QED BY <1>3, <1>5, <3>1
    <2> QED BY <2>1, <2>2
  <1>7. Counted'
    BY <1>6 DEF Counted
  <1>8. /\ holds' \in [Holders -> Nat] /\ holds'[s] = NoSnapshot
        /\ holds'[s] \in 0 .. Len(snap') /\ holds'[Installed] \in 0 .. Len(snap')
        /\ \A h \in Holders : h \notin {s, Installed} => holds'[h] = holds[h]
        /\ Len(snap) <= Len(snap') /\ "over" \in Points
    BY <1>0, <1>1, <1>5, <1>a DEF NoSnapshot, Points
  <1> QED BY <1>1, <1>5, <1>7, <1>8, SaverTyped, SavingHolds

-----------------------------------------------------------------------------
LEMMA SettingsStep == SettingsInv /\ [SettingsNext]_settingsVars => SettingsInv'
  <1> SUFFICES ASSUME SettingsInv, [SettingsNext]_settingsVars PROVE SettingsInv'
    OBVIOUS
  <1>1. CASE UNCHANGED settingsVars
    BY <1>1 DEF settingsVars, SettingsInv, SettingsTypes, Counted, HoldersOf, Holding
  <1>2. ASSUME NEW a \in Askers, AskerStep(a) PROVE SettingsInv'
    BY <1>2, AskerKeeps
  <1>3. ASSUME NEW s \in Savers, SaverStep(s) PROVE SettingsInv'
    BY <1>3, SettingKeeps, AskKeeps, GiveBackKeeps, WithdrawKeeps, DropOldKeeps, InstallKeeps
       DEF SaverStep
  <1> QED BY <1>1, <1>2, <1>3 DEF SettingsNext

(* The configuration a request works with is not freed under it, and none is *)
(* kept that the last one has let go of, for any number of requests.         *)
THEOREM SnapshotsSoundAlways == SettingsSpec => []SnapshotsSound
  <1>1. SettingsInv => SnapshotsSound
    <2> SUFFICES ASSUME SettingsInv, NEW n \in DOMAIN snap
                 PROVE  snap[n].freed <=> \A h \in Holders : holds[h] # n
      BY DEF SnapshotsSound
    <2>1. snap[n].freed <=> Cardinality(HoldersOf(n)) = 0
      BY DEF SettingsInv, Counted
    <2>2. Cardinality(HoldersOf(n)) = 0 <=> HoldersOf(n) = {}
      BY HoldersOfFinite, FS_EmptySet
    <2>3. HoldersOf(n) = {} <=> \A h \in Holders : holds[h] # n
      BY DEF HoldersOf
    <2> QED BY <2>1, <2>2, <2>3
  <1> QED BY <1>1, SettingsStart, SettingsStep, PTL DEF SettingsSpec

-----------------------------------------------------------------------------
(* What a save reports and what requests then get.  As long as no saves      *)
(* overlapped, the one save under way is followed from what it read to the   *)
(* snapshot it installs.                                                     *)
InUse == IF holds[Installed] = NoSnapshot THEN NoConfig ELSE snap[holds[Installed]].config

(* What is stored was reported as saved and is what requests work with.      *)
InForce == Stored = agreed /\ InUse = agreed

Before == {"merge", "ask", "asked", "copy", "store", "crashed"}
Emptied == {"drop", "reload", "install"}

(* A configuration that has something in it is told from none at all.        *)
Drafted ==
    /\ \A c \in {inDb, inFile} : c.model = Nowhere => c = NoConfig
    /\ \A s \in Savers :
          /\ saver[s].at \in Before \cup {"file"} => saver[s].draft.model # Nowhere
          /\ saver[s].inRow => saver[s].at = "file"

(* How far a save has come, and what is stored, installed and reported then. *)
Goes(s) ==
    /\ saver[s].at \in Before => InForce
    /\ saver[s].at = "asked" => holds[s] = holds[Installed]
    /\ saver[s].at = "copy" => saver[s].old = holds[Installed] /\ saver[s].old # NoSnapshot
    /\ saver[s].at = "crashed" => agreed = NoConfig
    /\ saver[s].at = "file" => IF saver[s].inRow THEN inDb = saver[s].draft ELSE InForce
    /\ saver[s].at \in Emptied \cup {"swap"} => Stored = agreed
    /\ saver[s].at \in Emptied => holds[Installed] = NoSnapshot
    /\ saver[s].at = "install" => saver[s].draft = agreed

Agreeing ==
    /\ \A s, t \in Savers : Saving(s) /\ Saving(t) => s = t
    /\ \A s \in Savers : Saving(s) => Goes(s)
    /\ (\A s \in Savers : ~ Saving(s)) => InForce

SavesInv == SettingsInv /\ Drafted /\ (~ blurred => Agreeing)

(* The snapshot that is installed stays what it was while references to it   *)
(* come and go.                                                              *)
LEMMA CurrentStays ==
  ASSUME SettingsInv, holds'[Installed] = holds[Installed],
         \/ snap' = snap
         \/ \E n \in DOMAIN snap : snap' = Taken(n) \/ snap' = Dropped(n)
  PROVE  InUse' = InUse
  <1>1. ASSUME holds[Installed] # NoSnapshot
        PROVE  snap'[holds[Installed]].config = snap[holds[Installed]].config
    <2>1. PICK k \in DOMAIN snap : holds[Installed] = k
      BY <1>1, HeldIsAlive DEF Holders
    <2>2. snap'[k].config = snap[k].config
      <3>1. ASSUME NEW n \in DOMAIN snap, snap' = Taken(n) \/ snap' = Dropped(n)
            PROVE  snap'[k].config = snap[k].config
        <4>1. snap \in Seq(Snapshots)
          BY DEF SettingsInv, SettingsTypes
        <4>2. PICK refs, freed : snap' = [snap EXCEPT ![n] = Counts(n, refs, freed)]
          BY <3>1 DEF Taken, Dropped
        <4>3. snap'[k] = IF k = n THEN Counts(n, refs, freed) ELSE snap[k]
          BY <4>1, <4>2
        <4> QED BY <4>3 DEF Counts
      <3> QED BY <3>1
    <2> QED BY <2>1, <2>2
  <1> QED BY <1>1 DEF InUse

LEMMA Idlers == \A at \in Before \cup Emptied \cup {"file", "swap"} : at \notin {"idle", "over"}
  BY DEF Before, Emptied

LEMMA SavesStart == SettingsInit => SavesInv
  <1> SUFFICES ASSUME SettingsInit PROVE SavesInv
    OBVIOUS
  <1>1. SettingsInv
    BY SettingsStart
  <1>2. \A s \in Savers : saver[s] = NoSave /\ ~ Saving(s)
    BY DEF SettingsInit, NoSave, Saving
  <1>3. Blank.model # Nowhere /\ Blank # NoConfig /\ NoConfig = NoConfig
    BY DEF Blank, NoConfig, Unset, Nowhere
  <1>4. Drafted
    BY <1>2, <1>3 DEF SettingsInit, Drafted, NoSave, Before
  <1>5. Stored = agreed
    BY DEF SettingsInit, Stored
  <1>6. InUse = agreed
    <2>1. CASE agreed = NoConfig
      <3>1. Len(snap) = 0
        BY <2>1 DEF SettingsInit
      <3> QED BY <2>1, <3>1 DEF SettingsInit, InUse, Holders, NoSnapshot
    <2>2. CASE agreed # NoConfig
      <3>1. snap = <<NewSnap(agreed)>> /\ Len(snap) = 1 /\ holds[Installed] = 1
        BY <2>2 DEF SettingsInit, Holders
      <3>2. snap[1] = NewSnap(agreed)
        BY <3>1
      <3> QED BY <3>1, <3>2 DEF InUse, NewSnap, NoSnapshot
    <2> QED BY <2>1, <2>2
  <1> QED BY <1>1, <1>2, <1>4, <1>5, <1>6 DEF SavesInv, Agreeing, InForce

(* Requests that use the configuration.                                      *)
LEMMA AskerAgrees ==
  ASSUME SavesInv, NEW a \in Askers, AskerStep(a)
  PROVE  SavesInv'
  <1>0. /\ SettingsInv /\ SettingsInv'
        /\ Installed \in Holders /\ a \in Holders /\ a # Installed
        /\ \A s \in Savers : s \in Holders /\ s # a
        /\ holds \in [Holders -> Nat]
    BY AskerKeeps, SettingsAssumption DEF SavesInv, SettingsInv, SettingsTypes, Holders
  <1>1. UNCHANGED <<inDb, inFile, saver, agreed, blurred>>
    BY DEF AskerStep, Acquire, Release, Forget
  <1>2. \A h \in Holders : h # a => holds'[h] = holds[h]
    BY <1>0 DEF AskerStep, Acquire, Release, Forget
  <1>3. InUse' = InUse
    <2>1. \/ snap' = snap
          \/ \E n \in DOMAIN snap : snap' = Taken(n) \/ snap' = Dropped(n)
      <3>1. CASE Release(a)
        <4>1. holds[a] # NoSnapshot
          BY <3>1, <1>0 DEF Release, SettingsInv, Holding
        <4>2. PICK n \in DOMAIN snap : holds[a] = n
          BY <1>0, <4>1, HeldIsAlive
        <4> QED BY <3>1, <4>2 DEF Release
      <3>2. CASE Acquire(a)
        <4>1. CASE holds[Installed] # NoSnapshot
          <5>1. PICK n \in DOMAIN snap : holds[Installed] = n
            BY <1>0, <4>1, HeldIsAlive
          <5> QED BY <3>2, <5>1 DEF Acquire
        <4>2. CASE holds[Installed] = NoSnapshot
          BY <3>2, <4>2 DEF Acquire
        <4> QED BY <4>1, <4>2
      <3>3. CASE Forget(a)
        BY <3>3 DEF Forget
      <3> QED BY <3>1, <3>2, <3>3 DEF AskerStep
    <2> QED BY <1>0, <1>2, <2>1, CurrentStays
  <1>4. Stored' = Stored /\ (InForce' <=> InForce)
    BY <1>1, <1>3 DEF Stored, InForce
  <1>5. Drafted'
    BY <1>1 DEF SavesInv, Drafted
  <1>6. ASSUME NEW s \in Savers PROVE (Saving(s)' <=> Saving(s)) /\ (Goes(s) => Goes(s)')
    BY <1>0, <1>1, <1>2, <1>4 DEF Saving, Goes
  <1>7. Agreeing => Agreeing'
    BY <1>4, <1>6 DEF Agreeing
  <1> QED BY <1>0, <1>1, <1>5, <1>7 DEF SavesInv

(* A save that is under way goes on; it is the only one.                     *)
LEMMA OneGoesOn ==
  ASSUME Agreeing, NEW s \in Savers,
         Saving(s) \/ \A t \in Savers : ~ Saving(t),
         \A t \in Savers : t # s => saver'[t] = saver[t],
         Saving(s)' => Goes(s)',
         ~ Saving(s)' => InForce'
  PROVE  Agreeing'
  <1>1. ASSUME NEW t \in Savers, t # s PROVE ~ Saving(t)'
    BY <1>1 DEF Agreeing, Saving
  <1>2. \A t, u \in Savers : Saving(t)' /\ Saving(u)' => t = u
    BY <1>1
  <1>3. \A t \in Savers : Saving(t)' => Goes(t)'
    BY <1>1
  <1> QED BY <1>1, <1>2, <1>3 DEF Agreeing

LEMMA SaversAre == SettingsInv => DOMAIN saver = Savers
  BY DEF SettingsInv, SettingsTypes

(* The steps of a save, each with what it leaves.                            *)
LEMMA DraftedStays ==
  ASSUME Drafted, NEW s \in Savers,
         \A t \in Savers : t # s => saver'[t] = saver[t],
         \A c \in {inDb', inFile'} : c \in {inDb, inFile} \/ c.model # Nowhere,
         saver'[s].at \in Before \cup {"file"} => saver'[s].draft.model # Nowhere,
         saver'[s].inRow => saver'[s].at = "file"
  PROVE  Drafted'
  BY DEF Drafted

LEMMA LoadAgrees ==
  ASSUME SavesInv, NEW s \in Savers, Load(s)
  PROVE  Drafted' /\ (~ blurred' => Agreeing')
  <1> DEFINE base == IF Stored = NoConfig THEN Blank ELSE Stored
  <1>0. SettingsInv /\ Drafted /\ saver[s].at = "idle"
    BY DEF SavesInv, Load
  <1>1. /\ UNCHANGED <<inDb, inFile, snap, holds, agreed>>
        /\ saver'[s].at = "merge" /\ saver'[s].draft = base /\ saver'[s].inRow = saver[s].inRow
        /\ \A t \in Savers : t # s => saver'[t] = saver[t]
    BY <1>0, SaversAre DEF Load, SaverIs, SaverWith
  <1>2. base.model # Nowhere
    BY <1>0 DEF Drafted, Stored, Blank, Unset, Nowhere
  <1>3. ~ saver[s].inRow
    BY <1>0 DEF Drafted
  <1>4. Drafted'
    BY <1>0, <1>1, <1>2, <1>3, DraftedStays
  <1>5. ASSUME ~ blurred' PROVE Agreeing'
    <2>1. Agreeing /\ \A t \in Savers : ~ Saving(t)
      BY <1>5 DEF Load, SavesInv
    <2>2. InForce'
      BY <1>1, <2>1 DEF Agreeing, InForce, Stored, InUse
    <2>3. Saving(s)' /\ Goes(s)'
      BY <1>1, <2>2 DEF Saving, Goes, Emptied
    <2> QED BY <1>1, <2>1, <2>3, OneGoesOn
  <1> QED BY <1>4, <1>5

LEMMA MergeAgrees ==
  ASSUME SavesInv, NEW s \in Savers, MergeNamed(s)
  PROVE  Drafted' /\ (~ blurred' => Agreeing')
  <1>0. SettingsInv /\ Drafted /\ saver[s].at = "merge" /\ s # Nowhere
    BY SettingsAssumption DEF SavesInv, MergeNamed
  <1>1. saver[s].draft.model # Nowhere /\ ~ saver[s].inRow
    BY <1>0 DEF Drafted, Before
  <1>2. PICK to, draft :
          /\ to \in {"ask", "store"} /\ draft.model \in {s, saver[s].draft.model}
          /\ SaverWith(s, to, draft)
    BY DEF MergeNamed
  <1>3. /\ UNCHANGED <<inDb, inFile, snap, holds, agreed, blurred>>
        /\ saver'[s].at = to /\ saver'[s].draft = draft /\ saver'[s].inRow = saver[s].inRow
        /\ \A t \in Savers : t # s => saver'[t] = saver[t]
    BY <1>0, <1>2, SaversAre DEF MergeNamed, SaverIs, SaverWith
  <1>4. Drafted'
    BY <1>0, <1>1, <1>2, <1>3, DraftedStays
  <1>5. ASSUME ~ blurred PROVE Agreeing'
    <2>1. Agreeing /\ Saving(s)
      BY <1>0, <1>5 DEF SavesInv, Saving
    <2>2. InForce
      BY <1>0, <2>1 DEF Agreeing, Goes, Before
    <2>3. InForce'
      BY <1>3, <2>2 DEF InForce, Stored, InUse
    <2>4. Saving(s)' /\ Goes(s)'
      BY <1>2, <1>3, <2>3 DEF Saving, Goes, Emptied
    <2> QED BY <1>3, <2>1, <2>4, OneGoesOn
  <1> QED BY <1>3, <1>4, <1>5

LEMMA AskAgrees ==
  ASSUME SavesInv, NEW s \in Savers, AskSnapshot(s)
  PROVE  Drafted' /\ (~ blurred' => Agreeing')
  <1>0. /\ SettingsInv /\ Drafted /\ saver[s].at = "ask"
        /\ Installed \in Holders /\ s \in Holders /\ s # Installed
        /\ holds \in [Holders -> Nat]
    BY SettingsAssumption
       DEF SavesInv, AskSnapshot, SettingsInv, SettingsTypes, Holders
  <1>1. PICK to \in {"asked", "crashed"} :
          /\ SaverAt(s, to)
          /\ to = "asked" => holds' = [holds EXCEPT ![s] = holds[Installed]]
                               /\ holds[Installed] # NoSnapshot /\ snap' = Taken(holds[Installed])
          /\ to = "crashed" => UNCHANGED <<snap, holds>> /\ holds[Installed] = NoSnapshot
    BY DEF AskSnapshot
  <1>2. /\ UNCHANGED <<inDb, inFile, agreed, blurred>>
        /\ saver'[s].at = to /\ saver'[s].draft = saver[s].draft
        /\ saver'[s].inRow = saver[s].inRow
        /\ \A t \in Savers : t # s => saver'[t] = saver[t]
    BY <1>0, <1>1, SaversAre DEF AskSnapshot, SaverIs, SaverWith, SaverAt
  <1>3. saver[s].draft.model # Nowhere /\ ~ saver[s].inRow
    BY <1>0 DEF Drafted, Before
  <1>4. Drafted'
    BY <1>0, <1>2, <1>3, DraftedStays
  <1>5. holds'[Installed] = holds[Installed] /\ (to = "asked" => holds'[s] = holds[Installed])
    BY <1>0, <1>1
  <1>6. InUse' = InUse
    <2>1. CASE to = "asked"
      <3>1. PICK n \in DOMAIN snap : holds[Installed] = n
        BY <1>0, <1>1, <2>1, HeldIsAlive
      <3> QED BY <1>0, <1>1, <1>5, <2>1, <3>1, CurrentStays
    <2>2. CASE to = "crashed"
      BY <1>1, <2>2 DEF InUse
    <2> QED BY <2>1, <2>2
  <1>7. ASSUME ~ blurred PROVE Agreeing'
    <2>1. Agreeing /\ Saving(s)
      BY <1>0, <1>7 DEF SavesInv, Saving
    <2>2. InForce
      BY <1>0, <2>1 DEF Agreeing, Goes, Before
    <2>3. InForce'
      BY <1>2, <1>6, <2>2 DEF InForce, Stored
    <2>4. to = "crashed" => agreed' = NoConfig
      BY <1>1, <1>2, <2>2 DEF InForce, InUse
    <2>5. Saving(s)' /\ Goes(s)'
      BY <1>2, <1>5, <2>3, <2>4 DEF Saving, Goes, Emptied
    <2> QED BY <1>2, <2>1, <2>5, OneGoesOn
  <1> QED BY <1>2, <1>4, <1>7

LEMMA GiveBackAgrees ==
  ASSUME SavesInv, NEW s \in Savers, GiveBack(s)
  PROVE  Drafted' /\ (~ blurred' => Agreeing')
  <1>0. /\ SettingsInv /\ Drafted /\ saver[s].at = "asked" /\ holds[s] # NoSnapshot
        /\ Installed \in Holders /\ s \in Holders /\ s # Installed
        /\ holds \in [Holders -> Nat]
    BY SettingsAssumption
       DEF SavesInv, GiveBack, SettingsInv, SettingsTypes, Holding, Holders
  <1>1. PICK to, old :
          /\ to \in {"copy", "ask", "store"} /\ SaverIs(s, to, saver[s].draft, old, FALSE)
          /\ to = "copy" => old = holds[s]
    <2>1. ~ saver[s].inRow /\ saver[s].inRow \in BOOLEAN
      BY <1>0, SaverTyped DEF Drafted
    <2>2. saver[s].inRow = FALSE
      BY <2>1
    <2>3. \/ SaverIs(s, "copy", saver[s].draft, holds[s], FALSE)
          \/ SaverIs(s, "ask", saver[s].draft, saver[s].old, FALSE)
          \/ SaverIs(s, "store", saver[s].draft, saver[s].old, FALSE)
      BY <2>2 DEF GiveBack, SaverAt, SaverWith
    <2>4. CASE SaverIs(s, "copy", saver[s].draft, holds[s], FALSE)
      <3> WITNESS "copy", holds[s]
      <3> QED BY <2>4
    <2>5. CASE SaverIs(s, "store", saver[s].draft, saver[s].old, FALSE)
      <3> WITNESS "store", saver[s].old
      <3> QED BY <2>5
    <2>6. CASE SaverIs(s, "ask", saver[s].draft, saver[s].old, FALSE)
      <3> WITNESS "ask", saver[s].old
      <3> QED BY <2>6
    <2> QED BY <2>3, <2>4, <2>5, <2>6
  <1>2. /\ UNCHANGED <<inDb, inFile, agreed, blurred>>
        /\ saver'[s].at = to /\ saver'[s].draft = saver[s].draft
        /\ saver'[s].old = old /\ ~ saver'[s].inRow
        /\ \A t \in Savers : t # s => saver'[t] = saver[t]
    BY <1>0, <1>1, SaversAre DEF GiveBack, SaverIs
  <1>3. saver[s].draft.model # Nowhere
    BY <1>0 DEF Drafted, Before
  <1>4. Drafted'
    BY <1>0, <1>2, <1>3, DraftedStays
  <1>5. holds'[Installed] = holds[Installed]
    BY <1>0 DEF GiveBack
  <1>6. InUse' = InUse
    <2>1. PICK n \in DOMAIN snap : holds[s] = n
      BY <1>0, HeldIsAlive
    <2> QED BY <1>0, <1>5, <2>1, CurrentStays DEF GiveBack
  <1>7. ASSUME ~ blurred PROVE Agreeing'
    <2>1. Agreeing /\ Saving(s)
      BY <1>0, <1>7 DEF SavesInv, Saving
    <2>2. InForce /\ holds[s] = holds[Installed]
      BY <1>0, <2>1 DEF Agreeing, Goes, Before
    <2>3. InForce'
      BY <1>2, <1>6, <2>2 DEF InForce, Stored
    <2>4. to = "copy" => old = holds'[Installed] /\ old # NoSnapshot
      BY <1>0, <1>1, <1>5, <2>2
    <2>5. Saving(s)' /\ Goes(s)'
      BY <1>1, <1>2, <2>3, <2>4 DEF Saving, Goes, Emptied
    <2> QED BY <1>2, <2>1, <2>5, OneGoesOn
  <1> QED BY <1>2, <1>4, <1>7

LEMMA CopyAgrees ==
  ASSUME SavesInv, NEW s \in Savers, CopyKey(s)
  PROVE  Drafted' /\ (~ blurred' => Agreeing')
  <1>0. SettingsInv /\ Drafted /\ saver[s].at = "copy"
    BY DEF SavesInv, CopyKey
  <1>1. PICK key \in Savers \cup {Unset}, to \in {"ask", "store"} :
          SaverIs(s, to, [key |-> key, model |-> saver[s].draft.model], NoSnapshot, FALSE)
    BY DEF CopyKey
  <1>2. /\ UNCHANGED <<inDb, inFile, snap, holds, agreed, blurred>>
        /\ saver'[s].at \in {"ask", "store"} /\ saver'[s].draft.model = saver[s].draft.model
        /\ ~ saver'[s].inRow
        /\ \A t \in Savers : t # s => saver'[t] = saver[t]
    BY <1>0, <1>1, SaversAre DEF CopyKey, SaverIs
  <1>3. saver[s].draft.model # Nowhere
    BY <1>0 DEF Drafted, Before
  <1>4. Drafted'
    BY <1>0, <1>2, <1>3, DraftedStays
  <1>5. ASSUME ~ blurred PROVE Agreeing'
    <2>1. Agreeing /\ Saving(s)
      BY <1>0, <1>5 DEF SavesInv, Saving
    <2>2. InForce
      BY <1>0, <2>1 DEF Agreeing, Goes, Before
    <2>3. InForce'
      BY <1>2, <2>2 DEF InForce, Stored, InUse
    <2>4. Saving(s)' /\ Goes(s)'
      BY <1>2, <2>3 DEF Saving, Goes, Emptied
    <2> QED BY <1>2, <2>1, <2>4, OneGoesOn
  <1> QED BY <1>2, <1>4, <1>5

LEMMA StoreRowAgrees ==
  ASSUME SavesInv, NEW s \in Savers, StoreRow(s)
  PROVE  Drafted' /\ (~ blurred' => Agreeing')
  <1>0. SettingsInv /\ Drafted /\ saver[s].at = "store"
    BY DEF SavesInv, StoreRow
  <1>1. saver[s].draft.model # Nowhere /\ ~ saver[s].inRow
    BY <1>0 DEF Drafted, Before
  <1>2. /\ UNCHANGED <<inFile, snap, holds, agreed, blurred>>
        /\ saver'[s].at = "file" /\ saver'[s].draft = saver[s].draft
        /\ \/ inDb' = saver[s].draft /\ saver'[s].inRow
           \/ inDb' = inDb /\ ~ saver'[s].inRow
        /\ \A t \in Savers : t # s => saver'[t] = saver[t]
    BY <1>0, <1>1, SaversAre DEF StoreRow, SaverAt, SaverWith, SaverIs
  <1>3. Drafted'
    BY <1>0, <1>1, <1>2, DraftedStays
  <1>4. ASSUME ~ blurred PROVE Agreeing'
    <2>1. Agreeing /\ Saving(s)
      BY <1>0, <1>4 DEF SavesInv, Saving
    <2>2. InForce
      BY <1>0, <2>1 DEF Agreeing, Goes, Before
    <2>3. ~ saver'[s].inRow => InForce'
      BY <1>2, <2>2 DEF InForce, Stored, InUse
    <2>4. saver'[s].inRow => inDb' = saver'[s].draft
      BY <1>2
    <2>5. Saving(s)' /\ Goes(s)'
      BY <1>2, <2>3, <2>4 DEF Saving, Goes, Before, Emptied
    <2> QED BY <1>2, <2>1, <2>5, OneGoesOn
  <1> QED BY <1>2, <1>3, <1>4

(* Settings that only the file took count as long as there is no row.        *)
LEMMA StoreFileAgrees ==
  ASSUME SavesInv, NEW s \in Savers, StoreFile(s)
  PROVE  Drafted' /\ (~ blurred' => Agreeing')
  <1>0. SettingsInv /\ Drafted /\ saver[s].at = "file"
    BY DEF SavesInv, StoreFile
  <1>1. saver[s].draft.model # Nowhere /\ saver[s].draft # NoConfig
    BY <1>0 DEF Drafted, NoConfig
  <1>2. /\ UNCHANGED <<inDb, snap, holds>>
        /\ saver'[s].at \in {"swap", "over"} /\ ~ saver'[s].inRow
        /\ \A t \in Savers : t # s => saver'[t] = saver[t]
        /\ inFile' \in {inFile, saver[s].draft}
    BY <1>0, SaversAre DEF StoreFile, SaverBeginsAt, SaverIs
  <1>3. Drafted'
    BY <1>0, <1>1, <1>2, DraftedStays DEF Before
  <1>4. ASSUME ~ blurred' PROVE Agreeing'
    <2>1. ~ blurred
      BY <1>4 DEF StoreFile
    <2>2. Agreeing /\ Saving(s) /\ Goes(s)
      BY <1>0, <2>1 DEF SavesInv, Saving, Agreeing
    <2>3. CASE saver[s].inRow
      <3>1. /\ inDb' = saver[s].draft /\ agreed' = saver[s].draft
            /\ saver'[s].at = "swap"
        BY <1>0, <1>2, <2>2, <2>3, SaversAre DEF StoreFile, Goes, SaverBeginsAt, SaverIs
      <3>2. Stored' = agreed'
        BY <1>1, <3>1 DEF Stored
      <3> QED BY <1>2, <2>2, <3>1, <3>2, OneGoesOn DEF Saving, Goes, Before, Emptied
    <2>4. CASE ~ saver[s].inRow /\ inFile' = saver[s].draft /\ agreed' = saver[s].draft
                 /\ saver'[s].at = "swap" /\ blurred' = (blurred \/ inDb # NoConfig)
      <3>1. inDb' = NoConfig
        BY <1>2, <1>4, <2>4
      <3>2. Stored' = agreed'
        BY <2>4, <3>1 DEF Stored
      <3> QED BY <1>2, <2>2, <2>4, <3>2, OneGoesOn DEF Saving, Goes, Before, Emptied
    <2>5. CASE ~ saver[s].inRow /\ UNCHANGED <<inFile, agreed>> /\ saver'[s].at = "over"
      <3>1. InForce
        BY <1>0, <2>2, <2>5 DEF Goes
      <3>2. InForce' /\ ~ Saving(s)'
        BY <1>2, <2>5, <3>1 DEF InForce, Stored, InUse, Saving
      <3> QED BY <1>2, <2>2, <3>2, OneGoesOn
    <2>6. ASSUME ~ saver[s].inRow
          PROVE  \/ inFile' = saver[s].draft /\ agreed' = saver[s].draft
                      /\ saver'[s].at = "swap" /\ blurred' = (blurred \/ inDb # NoConfig)
                 \/ UNCHANGED <<inFile, agreed>> /\ saver'[s].at = "over"
      BY <1>0, <2>6, SaversAre DEF StoreFile, SaverBeginsAt, SaverIs
    <2> QED BY <2>3, <2>4, <2>5, <2>6
  <1> QED BY <1>3, <1>4

(* Once the settings are reported, the snapshot is taken out, and the next   *)
(* made from what is stored.                                                 *)
LEMMA SwapAgrees ==
  ASSUME SavesInv, NEW s \in Savers, Withdraw(s) \/ DropOld(s) \/ Reload(s)
  PROVE  Drafted' /\ (~ blurred' => Agreeing')
  <1>0. /\ SettingsInv /\ Drafted /\ saver[s].at \in {"swap", "drop", "reload"}
        /\ Installed \in Holders /\ s \in Holders /\ s # Installed
        /\ holds \in [Holders -> Nat]
    BY SettingsAssumption
       DEF SavesInv, Withdraw, DropOld, Reload, SettingsInv, SettingsTypes, Holders
  <1>1. ~ saver[s].inRow
    BY <1>0 DEF Drafted
  <1>2. /\ UNCHANGED <<inDb, inFile, agreed, blurred>>
        /\ saver'[s].at \in Emptied
        /\ saver'[s].inRow = saver[s].inRow
        /\ \A t \in Savers : t # s => saver'[t] = saver[t]
    BY <1>0, SaversAre DEF Withdraw, DropOld, Reload, SaverAt, SaverWith, SaverIs, Emptied
  <1>3. saver'[s].at = "install" => saver'[s].draft = Stored
    BY <1>0, SaversAre DEF Withdraw, DropOld, Reload, SaverAt, SaverWith, SaverIs
  <1>4. Drafted'
    BY <1>0, <1>1, <1>2, DraftedStays DEF Emptied, Before
  <1>5. ASSUME ~ blurred PROVE Agreeing'
    <2>1. Agreeing /\ Saving(s)
      BY <1>0, <1>5 DEF SavesInv, Saving
    <2>2. Stored = agreed /\ (saver[s].at # "swap" => holds[Installed] = NoSnapshot)
      BY <1>0, <2>1 DEF Agreeing, Goes, Emptied
    <2>3. Stored' = agreed'
      BY <1>2, <2>2 DEF Stored
    <2>4. holds'[Installed] = NoSnapshot
      BY <1>0, <2>2 DEF Withdraw, DropOld, Reload, NoSnapshot
    <2>5. saver'[s].at = "install" => saver'[s].draft = agreed'
      BY <1>2, <1>3, <2>2
    <2>6. saver'[s].at \notin Before \cup {"file", "idle", "over"}
      BY <1>2 DEF Emptied, Before
    <2>7. Saving(s)' /\ Goes(s)'
      BY <1>2, <2>3, <2>4, <2>5, <2>6 DEF Saving, Goes, Before
    <2> QED BY <1>2, <2>1, <2>7, OneGoesOn
  <1> QED BY <1>2, <1>4, <1>5

LEMMA InstallAgrees ==
  ASSUME SavesInv, NEW s \in Savers, Install(s)
  PROVE  Drafted' /\ (~ blurred' => Agreeing')
  <1>0. /\ SettingsInv /\ Drafted /\ saver[s].at = "install"
        /\ Installed \in Holders /\ holds \in [Holders -> Nat]
        /\ snap \in Seq(Snapshots) /\ Len(snap) \in Nat
    BY DEF SavesInv, Install, SettingsInv, SettingsTypes, Holders
  <1>1. /\ UNCHANGED <<inDb, inFile, agreed, blurred>>
        /\ saver'[s].at = "over" /\ ~ saver'[s].inRow
        /\ \A t \in Savers : t # s => saver'[t] = saver[t]
    BY <1>0, SaversAre DEF Install, SaverBeginsAt, SaverIs
  <1>2. Drafted'
    BY <1>0, <1>1, DraftedStays DEF Before
  <1>3. ASSUME ~ blurred PROVE Agreeing'
    <2>1. Agreeing /\ Saving(s)
      BY <1>0, <1>3 DEF SavesInv, Saving
    <2>2. Stored = agreed /\ holds[Installed] = NoSnapshot /\ saver[s].draft = agreed
      BY <1>0, <2>1 DEF Agreeing, Goes, Emptied
    <2>3. snap' = Append(snap, NewSnap(agreed)) /\ holds'[Installed] = Len(snap) + 1
      BY <1>0, <2>2 DEF Install
    <2>4. snap'[Len(snap) + 1] = NewSnap(agreed)
      BY <1>0, <2>3
    <2>5. InUse' = agreed
      BY <1>0, <2>3, <2>4 DEF InUse, NewSnap, NoSnapshot
    <2>6. InForce' /\ ~ Saving(s)'
      BY <1>1, <2>2, <2>5 DEF InForce, Stored, Saving
    <2> QED BY <1>1, <2>1, <2>6, OneGoesOn
  <1> QED BY <1>1, <1>2, <1>3

LEMMA SavesStep == SavesInv /\ [SettingsNext]_settingsVars => SavesInv'
  <1> SUFFICES ASSUME SavesInv, [SettingsNext]_settingsVars PROVE SavesInv'
    OBVIOUS
  <1>0. SettingsInv'
    BY SettingsStep DEF SavesInv
  <1>1. CASE UNCHANGED settingsVars
    <2>1. UNCHANGED <<inDb, inFile, snap, holds, saver, agreed, blurred>>
      BY <1>1 DEF settingsVars
    <2>2. (InForce' <=> InForce) /\ \A s \in Savers : Saving(s)' <=> Saving(s)
      BY <2>1 DEF InForce, Stored, InUse, Saving
    <2>3. \A s \in Savers : Goes(s)' <=> Goes(s)
      BY <2>1, <2>2 DEF Goes, Stored
    <2>4. Drafted' /\ (Agreeing' <=> Agreeing)
      BY <2>1, <2>2, <2>3 DEF SavesInv, Drafted, Agreeing
    <2> QED BY <1>0, <2>1, <2>4 DEF SavesInv
  <1>2. ASSUME NEW a \in Askers, AskerStep(a) PROVE SavesInv'
    BY <1>2, AskerAgrees
  <1>3. ASSUME NEW s \in Savers, SaverStep(s) PROVE Drafted' /\ (~ blurred' => Agreeing')
    BY <1>3, LoadAgrees, MergeAgrees, AskAgrees, GiveBackAgrees, CopyAgrees, StoreRowAgrees,
       StoreFileAgrees, SwapAgrees, InstallAgrees DEF SaverStep
  <1> QED BY <1>0, <1>1, <1>2, <1>3 DEF SettingsNext, SavesInv

(* With no save under way, requests work with the settings last reported as  *)
(* saved, and a save looks things up in a snapshot that is there and not     *)
(* freed, as long as saves did not overlap and none stored its settings in   *)
(* the file only, beside an older row.                                       *)
THEOREM SavesSoundAlways == SettingsSpec => []SavesSound
  <1>1. SavesInv => SavesSound
    <2> SUFFICES ASSUME SavesInv, ~ blurred PROVE SavesSound
      BY DEF SavesSound
    <2>1. Agreeing /\ SettingsInv
      BY DEF SavesInv
    <2>2. (\A s \in Savers : ~ Saving(s)) => agreed = InUse
      BY <2>1 DEF Agreeing, InForce
    <2>3. ASSUME agreed # NoConfig, NEW s \in Savers
          PROVE  /\ saver[s].at # "crashed"
                 /\ saver[s].at = "copy" => ~ snap[saver[s].old].freed
      <3>1. ASSUME saver[s].at \in {"crashed", "copy"} PROVE Goes(s)
        BY <2>1, <3>1 DEF Agreeing, Saving
      <3>2. saver[s].at # "crashed"
        BY <2>3, <3>1 DEF Goes
      <3>3. ASSUME saver[s].at = "copy" PROVE ~ snap[saver[s].old].freed
        <4>1. saver[s].old = holds[Installed] /\ holds[Installed] # NoSnapshot
          BY <3>1, <3>3 DEF Goes
        <4> QED BY <2>1, <4>1, HeldIsAlive DEF Holders
      <3> QED BY <3>2, <3>3
    <2> QED BY <2>2, <2>3 DEF SavesSound, LookupSafe, InUse
  <1> QED BY <1>1, SavesStart, SavesStep, PTL DEF SettingsSpec

-----------------------------------------------------------------------------
(* A run of a workflow.  The steps succeed in their order, each once, ...    *)
InTurn == \A i, j \in DOMAIN succeeded : i < j => succeeded[i] < succeeded[j]
Past == /\ \A i \in DOMAIN succeeded : succeeded[i] \in DOMAIN graph
        /\ mode \in {"check", "run"} => \A i \in DOMAIN succeeded : succeeded[i] < step

(* ... and are undone from the last one; undoAt tells how far.               *)
Left == IF mode \in {"undo", "closed"} THEN undoAt ELSE Len(succeeded)
Undone == {succeeded[i] : i \in {k \in Left + 1 .. Len(succeeded) : graph[succeeded[k]].undoable}}

WfTypes ==
    /\ graph \in Seq(Nodes)
    /\ mode \in {"start", "check", "run", "undo", "closed"}
    /\ step \in Nat \ {0}
    /\ succeeded \in Seq(Nat) /\ compensated \in Seq(Nat)
    /\ undoAt \in 0 .. Len(succeeded)
    /\ closing \in Seq({"complete","cancelled","error"})
    /\ mode = "start" => graph = << >> /\ succeeded = << >>
    /\ mode = "run" => step <= Len(graph)

WfInv ==
    /\ WfTypes /\ InTurn /\ Past
    /\ \A i, j \in DOMAIN compensated : i < j => compensated[i] > compensated[j]
    /\ IF mode \in {"undo", "closed"} /\ "complete" \notin ToSet(closing)
       THEN ToSet(compensated) = Undone
       ELSE compensated = << >>
    /\ context = ToSet(succeeded) \ {FinalStep}
    /\ IF mode # "closed" THEN closing = << >>
                          ELSE \/ ToSet(closing) \in {{"complete"}, {"cancelled", "complete"}}
                               \/ closing = <<"error">> /\ undoAt = 0
                               \/ closing = << >> /\ succeeded = << >>

-----------------------------------------------------------------------------
LEMMA Appended ==
  ASSUME NEW S, NEW s \in Seq(S), NEW e \in S
  PROVE  /\ Append(s, e) \in Seq(S) /\ Len(Append(s, e)) = Len(s) + 1 /\ Len(s) \in Nat
         /\ DOMAIN s = 1 .. Len(s) /\ DOMAIN Append(s, e) = 1 .. Len(s) + 1
         /\ Append(s, e)[Len(s) + 1] = e
         /\ \A i \in DOMAIN s : Append(s, e)[i] = s[i]
         /\ ToSet(Append(s, e)) = ToSet(s) \cup {e}
  <1>1. /\ Append(s, e) \in Seq(S) /\ Len(Append(s, e)) = Len(s) + 1 /\ Len(s) \in Nat
        /\ DOMAIN s = 1 .. Len(s) /\ DOMAIN Append(s, e) = 1 .. Len(s) + 1
        /\ Append(s, e)[Len(s) + 1] = e
        /\ \A i \in DOMAIN s : Append(s, e)[i] = s[i]
    BY AppendProperties
  <1> QED BY <1>1 DEF ToSet

LEMMA WfStart == WfInit => WfInv
  BY DEF WfInit, WfInv, WfTypes, InTurn, Past, ToSet, Undone, Left

\* Nothing is undone or succeeds.
LEMMA WfWaits ==
  ASSUME WfInv, mode \notin {"undo", "closed"}, UNCHANGED <<graph, succeeded, undoAt, compensated, context, closing>>,
         mode' \in {"check", "run"}, mode = "start" => mode' = "check",
         step' \in Nat \ {0}, step' >= step, mode' = "run" => step' <= Len(graph)
  PROVE  WfInv'
  <1>1. graph = << >> \/ mode # "start"
    BY DEF WfInv, WfTypes
  <1>2. WfTypes'
    BY DEF WfInv, WfTypes
  <1>3. InTurn' /\ Past'
    BY DEF WfInv, InTurn, Past, WfTypes
  <1> QED BY <1>2, <1>3 DEF WfInv, ToSet, FinalStep

LEMMA OpenSessionKeeps == ASSUME WfInv, OpenSession PROVE WfInv'
  <1>1. ASSUME NEW n \in 1 .. NodeCount, graph' \in [1 .. n -> Nodes], mode' = "check"
        PROVE  WfInv'
    <2>1. succeeded = << >> /\ mode = "start" /\ compensated = << >> /\ closing = << >>
      BY DEF WfInv, WfTypes, OpenSession
    <2>2. n \in Nat
      BY WorkflowAssumption
    <2>3. graph' \in Seq(Nodes)
      BY <1>1, <2>2, SeqDef
    <2>4. WfTypes'
      BY <1>1, <2>1, <2>3 DEF WfInv, WfTypes, OpenSession
    <2>5. ToSet(succeeded) = {}
      BY <2>1 DEF ToSet
    <2>6. context = {}
      BY <2>5 DEF WfInv
    <2> QED BY <1>1, <2>1, <2>4, <2>5, <2>6 DEF WfInv, InTurn, Past, OpenSession, ToSet, FinalStep
  <1>2. ASSUME mode' = "closed", graph' = graph PROVE WfInv'
    <2>1. succeeded = << >> /\ mode = "start" /\ compensated = << >> /\ closing = << >>
      BY DEF WfInv, WfTypes, OpenSession
    <2>2. WfTypes'
      BY <1>2, <2>1 DEF WfInv, WfTypes, OpenSession
    <2>3. Undone' = {} /\ ToSet(compensated) = {}
      BY <2>1, <2>2 DEF Undone, ToSet, OpenSession, WfTypes, Left
    <2> QED BY <1>2, <2>1, <2>2, <2>3 DEF WfInv, InTurn, Past, OpenSession, ToSet, FinalStep
  <1> QED BY <1>1, <1>2 DEF OpenSession

LEMMA BeginStepKeeps == ASSUME WfInv, BeginStep PROVE WfInv'
  <1>0. mode = "check" /\ closing = << >> /\ compensated = << >> /\ step \in Nat \ {0}
    BY DEF WfInv, WfTypes, BeginStep
  <1>1. ASSUME mode' = "closed",
               closing' = <<"complete">> \/ closing' = <<"cancelled", "complete">>
        PROVE  WfInv'
    <2>1. ToSet(closing') \in {{"complete"}, {"cancelled", "complete"}}
      <3>1. CASE closing' = <<"complete">>
        BY <3>1 DEF ToSet
      <3>2. CASE closing' = <<"cancelled", "complete">>
        BY <3>2 DEF ToSet
      <3> QED BY <1>1, <3>1, <3>2
    <2>3. closing' \in Seq({"complete", "cancelled", "error"})
      <3>1. CASE closing' = <<"complete">>
        BY <3>1
      <3>2. CASE closing' = <<"cancelled", "complete">>
        BY <3>2
      <3> QED BY <1>1, <3>1, <3>2
    <2>4. UNCHANGED <<graph, step, succeeded, undoAt, compensated>>
      BY <1>0, <1>1 DEF BeginStep
    <2>2. WfTypes'
      BY <1>0, <1>1, <2>3, <2>4 DEF WfInv, WfTypes
    <2> QED BY <1>0, <1>1, <2>1, <2>2 DEF WfInv, InTurn, Past, BeginStep, ToSet, FinalStep
  <1>2. closing' = closing \/ closing' = <<"complete">> \/ closing' = <<"cancelled", "complete">>
    BY <1>0 DEF BeginStep
  <1>3. CASE mode' # "closed"
    BY <1>0, <1>3, WfWaits DEF BeginStep, FinalStep
  <1> QED BY <1>0, <1>1, <1>2, <1>3 DEF BeginStep

LEMMA RetryKeeps == ASSUME WfInv, Retry PROVE WfInv'
  <1> QED BY WfWaits DEF Retry, WfInv, WfTypes

LEMMA SuccessKeeps == ASSUME WfInv, StepSucceeds PROVE WfInv'
  <1>0. /\ mode = "run" /\ mode' = "check" /\ step \in Nat \ {0} /\ step' = step + 1
        /\ step <= Len(graph) /\ graph' = graph /\ graph \in Seq(Nodes)
        /\ succeeded \in Seq(Nat) /\ succeeded' = Append(succeeded, step)
        /\ closing = << >> /\ compensated = << >>
        /\ undoAt' = undoAt /\ closing' = closing /\ compensated' = compensated
    BY DEF WfInv, WfTypes, StepSucceeds
  <1>1. /\ succeeded' \in Seq(Nat) /\ Len(succeeded') = Len(succeeded) + 1 /\ Len(succeeded) \in Nat
        /\ DOMAIN succeeded = 1 .. Len(succeeded) /\ DOMAIN succeeded' = 1 .. Len(succeeded) + 1
        /\ succeeded'[Len(succeeded) + 1] = step
        /\ \A i \in DOMAIN succeeded : succeeded'[i] = succeeded[i]
    BY <1>0, Appended
  <1>2. WfTypes'
    BY <1>0, <1>1 DEF WfInv, WfTypes
  <1>3. \A i \in DOMAIN succeeded : succeeded[i] < step /\ succeeded[i] \in DOMAIN graph
    BY <1>0 DEF WfInv, Past
  <1>4. InTurn'
    BY <1>0, <1>1, <1>3 DEF WfInv, InTurn
  <1>5. Past'
    BY <1>0, <1>1, <1>3 DEF Past
  <1>6. ToSet(succeeded') = ToSet(succeeded) \cup {step} /\ FinalStep \notin ToSet(succeeded)
    <2>1. step \in Nat /\ ToSet(succeeded') = ToSet(succeeded) \cup {step}
      BY <1>0, Appended
    <2>2. \A i \in DOMAIN succeeded : succeeded[i] # FinalStep
      <3> SUFFICES ASSUME NEW i \in DOMAIN succeeded PROVE succeeded[i] # FinalStep
        OBVIOUS
      <3>1. succeeded[i] < step /\ succeeded[i] \in Nat /\ Len(graph) \in Nat
        BY <1>0, <1>3
      <3> QED BY <1>0, <3>1 DEF FinalStep
    <2> QED BY <2>1, <2>2 DEF ToSet
  <1>7. context' = ToSet(succeeded') \ {FinalStep'}
    BY <1>0, <1>6 DEF WfInv, StepSucceeds, FinalStep
  <1> QED BY <1>0, <1>2, <1>4, <1>5, <1>7 DEF WfInv

LEMMA FailureKeeps == ASSUME WfInv, StepFails PROVE WfInv'
  <1>0. /\ mode = "run" /\ mode' = "undo" /\ undoAt' = Len(succeeded) /\ closing = << >>
        /\ compensated = << >> /\ succeeded \in Seq(Nat)
        /\ UNCHANGED <<graph, step, tries, token, succeeded, compensated, context, closing>>
    BY DEF WfInv, WfTypes, StepFails
  <1>1. WfTypes'
    BY <1>0 DEF WfInv, WfTypes
  <1>2. Undone' = {} /\ ToSet(compensated') = {} /\ ToSet(closing') = {}
    BY <1>0, <1>1 DEF Undone, Left, ToSet, WfTypes
  <1> QED BY <1>0, <1>1, <1>2 DEF WfInv, InTurn, Past, ToSet, FinalStep

LEMMA CompensateKeeps == ASSUME WfInv, Compensate PROVE WfInv'
  <1>0. /\ mode = "undo" /\ closing = << >> /\ succeeded \in Seq(Nat) /\ undoAt \in 0 .. Len(succeeded)
        /\ compensated \in Seq(Nat) /\ ToSet(closing) = {}
        /\ UNCHANGED <<graph, step, tries, token, succeeded, context>>
    BY DEF WfInv, WfTypes, Compensate, ToSet
  <1>1. ToSet(compensated) = Undone
    BY <1>0 DEF WfInv
  <1>2. CASE undoAt = 0
    <2>1. closing' = <<"error">> /\ mode' = "closed" /\ UNCHANGED <<undoAt, compensated>>
      BY <1>0, <1>2 DEF Compensate
    <2>2. WfTypes' /\ "complete" \notin ToSet(closing')
      BY <1>0, <2>1 DEF WfInv, WfTypes, ToSet
    <2>3. Undone' = Undone
      BY <1>0, <2>1 DEF Undone, Left
    <2> QED BY <1>0, <1>1, <1>2, <2>1, <2>2, <2>3 DEF WfInv, InTurn, Past, ToSet, FinalStep
  <1>3. CASE undoAt # 0
    <2>1. mode' = "undo" /\ closing' = closing /\ undoAt' = undoAt - 1 /\ undoAt' \in 0 .. Len(succeeded)
          /\ undoAt \in DOMAIN succeeded /\ succeeded[undoAt] \in Nat
      BY <1>0, <1>3 DEF Compensate
    <2>2. \A i \in ToSet(compensated) : i > succeeded[undoAt]
      <3> SUFFICES ASSUME NEW i \in Undone PROVE i > succeeded[undoAt]
        BY <1>1
      <3>1. PICK k \in undoAt + 1 .. Len(succeeded) : i = succeeded[k]
        BY <1>0 DEF Undone, Left
      <3>2. k \in DOMAIN succeeded /\ undoAt < k /\ i \in Nat
        BY <1>0, <2>1, <3>1
      <3>3. succeeded[undoAt] < i
        BY <2>1, <3>1, <3>2 DEF WfInv, InTurn
      <3> QED BY <2>1, <3>2, <3>3
    <2>5. undoAt + 1 .. Len(succeeded) \subseteq undoAt' + 1 .. Len(succeeded)
          /\ undoAt' + 1 .. Len(succeeded) = {undoAt} \cup (undoAt + 1 .. Len(succeeded))
      BY <1>0, <1>3, <2>1
    <2>6. /\ Undone = {succeeded[i] : i \in {k \in undoAt + 1 .. Len(succeeded) : graph[succeeded[k]].undoable}}
          /\ Undone' = {succeeded[i] : i \in {k \in undoAt' + 1 .. Len(succeeded) : graph[succeeded[k]].undoable}}
      BY <1>0, <2>1 DEF Undone, Left
    <2>3. CASE graph[succeeded[undoAt]].undoable
      <3>1. compensated' = Append(compensated, succeeded[undoAt])
        BY <1>3, <2>3 DEF Compensate
      <3>2. /\ compensated' \in Seq(Nat) /\ Len(compensated') = Len(compensated) + 1 /\ Len(compensated) \in Nat
            /\ DOMAIN compensated = 1 .. Len(compensated) /\ DOMAIN compensated' = 1 .. Len(compensated) + 1
            /\ compensated'[Len(compensated) + 1] = succeeded[undoAt]
            /\ \A i \in DOMAIN compensated : compensated'[i] = compensated[i]
        <4>1. PICK e \in Nat : e = succeeded[undoAt]
          BY <2>1
        <4> QED BY <1>0, <3>1, <4>1, Appended
      <3>3. ToSet(compensated') = ToSet(compensated) \cup {succeeded[undoAt]}
        BY <1>0, <2>1, <3>1, Appended
      <3>4. Undone' = Undone \cup {succeeded[undoAt]}
        BY <2>3, <2>5, <2>6
      <3>5. \A i, j \in DOMAIN compensated' : i < j => compensated'[i] > compensated'[j]
        <4> SUFFICES ASSUME NEW i \in DOMAIN compensated', NEW j \in DOMAIN compensated', i < j
                     PROVE  compensated'[i] > compensated'[j]
          OBVIOUS
        <4>1. i \in DOMAIN compensated
          BY <3>2
        <4>2. CASE j \in DOMAIN compensated
          BY <3>2, <4>1, <4>2 DEF WfInv
        <4>3. CASE j = Len(compensated) + 1
          BY <2>2, <3>2, <4>1, <4>3 DEF ToSet
        <4> QED BY <3>2, <4>2, <4>3
      <3>6. WfTypes'
        BY <1>0, <2>1, <3>2 DEF WfInv, WfTypes
      <3> QED BY <1>0, <1>1, <2>1, <3>3, <3>4, <3>5, <3>6 DEF WfInv, InTurn, Past, FinalStep
    <2>4. CASE ~ graph[succeeded[undoAt]].undoable
      <3>1. compensated' = compensated
        BY <1>3, <2>4 DEF Compensate
      <3>2. Undone' = Undone
        BY <2>4, <2>5, <2>6
      <3>3. WfTypes'
        BY <1>0, <2>1, <3>1 DEF WfInv, WfTypes
      <3> QED BY <1>0, <1>1, <2>1, <3>1, <3>2, <3>3 DEF WfInv, InTurn, Past, FinalStep
    <2> QED BY <2>3, <2>4
  <1> QED BY <1>2, <1>3

LEMMA WfRests ==
  ASSUME WfInv, UNCHANGED <<graph, step, mode, tries, succeeded, undoAt, compensated, context, closing>>
  PROVE  WfInv'
  <1>1. WfTypes' /\ InTurn' /\ Past'
    BY DEF WfInv, WfTypes, InTurn, Past
  <1>2. Undone' = Undone /\ ToSet(compensated)' = ToSet(compensated) /\ ToSet(closing)' = ToSet(closing)
    BY DEF Undone, Left, ToSet
  <1>3. context' = ToSet(succeeded') \ {FinalStep'}
    BY DEF WfInv, FinalStep
  <1> QED BY <1>1, <1>2, <1>3 DEF WfInv

LEMMA WfStepKeeps == WfInv /\ [WfNext]_wfVars => WfInv'
  BY OpenSessionKeeps, BeginStepKeeps, RetryKeeps, SuccessKeeps, FailureKeeps, CompensateKeeps, WfRests
     DEF WfNext, WfStep, CancelRun, wfVars

\* A run that failed has compensated what had succeeded, the latest first; one
\* that did not fail has compensated nothing.
THEOREM SagaCompleteAlways == WfSpec => []SagaComplete
  <1>1. WfInv => SagaComplete
    <2> SUFFICES ASSUME WfInv PROVE SagaComplete
      OBVIOUS
    <2>1. succeeded \in Seq(Nat) /\ undoAt \in 0 .. Len(succeeded)
      BY DEF WfInv, WfTypes
    <2>2. Undone \subseteq Undoable /\ (undoAt = 0 /\ mode = "closed" => Undone = Undoable)
      BY <2>1 DEF Undone, Undoable, ToSet, Left
    <2>3. compensated = << >> => ToSet(compensated) = {}
      BY DEF ToSet
    <2>4. \A i \in Undone, j \in Undoable : j > i => j \in Undone
      <3> SUFFICES ASSUME NEW i \in Undone, NEW j \in Undoable, j > i PROVE j \in Undone
        OBVIOUS
      <3>0. Left \in 0 .. Len(succeeded)
        BY <2>1 DEF Left
      <3>1. PICK k \in Left + 1 .. Len(succeeded) : i = succeeded[k]
        BY DEF Undone
      <3>2. PICK l \in DOMAIN succeeded : j = succeeded[l] /\ graph[succeeded[l]].undoable
        BY DEF Undoable, ToSet
      <3>3. k \in DOMAIN succeeded /\ i \in Nat /\ j \in Nat
        BY <2>1, <3>0, <3>1, <3>2
      <3>4. ~ (l < k) /\ l # k
        BY <3>1, <3>2, <3>3 DEF WfInv, InTurn
      <3>5. l \in Left + 1 .. Len(succeeded)
        BY <2>1, <3>0, <3>1, <3>2, <3>4
      <3> QED BY <3>2, <3>5 DEF Undone
    <2>5. ToSet(compensated) \in {{}, Undone}
      BY <2>3 DEF WfInv
    <2>6. mode = "closed" =>
            ToSet(compensated) = IF "error" \in ToSet(closing) THEN Undoable ELSE {}
      <3> SUFFICES ASSUME mode = "closed"
                   PROVE  ToSet(compensated) = IF "error" \in ToSet(closing) THEN Undoable ELSE {}
        OBVIOUS
      <3>1. CASE ToSet(closing) \in {{"complete"}, {"cancelled", "complete"}}
        BY <2>3, <3>1 DEF WfInv
      <3>2. CASE closing = <<"error">> /\ undoAt = 0
        BY <2>2, <3>2 DEF WfInv, ToSet
      <3>3. CASE closing = << >> /\ succeeded = << >>
        <4>1. "error" \notin ToSet(closing) /\ Undone = {}
          BY <2>1, <3>3 DEF ToSet, Undone, Left
        <4> QED BY <2>5, <4>1
      <3> QED BY <3>1, <3>2, <3>3 DEF WfInv
    <2> QED BY <2>2, <2>3, <2>4, <2>5, <2>6 DEF WfInv, SagaComplete
  <1> QED BY <1>1, WfStart, WfStepKeeps, PTL DEF WfSpec

=============================================================================
