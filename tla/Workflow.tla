------------------------------ MODULE Workflow ------------------------------
(***************************************************************************)
(* A workflow run (ai/workflow/executor.c): the steps of its graph in      *)
(* order, each with a condition, retries and possibly a compensator; when  *)
(* a step fails for good, the steps that had succeeded are compensated in  *)
(* reverse.  Only the events that close the stream are kept.               *)
(***************************************************************************)
EXTENDS Naturals, Sequences, SequencesExt

CONSTANTS
    NodeCount,   \* bound on the steps of the graph
    MaxRetries   \* bound on max_retries

ASSUME WorkflowAssumption == NodeCount \in Nat /\ MaxRetries \in Nat

VARIABLES
    graph,       \* the graph: a sequence of nodes
    step,        \* the step it is at
    mode,        \* "start", "check", "run", "undo", "closed"
    tries,       \* attempts made of the current step
    token,       \* *cancel_token
    succeeded,   \* succeeded_steps[0 .. succeeded_count - 1]
    undoAt,      \* how many of them are still to be looked at
    compensated, \* compensators called, in order
    context,     \* the steps whose output ctx_obj holds
    closing      \* events sent that close the stream

wfVars == <<graph, step, mode, tries, token, succeeded, undoAt, compensated, context, closing>>

Nodes == [guarded : BOOLEAN, retries : 0 .. MaxRetries, undoable : BOOLEAN]

WfInit ==
    /\ graph = << >>
    /\ step = 1
    /\ mode = "start"
    /\ tries = 0
    /\ token = FALSE
    /\ succeeded = << >>
    /\ undoAt = 0
    /\ compensated = << >>
    /\ context = {}
    /\ closing = << >>

FinalStep == Len(graph)

----------------------------------------------------------------------------
\* The session is the user's, or a new one, and the graph of the skill is run;
\* else nothing is sent at all.
OpenSession ==
    /\ mode = "start"
    /\ \/ /\ graph' \in UNION {[1 .. n -> Nodes] : n \in 1 .. NodeCount}
          /\ mode' = "check"
       \/ /\ mode' = "closed"
          /\ UNCHANGED graph
    /\ UNCHANGED <<step, tries, token, succeeded, undoAt, compensated, context, closing>>

\* The head of the loop: the token first, then the condition of the step.
\* A cancelled run leaves the loop, and the end of the function says that it is
\* complete.
BeginStep ==
    /\ mode = "check"
    /\ \/ /\ step > FinalStep
          /\ closing' = Append(closing, "complete")
          /\ mode' = "closed"
          /\ UNCHANGED <<step, tries>>
       \/ /\ step <= FinalStep /\ token
          /\ closing' = closing \o <<"cancelled", "complete">>
          /\ mode' = "closed"
          /\ UNCHANGED <<step, tries>>
       \/ /\ step <= FinalStep /\ ~token /\ graph[step].guarded
          /\ step' = step + 1
          /\ UNCHANGED <<mode, tries, closing>>
       \/ /\ step <= FinalStep /\ ~token
          /\ mode' = "run"
          /\ tries' = 0
          /\ UNCHANGED <<step, closing>>
    /\ UNCHANGED <<graph, token, succeeded, undoAt, compensated, context>>

\* An attempt gives no output, or none that parses, and another is left.
Retry ==
    /\ mode = "run"
    /\ tries < graph[step].retries
    /\ tries' = tries + 1
    /\ UNCHANGED <<graph, step, mode, token, succeeded, undoAt, compensated, context, closing>>

\* The last step is the report, of the model or of the node: its output is
\* shown and saved, the others' outputs are what the next steps read.
StepSucceeds ==
    /\ mode = "run"
    /\ succeeded' = Append(succeeded, step)
    /\ context' = IF step = FinalStep THEN context ELSE context \union {step}
    /\ step' = step + 1
    /\ mode' = "check"
    /\ UNCHANGED <<graph, tries, token, undoAt, compensated, closing>>

StepFails ==
    /\ mode = "run"
    /\ tries = graph[step].retries
    /\ undoAt' = Len(succeeded)
    /\ mode' = "undo"
    /\ UNCHANGED <<graph, step, tries, token, succeeded, compensated, context, closing>>

\* Slip: the latest success is passed over.
Compensate_SkipsLatest ==
    /\ mode = "undo"
    /\ IF undoAt = 0
       THEN /\ closing' = Append(closing, "error")
            /\ mode' = "closed"
            /\ UNCHANGED <<undoAt, compensated>>
       ELSE /\ undoAt' = undoAt - 1
            /\ compensated' = IF undoAt < Len(succeeded) /\ graph[succeeded[undoAt]].undoable
                              THEN Append(compensated, succeeded[undoAt])
                              ELSE compensated
            /\ UNCHANGED <<mode, closing>>
    /\ UNCHANGED <<graph, step, tries, token, succeeded, context>>

\* exec_saga_compensate, and the error that ends the run.  What a compensator
\* returns is not looked at.
Compensate ==
    /\ mode = "undo"
    /\ IF undoAt = 0
       THEN /\ closing' = Append(closing, "error")
            /\ mode' = "closed"
            /\ UNCHANGED <<undoAt, compensated>>
       ELSE /\ undoAt' = undoAt - 1
            /\ compensated' = IF graph[succeeded[undoAt]].undoable
                              THEN Append(compensated, succeeded[undoAt])
                              ELSE compensated
            /\ UNCHANGED <<mode, closing>>
    /\ UNCHANGED <<graph, step, tries, token, succeeded, context>>

\* The client goes away.  (The executor takes a token; its only caller today,
\* ai_workflow_service.c, passes none.)
CancelRun ==
    /\ ~token /\ mode # "closed"
    /\ token' = TRUE
    /\ UNCHANGED <<graph, step, mode, tries, succeeded, undoAt, compensated, context, closing>>

WfStep == OpenSession \/ BeginStep \/ Retry \/ StepSucceeds \/ StepFails \/ Compensate
WfNext == WfStep \/ CancelRun

WfSpec == WfInit /\ [][WfNext]_wfVars

----------------------------------------------------------------------------
\* The steps there is something to compensate of.
Undoable == {i \in ToSet(succeeded) : graph[i].undoable}

\* A run that failed has compensated every step that succeeded and can be, each
\* once, the latest first; one that did not fail has compensated none.  While it
\* undoes, it has done so from the end, and a step reads only outputs of steps
\* that succeeded before it.
SagaComplete ==
    /\ mode = "closed" =>
          ToSet(compensated) = IF "error" \in ToSet(closing) THEN Undoable ELSE {}
    /\ \A i, j \in DOMAIN compensated : i < j => compensated[i] > compensated[j]
    /\ \A i \in ToSet(compensated) : i \in Undoable
    /\ \A i \in ToSet(compensated), j \in Undoable : j > i => j \in ToSet(compensated)
    /\ compensated # << >> => mode \in {"undo", "closed"}
    /\ context = ToSet(succeeded) \ {FinalStep}

=============================================================================
