------------------------------- MODULE MCSuite -------------------------------
(***************************************************************************)
(* Small instances of the components that share no state with each other,  *)
(* checked in one run: the first state picks a part, every step is that    *)
(* part's, and the variables of the others rest.                           *)
(***************************************************************************)
EXTENDS Confirmation, Dca, Sessions, Membership, AiSettings, AiLoop, McpPool, OfflineSync,
        Workflow, McpClient, RateLimit, MCLedger, TLC

\* The ledger is that of the theorems of module LedgerProofs about balances: one
\* worker, one currency, no lost fee rows.
ASSUME OneTellerIsPlain == PlainBooks

VARIABLE part

WeeklyAndMonthly == {[freq |-> "weekly", day |-> 1], [freq |-> "monthly", day |-> 2]}

-----------------------------------------------------------------------------
own == <<confVars, poolVars, clientVars, dcaVars, loopVars, wfVars, sessVars, syncVars, memberVars, limitVars, vars, settingsVars>>

ConfirmationStep == part = "confirmation" /\ ConfNext
  /\ UNCHANGED <<part, poolVars, clientVars, dcaVars, loopVars, wfVars, sessVars, syncVars, memberVars, limitVars, vars, settingsVars>>
McpPoolStep == part = "mcp" /\ PoolNext
  /\ UNCHANGED <<part, confVars, clientVars, dcaVars, loopVars, wfVars, sessVars, syncVars, memberVars, limitVars, vars, settingsVars>>
McpClientStep == part = "client" /\ ClientNext
  /\ UNCHANGED <<part, confVars, poolVars, dcaVars, loopVars, wfVars, sessVars, syncVars, memberVars, limitVars, vars, settingsVars>>
DcaStep == part = "dca" /\ DcaNext
  /\ UNCHANGED <<part, confVars, poolVars, clientVars, loopVars, wfVars, sessVars, syncVars, memberVars, limitVars, vars, settingsVars>>
AiLoopStep == part = "loop" /\ LoopNext
  /\ UNCHANGED <<part, confVars, poolVars, clientVars, dcaVars, wfVars, sessVars, syncVars, memberVars, limitVars, vars, settingsVars>>
WorkflowStep == part = "workflow" /\ WfNext
  /\ UNCHANGED <<part, confVars, poolVars, clientVars, dcaVars, loopVars, sessVars, syncVars, memberVars, limitVars, vars, settingsVars>>
SessionsStep == part = "sessions" /\ SessNext
  /\ UNCHANGED <<part, confVars, poolVars, clientVars, dcaVars, loopVars, wfVars, syncVars, memberVars, limitVars, vars, settingsVars>>
OfflineSyncStep == part = "sync" /\ SyncNext
  /\ UNCHANGED <<part, confVars, poolVars, clientVars, dcaVars, loopVars, wfVars, sessVars, memberVars, limitVars, vars, settingsVars>>
MembershipStep == part = "membership" /\ MemberNext
  /\ UNCHANGED <<part, confVars, poolVars, clientVars, dcaVars, loopVars, wfVars, sessVars, syncVars, limitVars, vars, settingsVars>>
RateLimitStep == part = "limit" /\ LimitNext
  /\ UNCHANGED <<part, confVars, poolVars, clientVars, dcaVars, loopVars, wfVars, sessVars, syncVars, memberVars, vars, settingsVars>>
LedgerStep == part = "ledger" /\ Next
  /\ UNCHANGED <<part, confVars, poolVars, clientVars, dcaVars, loopVars, wfVars, sessVars, syncVars, memberVars, limitVars, settingsVars>>
AiSettingsStep == part = "settings" /\ SettingsNext
  /\ UNCHANGED <<part, confVars, poolVars, clientVars, dcaVars, loopVars, wfVars, sessVars, syncVars, memberVars, limitVars, vars>>

SuiteInit ==
  /\ ConfInit /\ PoolInit /\ ClientInit /\ DcaInit
  /\ LoopInit /\ WfInit /\ SessInit /\ SyncInit /\ MemberInit /\ LimitInit /\ Init /\ SettingsInit
  /\ part \in {"confirmation", "mcp", "client", "dca", "loop", "workflow", "sessions",
              "sync", "membership", "limit", "ledger", "settings"}
  /\ part # "settings" => inDb = NoConfig /\ inFile = NoConfig
SuiteNext ==
  \/ ConfirmationStep \/ McpPoolStep \/ McpClientStep
  \/ DcaStep \/ AiLoopStep \/ WorkflowStep \/ SessionsStep \/ OfflineSyncStep
  \/ MembershipStep \/ RateLimitStep \/ LedgerStep \/ AiSettingsStep

suiteVars == <<part, own>>
SuiteSpec == SuiteInit /\ [][SuiteNext]_suiteVars

\* Of the threads, and of the data; every part has its sets from these two.
Symmetric == Permutations(Threads) \cup Permutations(Nonces)
=============================================================================
