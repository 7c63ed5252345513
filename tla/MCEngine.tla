------------------------------ MODULE MCEngine ------------------------------
(***************************************************************************)
(* The ledger under all its clients, the database connection under it, and *)
(* three components that share no state with them: the positions of one    *)
(* investment account, decimals, and the chat page with its server.  The   *)
(* first state picks the one that goes on.                                 *)
(***************************************************************************)
EXTENDS MCLedger, Chat, Positions, PositionForms, SharedConnection, TLC

\* The trades are those of the theorems of module InvestmentProofs.
ASSUME TradesArePriced == PricedTrades

VARIABLES side, word, left, right

\* The ends of the range, halves and ties of both signs.
Corners == {-128, -127, -65, -45, -35, -15, -4, -1, 0, 1, 5, 12, 25, 35, 64, 99, 127}

Numbers == INSTANCE Decimal WITH
     Bits <- 8, Radix <- 10, MaxScale <- 1, Mantissas <- Corners

\* Two questions were answered in the chat that is stored at first.
Twice == <<1, 1>>

numberVars == <<word, left, right>>

EngineInit == /\ side \in {"money", "position", "number", "page", "connection"}
              /\ Init /\ PositionInit /\ Numbers!DecimalInit /\ ChatInit /\ ConnInit
              /\ side # "money" => rate = 1
              /\ side # "position" => client = FreeClient /\ method = "fifo"
OnMoney    == side = "money" /\ Next /\ UNCHANGED <<side, positionVars, numberVars, chatVars, connVars>>
OnPosition == side = "position" /\ PositionNext
              /\ UNCHANGED <<side, vars, numberVars, chatVars, connVars>>
OnNumber   == side = "number" /\ Numbers!DecimalNext
              /\ UNCHANGED <<side, vars, positionVars, chatVars, connVars>>
OnPage     == side = "page" /\ ChatNext
              /\ UNCHANGED <<side, vars, positionVars, numberVars, connVars>>
OnConnection == side = "connection" /\ ConnNext
              /\ UNCHANGED <<side, vars, positionVars, numberVars, chatVars>>
EngineNext == OnMoney \/ OnPosition \/ OnNumber \/ OnPage \/ OnConnection
engineVars == <<side, vars, positionVars, numberVars, chatVars, connVars>>
EngineSpec == EngineInit /\ [][EngineNext]_engineVars

\* Of the workers, and of the accounts of the connection.
Symmetric == Permutations(Workers) \cup Permutations(Purses)

\* The property of the decimals, under its own name.
ArithmeticRight == side = "number" => Numbers!ArithmeticRight
=============================================================================
