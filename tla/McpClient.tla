------------------------------ MODULE McpClient ------------------------------
(***************************************************************************)
(* One stdio client of an MCP server (tools/mcp/mcp_client.c): a child     *)
(* process behind two pipes, and the bridge that sends it one request      *)
(* after the other (mcp_bridge.c).  A frame ends with a newline.  It is    *)
(* read in blocks, so that a block may hold part of a line, or the end of  *)
(* one line and the beginning of the next.                                 *)
(*                                                                         *)
(* Every request carries the id 1 and nobody looks at the id of an answer: *)
(* what is read next is the answer.                                        *)
(*                                                                         *)
(* A line is a sequence of pieces; requests are numbered as they are sent. *)
(***************************************************************************)
EXTENDS Integers, Sequences, FiniteSets

CONSTANTS
    MaxCalls,     \* bound on the requests, of all clients of the server
    Lengths,      \* how many pieces the child's lines may have
    Block,        \* MCP_IO_BUFFER_SIZE, in pieces
    MaxFrame,     \* MCP_MAX_FRAME_SIZE, in pieces
    MaxUnasked    \* bound on lines the child writes without being asked

\* A line ends with a newline.
ASSUME ClientAssumption ==
    /\ Lengths \subseteq Nat \ {0}
    /\ {MaxCalls, Block, MaxFrame, MaxUnasked} \subseteq Nat

Error == 0
Unasked == -1

VARIABLES
    phase,    \* the client: "new", "shaking", "ready" or "failed"
    child,    \* the process: "none", "running" or "exited"
    stdin,    \* requests in the child's input
    writing,  \* what the child has still to write of a line
    stdout,   \* pieces in the child's output
    framer,   \* c->framer.buf[head .. tail]
    resp,     \* the line being put together
    call,     \* the last call: asked, got, and whether it still reads
    unasked,  \* lines written without being asked
    behind,   \* the lines to be read are no longer the answers to the requests
    given     \* the last request an answer was returned to

clientVars == <<phase, child, stdin, writing, stdout, framer, resp, call, unasked,
                behind, given>>
pipes == <<stdin, writing, stdout, framer, resp>>

Line(n, k) == [i \in 1 .. k |-> [of |-> n, part |-> i, last |-> i = k]]

ClientInit ==
    /\ phase = "new" /\ child = "none"
    /\ stdin = <<>> /\ writing = <<>> /\ stdout = <<>> /\ framer = <<>> /\ resp = <<>>
    /\ call = [reading |-> FALSE, asked |-> 0, got |-> Error]
    /\ unasked = 0 /\ behind = FALSE /\ given = 0

\* What a line means: the answer to a request, or an error.  A line without a
\* "result" is an error, and so is part of a line: it does not parse.
Meaning(line) ==
    IF \E k \in Lengths : line[1].of > 0 /\ line = Line(line[1].of, k)
    THEN line[1].of ELSE Error

----------------------------------------------------------------------------
(* A call: stdio_call, from the frame to the return *)

Return(n) ==
    /\ call' = [call EXCEPT !.reading = FALSE, !.got = n]
    /\ given' = IF n = Error THEN given ELSE n
    /\ IF phase = "shaking"   \* an answer may still say that it failed
       THEN phase' \in (IF n = Error THEN {"failed"} ELSE {"failed", "ready"})
       ELSE UNCHANGED phase

\* The pipes cannot be made, or fork fails.
SpawnFails ==
    /\ phase = "new"
    /\ phase' = "failed"
    /\ UNCHANGED <<child, pipes, call, unasked, behind, given>>

\* The first request is "initialize" and starts the child, the others are
\* calls of tools.
Ask ==
    /\ ~call.reading /\ phase \in {"new", "ready"}
    /\ call.asked < MaxCalls
    /\ child # "exited"
    /\ phase' = IF phase = "new" THEN "shaking" ELSE phase
    /\ child' = "running"
    /\ stdin' = Append(stdin, call.asked + 1)
    /\ resp' = <<>>
    /\ call' = [reading |-> TRUE, asked |-> call.asked + 1, got |-> Error]
    /\ UNCHANGED <<writing, stdout, framer, unasked, behind, given>>

\* The child has gone: EPIPE.  Its client is not given up for that.
BrokenPipe ==
    /\ ~call.reading /\ phase = "ready" /\ child = "exited"
    /\ call.asked < MaxCalls
    /\ call' = [reading |-> FALSE, asked |-> call.asked + 1, got |-> Error]
    /\ UNCHANGED <<phase, child, pipes, unasked, behind, given>>

Ends(f) == {i \in DOMAIN f : f[i].last}

\* Slip: the head is not moved past the newline.
TakeLine_HeadStays ==
    /\ call.reading /\ Ends(framer) # {}
    /\ LET e == CHOOSE i \in Ends(framer) : \A j \in Ends(framer) : i <= j IN
       Return(Meaning(resp \o SubSeq(framer, 1, e)))
    /\ resp' = <<>>
    /\ UNCHANGED <<child, stdin, writing, stdout, framer, unasked, behind>>

\* A newline is in the buffer: what follows it stays there for the next call.
TakeLine ==
    /\ call.reading /\ Ends(framer) # {}
    /\ LET e == CHOOSE i \in Ends(framer) : \A j \in Ends(framer) : i <= j IN
       /\ Return(Meaning(resp \o SubSeq(framer, 1, e)))
       /\ framer' = SubSeq(framer, e + 1, Len(framer))
    /\ resp' = <<>>
    /\ UNCHANGED <<child, stdin, writing, stdout, unasked, behind>>

\* It is not: everything moves on, and the frame may have become too long.
MoveOn ==
    /\ call.reading /\ framer # <<>> /\ Ends(framer) = {}
    /\ framer' = <<>>
    /\ IF Len(resp \o framer) < MaxFrame
       THEN /\ resp' = resp \o framer
            /\ UNCHANGED <<phase, call, behind, given>>
       ELSE resp' = <<>> /\ behind' = TRUE /\ Return(Error)
    /\ UNCHANGED <<child, stdin, writing, stdout, unasked>>

\* poll, then a block of what there is.
Read ==
    /\ call.reading /\ framer = <<>>
    /\ \E n \in 1 .. Block :
          /\ n <= Len(stdout)
          /\ framer' = SubSeq(stdout, 1, n)
          /\ stdout' = SubSeq(stdout, n + 1, Len(stdout))
    /\ UNCHANGED <<phase, child, stdin, writing, resp, call, unasked, behind, given>>

\* Nothing comes for timeout_ms (or poll fails): the beginning of a line is
\* dropped, the client goes back to the pool.
TimeOut ==
    /\ call.reading /\ framer = <<>> /\ stdout = <<>> /\ child = "running"
    /\ resp' = <<>> /\ behind' = TRUE /\ Return(Error)
    /\ UNCHANGED <<child, stdin, writing, stdout, framer, unasked>>

\* The child's output ends: what came of a line is taken for the line.
EndOfFile ==
    /\ call.reading /\ framer = <<>> /\ stdout = <<>> /\ child = "exited"
    /\ resp' = <<>>
    /\ Return(IF resp = <<>> THEN Error ELSE Meaning(resp))
    /\ UNCHANGED <<child, stdin, writing, stdout, framer, unasked, behind>>

\* A failed handshake, an eviction or a shutdown of the pool: mf_mcp_client_free
\* ends the child and closes the pipes.
FreeClient ==
    /\ ~call.reading /\ phase \in {"ready", "failed"}
    /\ phase' = "new" /\ child' = "none" /\ behind' = FALSE
    /\ stdin' = <<>> /\ writing' = <<>> /\ stdout' = <<>> /\ framer' = <<>> /\ resp' = <<>>
    /\ call' = [call EXCEPT !.got = Error]
    /\ UNCHANGED <<unasked, given>>

----------------------------------------------------------------------------
(* The child: it answers one request after the other, each with a line *)

Begins(line) == /\ child = "running" /\ writing = <<>> /\ writing' = line
                /\ UNCHANGED <<phase, child, stdout, framer, resp, call, given>>

ChildAnswers ==
    /\ stdin # <<>>
    /\ \E k \in Lengths : Begins(Line(Head(stdin), k))
    /\ stdin' = Tail(stdin)
    /\ UNCHANGED <<unasked, behind>>

\* A notification, or a line of a log on the wrong channel.
ChildSpeaks ==
    /\ unasked < MaxUnasked
    /\ \E k \in Lengths : Begins(Line(Unasked, k))
    /\ unasked' = unasked + 1 /\ behind' = TRUE
    /\ UNCHANGED stdin

ChildWrites ==
    /\ child = "running" /\ writing # <<>>
    /\ stdout' = Append(stdout, Head(writing))
    /\ writing' = Tail(writing)
    /\ UNCHANGED <<phase, child, stdin, framer, resp, call, unasked, behind, given>>

ChildExits ==
    /\ child = "running"
    /\ child' = "exited" /\ writing' = <<>>
    /\ UNCHANGED <<phase, stdin, stdout, framer, resp, call, unasked, behind, given>>

ClientNext ==
    \/ SpawnFails \/ Ask \/ BrokenPipe \/ TakeLine \/ MoveOn \/ Read \/ TimeOut
    \/ EndOfFile \/ FreeClient \/ ChildAnswers \/ ChildSpeaks \/ ChildWrites \/ ChildExits

ClientSpec == ClientInit /\ [][ClientNext]_clientVars

----------------------------------------------------------------------------
\* However lines are cut into blocks and wherever the child dies, what a call
\* returns is the answer to its own request, as long as no earlier answer of this
\* client was given up and the child only speaks when asked.  In step or not, no
\* answer is handed out twice.
InStep ==
    call.reading /\ ~call'.reading /\ call'.got # Error =>
        call'.got > given /\ (behind \/ call'.got = call.asked)
AnswersInStep == [][InStep]_clientVars

\* mcp_client.h: calling a tool returns the result (of that call).
OwnAnswer == (~call.reading /\ call.got # Error) => call.got = call.asked

=============================================================================
