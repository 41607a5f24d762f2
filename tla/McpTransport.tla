---------------------------- MODULE McpTransport ----------------------------
(***************************************************************************)
(* A connection to an MCP server, as StdioMCPTransport keeps it            *)
(* (src/src/mcp/transports.ts): requests that wait for the line with their *)
(* id, a timer and a signal that give a request up, and a process that may *)
(* exit.  Whoever asks has one request at a time, and none after one it    *)
(* gave up, so a request is named by who asks.  FetchMCPTransport settles  *)
(* the same promises, and it is the one that reports a challenge (401).    *)
(***************************************************************************)

CONSTANTS
    Requesters,     \* who asks
    Replies         \* what a response line can say

VARIABLES
    alive,          \* the child process has not exited
    pending,        \* the requests in the pending map
    wire,           \* wire[r]: what is under way for r's request, either way
    answer          \* answer[r]: what the promise of r's request settled to

TransportTypeOK ==
    /\ alive \in BOOLEAN
    /\ pending \subseteq Requesters
    /\ wire \in [Requesters -> {"none", "request"} \cup Replies]
    /\ answer \in [Requesters -> {"none", "rejected"} \cup (Replies \ {"error"})]

TransportInit ==
    /\ alive = TRUE
    /\ pending = {}
    /\ wire = [r \in Requesters |-> "none"]
    /\ answer = [r \in Requesters |-> "none"]

\* request(): what is written to a process that exited reaches nobody.
Request(r) ==
    /\ pending' = pending \cup {r}
    /\ wire' = [wire EXCEPT ![r] = IF alive THEN "request" ELSE "none"]
    /\ UNCHANGED <<alive, answer>>

\* The server handles the request and writes the response.
Serve(r, reply) ==
    /\ alive
    /\ wire[r] = "request"
    /\ wire' = [wire EXCEPT ![r] = reply]
    /\ UNCHANGED <<alive, pending, answer>>

\* handleLine(): the request with the id of the response settles.
HandleLine(r) ==
    /\ wire[r] \in Replies
    /\ wire' = [wire EXCEPT ![r] = "none"]
    /\ pending' = pending \ {r}
    /\ answer' = [answer EXCEPT ![r] = IF wire[r] = "error" THEN "rejected" ELSE wire[r]]
    /\ UNCHANGED alive

\* finishReject() for each of R that is pending.  A response to it, still to
\* come, is dropped.
RejectThose(R) ==
    /\ pending' = pending \ R
    /\ wire' = [r \in Requesters |-> IF r \in R THEN "none" ELSE wire[r]]
    /\ answer' = [r \in Requesters |-> IF r \in R \cap pending THEN "rejected" ELSE answer[r]]

\* The timer of a request fires, or its signal: only one that fires while the
\* request is pending is heard.
GiveUp(r) ==
    /\ r \in pending
    /\ RejectThose({r})
    /\ UNCHANGED alive

\* rejectAll(): the process exits, is killed by close(), or could not start.
Exit ==
    /\ alive
    /\ alive' = FALSE
    /\ RejectThose(Requesters)

\* Whoever awaits the promise goes on.
Take(r) ==
    /\ answer' = [answer EXCEPT ![r] = "none"]
    /\ UNCHANGED <<alive, pending, wire>>
=============================================================================
