------------------------------ MODULE Terminal ------------------------------
(***************************************************************************)
(* The bridge between web terminals and SSH shells                         *)
(* (static/ws/terminal_server.py): one process, one asyncio loop, one      *)
(* coroutine per session and two more while its shell is open.  What is    *)
(* slow runs in the loop's thread pool, except invoke_shell, which keeps   *)
(* the loop until the server answers.  Output comes from the thread of the *)
(* SSH library, at any time.                                               *)
(***************************************************************************)
EXTENDS Naturals, FiniteSets

CONSTANTS
  Sessions,  \* terminal pages, each opened once
  None,
  PoolSize,  \* threads of the loop's executor
  MaxChunks  \* bound: pieces of output of a channel that are not yet read

ASSUME TerminalAssumption ==
  /\ IsFiniteSet(Sessions) /\ None \notin Sessions
  /\ PoolSize \in Nat \ {0} /\ MaxChunks \in Nat

VARIABLES
  browser,  \* the page: not opened, there, or gone
  handler,  \* where the coroutine of the session is
  loop,     \* the session that keeps the loop, if one does
  ssh,      \* the SSH client
  shell,    \* the shell on the server
  chunks,   \* output received and not yet read
  reader,   \* ssh_to_ws
  writer    \* ws_to_ssh

vars == <<browser, handler, loop, ssh, shell, chunks, reader, writer>>

Init ==
  /\ browser = [s \in Sessions |-> "unborn"]
  /\ handler = [s \in Sessions |-> "none"]
  /\ loop = None
  /\ ssh = [s \in Sessions |-> "none"]
  /\ shell = [s \in Sessions |-> "none"]
  /\ chunks = [s \in Sessions |-> 0]
  /\ reader = [s \in Sessions |-> "polling"]
  /\ writer = [s \in Sessions |-> "reading"]

Goes(s, place) == handler' = [handler EXCEPT ![s] = place]

\* A coroutine takes a step when no other one keeps the loop.
At(s, place) == handler[s] = place /\ loop = None
InPool == {s \in Sessions : handler[s] \in {"verifying", "connecting"}}

\* The executor has a thread to spare.  (Here and below, an operator that no
\* action uses is a wrong variant of the one after it.)
PoolUnbounded == TRUE
PoolFree == Cardinality(InPool) < PoolSize

-----------------------------------------------------------------------------
(* Opening.                                                                *)

\* terminal_page signs a token, the page connects with it.
OpenPage(s) ==
  /\ browser[s] = "unborn"
  /\ browser' = [browser EXCEPT ![s] = "here"]
  /\ Goes(s, "arrived")
  /\ UNCHANGED <<loop, ssh, shell, chunks, reader, writer>>

\* The tab is closed, or the pings are not answered.
LeavePage(s) ==
  /\ browser[s] = "here"
  /\ browser' = [browser EXCEPT ![s] = "gone"]
  /\ UNCHANGED <<handler, loop, ssh, shell, chunks, reader, writer>>

BeginVerify(s) ==
  /\ At(s, "arrived") /\ PoolFree
  /\ Goes(s, "verifying")
  /\ UNCHANGED <<browser, loop, ssh, shell, chunks, reader, writer>>

\* Host, time limit, database, signature, user, role, key: all agree, or the
\* reason is sent and the socket closed.
EndVerify(s) ==
  /\ handler[s] = "verifying"
  /\ \/ Goes(s, "verified") /\ UNCHANGED browser
     \/ Goes(s, "ended") /\ browser' = [browser EXCEPT ![s] = "gone"]
  /\ UNCHANGED <<loop, ssh, shell, chunks, reader, writer>>

\* The client's transport and its thread are there from now on.
BeginConnect(s) ==
  /\ At(s, "verified") /\ PoolFree
  /\ Goes(s, "connecting")
  /\ ssh' = [ssh EXCEPT ![s] = "open"]
  /\ UNCHANGED <<browser, loop, shell, chunks, reader, writer>>

\* Not a bare return: the finally closes what is there.
AfterRefusalReturn(s) == Goes(s, "ended")
AfterRefusal(s) == Goes(s, "ending")

\* A connection that fails is told to the browser, if that is still there.
EndConnect(s) ==
  /\ handler[s] = "connecting"
  /\ Goes(s, "connected") \/ AfterRefusal(s)
  /\ UNCHANGED <<browser, loop, ssh, shell, chunks, reader, writer>>

\* invoke_shell is called on the loop.
AskShell(s) ==
  /\ At(s, "connected")
  /\ Goes(s, "asking") /\ loop' = s
  /\ UNCHANGED <<browser, ssh, shell, chunks, reader, writer>>

GetShell(s) ==
  /\ handler[s] = "asking"
  /\ loop' = None
  /\ \/ Goes(s, "relaying") /\ shell' = [shell EXCEPT ![s] = "running"]
     \/ AfterRefusal(s) /\ UNCHANGED shell
  /\ UNCHANGED <<browser, ssh, chunks, reader, writer>>

-----------------------------------------------------------------------------
(* The shell, seen by the SSH library's thread.                            *)

Output(s) ==
  /\ shell[s] = "running" /\ chunks[s] < MaxChunks
  /\ chunks' = [chunks EXCEPT ![s] = @ + 1]
  /\ UNCHANGED <<browser, handler, loop, ssh, shell, reader, writer>>

\* The user ends it, or the connection is lost.
ShellExits(s) ==
  /\ shell[s] = "running"
  /\ shell' = [shell EXCEPT ![s] = "exited"]
  /\ UNCHANGED <<browser, handler, loop, ssh, chunks, reader, writer>>

-----------------------------------------------------------------------------
(* The two coroutines of an open shell.                                    *)

\* recv_ready: a piece of output is taken, or there is none now ...
Poll(s) ==
  /\ At(s, "relaying") /\ reader[s] = "polling"
  /\ \/ /\ chunks[s] > 0
        /\ chunks' = [chunks EXCEPT ![s] = @ - 1]
        /\ reader' = [reader EXCEPT ![s] = "sending"]
        /\ UNCHANGED loop
     \/ /\ chunks[s] = 0
        /\ reader' = [reader EXCEPT ![s] = "asking"]
        /\ loop' = s
        /\ UNCHANGED chunks
  /\ UNCHANGED <<browser, handler, ssh, shell, writer>>

\* ... and then the exit status is asked for.
AskExit(s) ==
  /\ reader[s] = "asking"
  /\ reader' = [reader EXCEPT ![s] = IF shell[s] = "exited" THEN "done" ELSE "polling"]
  /\ loop' = None
  /\ UNCHANGED <<browser, handler, ssh, shell, chunks, writer>>

\* Sending waits until the browser takes the piece, or fails.
Send(s) ==
  /\ At(s, "relaying") /\ reader[s] = "sending"
  /\ reader' = [reader EXCEPT ![s] = IF browser[s] = "here" THEN "polling" ELSE "done"]
  /\ UNCHANGED <<browser, handler, loop, ssh, shell, chunks, writer>>

\* The browser is gone, or what it sent is not taken at once: the channel does
\* not wait (settimeout(0)).
WriterEnds(s) ==
  /\ At(s, "relaying") /\ writer[s] = "reading"
  /\ writer' = [writer EXCEPT ![s] = "done"]
  /\ UNCHANGED <<browser, handler, loop, ssh, shell, chunks, reader>>
Hangup(s) == browser[s] = "gone" /\ WriterEnds(s)
InputRefused(s) == browser[s] = "here" /\ WriterEnds(s)

-----------------------------------------------------------------------------
(* Closing.                                                                *)

BothEnded(s) == reader[s] = "done" /\ writer[s] = "done"
FirstEnded(s) == reader[s] = "done" \/ writer[s] = "done"

EndRelay(s) ==
  /\ At(s, "relaying") /\ FirstEnded(s)
  /\ Goes(s, "ending")
  /\ UNCHANGED <<browser, loop, ssh, shell, chunks, reader, writer>>

\* The finally closes the channel and the client at once, then the socket,
\* which takes a handshake.
CloseSsh(s) ==
  /\ At(s, "ending")
  /\ ssh' = [ssh EXCEPT ![s] = "closed"]
  /\ shell' = [shell EXCEPT ![s] = IF @ = "running" THEN "exited" ELSE @]
  /\ Goes(s, "closing")
  /\ UNCHANGED <<browser, loop, chunks, reader, writer>>

CloseSocket(s) ==
  /\ At(s, "closing")
  /\ browser' = [browser EXCEPT ![s] = "gone"]
  /\ Goes(s, "ended")
  /\ UNCHANGED <<loop, ssh, shell, chunks, reader, writer>>

-----------------------------------------------------------------------------
\* A coroutine's next step; the last two lines belong to ssh_to_ws and ws_to_ssh.
OpenStep(s) == BeginVerify(s) \/ BeginConnect(s) \/ AskShell(s)
CloseStep(s) == EndRelay(s) \/ CloseSsh(s) \/ CloseSocket(s)
ReaderStep(s) == Poll(s) \/ Send(s)
PoolStep(s) == EndVerify(s) \/ EndConnect(s)

Next ==
  \E s \in Sessions :
    \/ OpenPage(s) \/ LeavePage(s) \/ Output(s) \/ ShellExits(s) \/ InputRefused(s)
    \/ OpenStep(s) \/ CloseStep(s) \/ ReaderStep(s) \/ Hangup(s)
    \/ PoolStep(s) \/ AskExit(s) \/ GetShell(s)

Spec == Init /\ [][Next]_vars

\* asyncio runs what is ready in the order it became ready, so a step that the
\* loop can take again and again is taken; a connection is made or given up by
\* its time limits, the exit status is asked of the library only; a browser
\* takes what it is sent or is found gone.  Nothing makes GetShell happen:
\* invoke_shell waits for the server without a time limit.
Fairness ==
  \A s \in Sessions :
    /\ SF_vars(OpenStep(s)) /\ SF_vars(CloseStep(s))
    /\ SF_vars(ReaderStep(s)) /\ SF_vars(Hangup(s))
    /\ WF_vars(PoolStep(s)) /\ WF_vars(AskExit(s))
FairSpec == Spec /\ Fairness

-----------------------------------------------------------------------------
(* Properties.                                                             *)

\* Every variable keeps its type, and the executor is never over-used.
TypeOK ==
  /\ browser \in [Sessions -> {"unborn", "here", "gone"}]
  /\ handler \in [Sessions -> {"none", "arrived", "verifying", "verified", "connecting",
                   "connected", "asking", "relaying", "ending", "closing", "ended"}]
  /\ loop \in Sessions \union {None}
  /\ ssh \in [Sessions -> {"none", "open", "closed"}]
  /\ shell \in [Sessions -> {"none", "running", "exited"}]
  /\ chunks \in [Sessions -> 0..MaxChunks]
  /\ reader \in [Sessions -> {"polling", "asking", "sending", "done"}]
  /\ writer \in [Sessions -> {"reading", "done"}]
  /\ Cardinality(InPool) <= PoolSize

\* "Always close the ssh client + websocket - even if connect()/invoke_shell() fails
\* - so we never leak a Transport thread/socket": a session that has ended, however
\* it did, keeps neither its client, nor a shell, nor the page, nor the loop.
NeverLeaks ==
  \A s \in Sessions : handler[s] = "ended" =>
    ssh[s] # "open" /\ shell[s] # "running" /\ browser[s] = "gone" /\ loop # s

\* Whenever a tab is closed - while the token is checked, while the connection
\* is made, while another session keeps the loop - or the shell ends, the
\* session ends and its SSH client is closed.
Closes(s) ==
  (browser[s] = "gone" \/ shell[s] = "exited") ~> (handler[s] = "ended" /\ ssh[s] # "open")

\* "Always close the ssh client + websocket": every session does.  Not what the
\* code does: a server that never answers invoke_shell keeps the loop from all.
EverySessionCloses == \A s \in Sessions : Closes(s)

\* Every session does as long as each call of invoke_shell returns in the end:
\* nothing else - a full pool, a refusal, a tab that left too early, a shell and
\* a page that end at the same time - keeps a client open for ever.
SessionsClose == (\A s \in Sessions : []<>(handler[s] # "asking")) => EverySessionCloses

\* What the bridge's header says: it "pipes bytes both ways".  A session that
\* ends because the shell has ended has shown all that the shell wrote.
OutputIsShown ==
  [][\A s \in Sessions :
       EndRelay(s) /\ shell[s] = "exited" /\ browser[s] = "here" /\ writer[s] = "reading"
         => chunks[s] = 0]_vars

=============================================================================
