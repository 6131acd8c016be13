------------------------------ MODULE LogFeed ------------------------------
(***************************************************************************)
(* The live log of an instance (controllers/log_stream.py): a generator    *)
(* that runs `ssh ... tail -f` and pushes one event per line.  It waits    *)
(* with select() on the pipe of the process and reads with readline(),     *)
(* which takes what the pipe holds, returns one line and keeps the rest.   *)
(***************************************************************************)
EXTENDS Naturals

CONSTANTS
  Feeds,    \* pages with a live log
  MaxLines  \* bound: complete lines in the pipe, and in Python's buffer

VARIABLES
  page,  \* there or gone
  feed,  \* where the generator is
  proc,  \* the ssh process
  pipe,  \* complete lines in the pipe
  text,  \* complete lines in Python's buffer
  part,  \* where the beginning of an unfinished line is, if there is one
  late   \* STREAM_MAX_SECONDS are over

vars == <<page, feed, proc, pipe, text, part, late>>

Init ==
  /\ page = [f \in Feeds |-> "here"]
  /\ feed = [f \in Feeds |-> "requested"]
  /\ proc = [f \in Feeds |-> "none"]
  /\ pipe = [f \in Feeds |-> 0] /\ text = [f \in Feeds |-> 0]
  /\ part = [f \in Feeds |-> "none"]
  /\ late = [f \in Feeds |-> FALSE]

Goes(f, place) == feed' = [feed EXCEPT ![f] = place]

\* An event for a page that is gone raises GeneratorExit at the yield.
Yields(f, next) == Goes(f, IF page[f] = "here" THEN next ELSE "closing")

-----------------------------------------------------------------------------
(* The world: the page, the writer of the log, ssh, the clock.             *)

LeavePage(f) ==
  /\ page[f] = "here"
  /\ page' = [page EXCEPT ![f] = "gone"]
  /\ UNCHANGED <<feed, proc, pipe, text, part, late>>

\* The end of a line arrives, whether or not its beginning was there before.
LineArrives(f) ==
  /\ proc[f] = "running" /\ pipe[f] < MaxLines
  /\ pipe' = [pipe EXCEPT ![f] = @ + 1]
  /\ part' = [part EXCEPT ![f] = "none"]
  /\ UNCHANGED <<page, feed, proc, text, late>>

PartArrives(f) ==
  /\ proc[f] = "running" /\ part[f] = "none"
  /\ part' = [part EXCEPT ![f] = "pipe"]
  /\ UNCHANGED <<page, feed, proc, pipe, text, late>>

ProcessExits(f) ==
  /\ proc[f] = "running"
  /\ proc' = [proc EXCEPT ![f] = "exited"]
  /\ UNCHANGED <<page, feed, pipe, text, part, late>>

TimePasses(f) ==
  /\ ~late[f]
  /\ late' = [late EXCEPT ![f] = TRUE]
  /\ UNCHANGED <<page, feed, proc, pipe, text, part>>

-----------------------------------------------------------------------------
(* The generator.                                                          *)

\* No usable path or no host: one line instead of a feed.
Refuse(f) ==
  /\ feed[f] = "requested"
  /\ Goes(f, "ended")
  /\ UNCHANGED <<page, proc, pipe, text, part, late>>

\* "Connecting" is yielded before the process is started.
Connect(f) ==
  /\ feed[f] = "requested"
  /\ Yields(f, "waiting")
  /\ proc' = [proc EXCEPT ![f] = IF page[f] = "here" THEN "running" ELSE @]
  /\ UNCHANGED <<page, pipe, text, part, late>>

\* A loop that looks at the clock when there is nothing to read.  (An operator
\* that no action uses is a wrong variant of the one after it.)
OverIdle(f) == late[f] /\ pipe[f] = 0 /\ part[f] # "pipe"
Over(f) == late[f]

\* The end of the pipe can be read too.
Readable(f) == pipe[f] > 0 \/ part[f] = "pipe" \/ proc[f] = "exited"

\* One turn of the loop: the clock, then select with its second of patience.
Turn(f) ==
  /\ feed[f] = "waiting"
  /\ Goes(f, IF Over(f) THEN "closing" ELSE IF Readable(f) THEN "reading" ELSE "idle")
  /\ UNCHANGED <<page, proc, pipe, text, part, late>>

\* readline: a line from the buffer, else what the pipe holds; at the end of the
\* pipe the unfinished line, then nothing.  Otherwise it waits.
ReadLine(f) ==
  /\ feed[f] = "reading"
  /\ \/ /\ text[f] > 0
        /\ text' = [text EXCEPT ![f] = @ - 1]
        /\ Yields(f, "waiting")
        /\ UNCHANGED <<pipe, part>>
     \/ /\ text[f] = 0
        /\ \E n \in 1..pipe[f] :
             /\ pipe' = [pipe EXCEPT ![f] = @ - n]
             /\ text' = [text EXCEPT ![f] = n - 1]
             /\ part' = [part EXCEPT ![f] = IF n = pipe[f] /\ @ = "pipe" THEN "text" ELSE @]
        /\ Yields(f, "waiting")
     \/ /\ text[f] = 0 /\ pipe[f] = 0 /\ proc[f] = "exited"
        /\ IF part[f] = "none" THEN Goes(f, "closing") ELSE Yields(f, "waiting")
        /\ part' = [part EXCEPT ![f] = "none"]
        /\ UNCHANGED <<pipe, text>>
  /\ UNCHANGED <<page, proc, late>>

\* Nothing came for a second: a keepalive, and a look at the process.
KeepAlive(f) ==
  /\ feed[f] = "idle"
  /\ Yields(f, IF proc[f] = "exited" THEN "closing" ELSE "waiting")
  /\ UNCHANGED <<page, proc, pipe, text, part, late>>

\* Terminated, and killed when it is still there five seconds later.
Stop(f) ==
  /\ feed[f] = "closing"
  /\ proc' = [proc EXCEPT ![f] = IF @ = "none" THEN @ ELSE "stopped"]
  /\ Goes(f, "ended")
  /\ UNCHANGED <<page, pipe, text, part, late>>

-----------------------------------------------------------------------------
Step(f) == Connect(f) \/ Turn(f) \/ ReadLine(f) \/ KeepAlive(f) \/ Stop(f)

Next ==
  \E f \in Feeds :
    \/ LeavePage(f) \/ LineArrives(f) \/ PartArrives(f) \/ ProcessExits(f) \/ TimePasses(f)
    \/ Refuse(f) \/ Step(f)

Spec == Init /\ [][Next]_vars

\* The generator runs and time passes.
FairSpec == Spec /\ \A f \in Feeds : WF_vars(Step(f)) /\ WF_vars(TimePasses(f))

\* A line that was begun is finished, or the process ends.
LinesEnd == \A f \in Feeds : WF_vars(part[f] # "none" /\ (LineArrives(f) \/ ProcessExits(f)))
FairWriterSpec == FairSpec /\ LinesEnd

-----------------------------------------------------------------------------
(* Properties.                                                             *)

\* Every variable keeps its type.
TypeOK ==
  /\ page \in [Feeds -> {"here", "gone"}]
  /\ feed \in [Feeds -> {"requested", "waiting", "idle", "reading", "closing", "ended"}]
  /\ proc \in [Feeds -> {"none", "running", "exited", "stopped"}]
  /\ pipe \in [Feeds -> 0..MaxLines] /\ text \in [Feeds -> 0..MaxLines]
  /\ part \in [Feeds -> {"none", "pipe", "text"}] /\ late \in [Feeds -> BOOLEAN]

\* A feed ends, however busy or silent the log is and whether the page is there
\* or not, and no ssh process outlives it.
FeedsEnd == \A f \in Feeds : <>[](feed[f] = "ended" /\ proc[f] \notin {"running", "exited"})

\* What the class says: "pushing each line as an SSE event".  When a feed takes
\* the log for idle, no line that it has read is left unsent.
EachLineIsPushed == [][\A f \in Feeds : KeepAlive(f) => text[f] = 0]_vars

=============================================================================
