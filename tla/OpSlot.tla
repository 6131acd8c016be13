------------------------------- MODULE OpSlot -------------------------------
(***************************************************************************)
(* What the operation runner promises, without threads, transactions,      *)
(* locks, snapshots, retries and processes: an instance is a slot that at  *)
(* most one operation holds.  The holder announces itself once, and leaves *)
(* with its own outcome on the stage; it leaves without one only when the  *)
(* stage has been deleted, when the log says so, or when the service       *)
(* restarts, and then the stage says 'interrupted' or the log names it.    *)
(***************************************************************************)
CONSTANTS
  Stages, Ops,
  None   \* no operation

VARIABLES
  row,      \* what the stage shows: exists, op_state, label, shown
  holder,   \* the operation at work on the stage, as a set
  used,     \* operations that have held a slot
  reported  \* stages the log names as left 'running'

slots == <<row, holder, used, reported>>

Idle(exists) == [exists |-> exists, op_state |-> "idle", label |-> None, shown |-> None]

\* What a stage shows of operation c: at work, ended in state r, interrupted.
AtWork(c)      == [exists |-> TRUE, op_state |-> "running", label |-> c, shown |-> None]
Ended(c, r)    == [exists |-> TRUE, op_state |-> r, label |-> c, shown |-> c]
Interrupted(c) == [exists |-> TRUE, op_state |-> "failed", label |-> c, shown |-> None]

ShownRunning(s) == row[s].exists /\ row[s].op_state = "running"

Init ==
  /\ row = [s \in Stages |-> Idle(TRUE)]
  /\ holder = [s \in Stages |-> {}]
  /\ used = {}
  /\ reported = {}

\* A free stage that does not show 'running' is taken by a new operation.
Acquire(s, c) ==
  /\ row[s].exists /\ ~ShownRunning(s)
  /\ holder[s] = {} /\ c \notin used
  /\ holder' = [holder EXCEPT ![s] = {c}]
  /\ used' = used \union {c}
  /\ UNCHANGED <<row, reported>>

\* The holder shows 'running', once and before it ends.
Announce(s, c) ==
  /\ holder[s] = {c}
  /\ row[s].exists /\ ~ShownRunning(s)
  /\ row' = [row EXCEPT ![s] = AtWork(c)]
  /\ UNCHANGED <<holder, used, reported>>

\* The outcome shown is the holder's own and replaces only its own 'running'.
Conclude(s, c, r) ==
  /\ holder[s] = {c} /\ row[s] = AtWork(c)
  /\ row' = [row EXCEPT ![s] = Ended(c, r)]
  /\ holder' = [holder EXCEPT ![s] = {}]
  /\ UNCHANGED <<used, reported>>

\* The holder leaves without an outcome: the stage is gone, or the log says so.
Leave(s) ==
  /\ holder' = [holder EXCEPT ![s] = {}]
  /\ \/ ~row[s].exists /\ UNCHANGED reported
     \/ reported' = reported \union {s}
  /\ UNCHANGED <<row, used>>

\* Deleting the stage does not stop the operation on it.
Remove(s) ==
  /\ row[s].exists
  /\ row' = [row EXCEPT ![s] = Idle(FALSE)]
  /\ reported' = reported \ {s}
  /\ UNCHANGED <<holder, used>>

\* After a restart nobody holds anything, and every 'running' is explained.
Restart ==
  /\ holder' = [s \in Stages |-> {}]
  /\ \/ /\ row' = [s \in Stages |->
                     IF ShownRunning(s) THEN Interrupted(row[s].label) ELSE row[s]]
        /\ reported' = {}
     \/ /\ reported' = reported \union {s \in Stages : ShownRunning(s)}
        /\ UNCHANGED row
  /\ UNCHANGED used

Next ==
  \/ \E s \in Stages, c \in Ops :
       \/ Acquire(s, c) \/ Announce(s, c)
       \/ \E r \in {"done", "failed"} : Conclude(s, c, r)
  \/ \E s \in Stages : Leave(s) \/ Remove(s)
  \/ Restart

Spec == Init /\ [][Next]_slots

=============================================================================
