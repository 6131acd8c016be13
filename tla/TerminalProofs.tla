---------------------------- MODULE TerminalProofs ---------------------------
(***************************************************************************)
(* Safety of the terminal bridge for any number of sessions and threads of *)
(* the pool.  An open client belongs to a session whose coroutine is       *)
(* between its connection and the finally, a running shell to one that     *)
(* relays or is about to close, and the loop is kept by a session that     *)
(* waits in a call to its server, so by none that has ended.               *)
(***************************************************************************)
EXTENDS Terminal, FiniteSetTheorems, TLAPS

\* The finally is still to come for every open client and every shell.
ClosingComes ==
  \A s \in Sessions :
    /\ ssh[s] = "open" => handler[s] \in {"connecting", "connected", "asking", "relaying", "ending"}
    /\ shell[s] = "running" => handler[s] \in {"relaying", "ending"}
    /\ handler[s] = "ended" => browser[s] = "gone"

\* A page that was not opened has no coroutine.
NotBegun == \A s \in Sessions : browser[s] = "unborn" => handler[s] = "none"

\* What keeps the loop is a call of that session to its server.
HeldByCall ==
  loop # None => handler[loop] = "asking" \/ (handler[loop] = "relaying" /\ reader[loop] = "asking")

Places == {"none", "arrived", "verifying", "verified", "connecting", "connected", "asking",
           "relaying", "ending", "closing", "ended"}

Typed ==
  /\ browser \in [Sessions -> {"unborn", "here", "gone"}]
  /\ handler \in [Sessions -> Places]
  /\ loop \in Sessions \union {None}
  /\ ssh \in [Sessions -> {"none", "open", "closed"}]
  /\ shell \in [Sessions -> {"none", "running", "exited"}]
  /\ chunks \in [Sessions -> 0..MaxChunks]
  /\ reader \in [Sessions -> {"polling", "asking", "sending", "done"}]
  /\ writer \in [Sessions -> {"reading", "done"}]

PoolFits == Cardinality(InPool) <= PoolSize

Inv == Typed /\ PoolFits /\ NotBegun /\ ClosingComes /\ HeldByCall

-----------------------------------------------------------------------------
(* The pool.                                                               *)

LEMMA PoolIs == IsFiniteSet(InPool) /\ Cardinality(InPool) \in Nat
<1>1. InPool \in SUBSET Sessions /\ IsFiniteSet(Sessions)
  BY TerminalAssumption DEF InPool
<1>2. IsFiniteSet(InPool)
  BY <1>1, FS_Subset
<1> QED
  BY <1>2, FS_CardinalityType

\* A step that brings nobody into the pool leaves it no fuller.
LEMMA PoolShrinks ==
  ASSUME PoolFits, InPool' \subseteq InPool
  PROVE  PoolFits'
<1>1. IsFiniteSet(InPool) /\ Cardinality(InPool) \in Nat
  BY PoolIs
<1>2. Cardinality(InPool') <= Cardinality(InPool) /\ Cardinality(InPool') \in Nat
  BY <1>1, FS_Subset, FS_CardinalityType
<1> QED
  BY <1>1, <1>2, TerminalAssumption DEF PoolFits

LEMMA PoolGrows ==
  ASSUME Typed, NEW s \in Sessions, NEW place \in Places, Goes(s, place), PoolFree
  PROVE  PoolFits'
<1>1. InPool' \subseteq InPool \union {s}
  BY DEF Typed, Goes, InPool
<1> DEFINE wider == InPool \union {s}
<1>2. IsFiniteSet(InPool) /\ Cardinality(InPool) \in Nat
  BY PoolIs
<1>3. IsFiniteSet(wider) /\ Cardinality(wider) <= Cardinality(InPool) + 1
  BY <1>2, FS_AddElement
<1>4. Cardinality(InPool') <= Cardinality(wider) /\ Cardinality(InPool') \in Nat /\ Cardinality(wider) \in Nat
  <2>1. InPool' \subseteq wider
    BY <1>1
  <2> HIDE DEF wider
  <2> QED
    BY <2>1, <1>3, FS_Subset, FS_CardinalityType
<1> QED
  BY <1>2, <1>3, <1>4, TerminalAssumption DEF PoolFree, PoolFits

-----------------------------------------------------------------------------
(* One lemma per group of actions.                                         *)

LEMMA InitInv == Init => Inv
<1> SUFFICES ASSUME Init PROVE Inv
  OBVIOUS
<1>1. Typed /\ NotBegun /\ ClosingComes /\ HeldByCall
  BY TerminalAssumption DEF Init, Typed, Places, NotBegun, ClosingComes, HeldByCall
<1>2. InPool = {}
  BY DEF Init, InPool
<1>3. PoolFits
  BY <1>2, FS_EmptySet, TerminalAssumption DEF PoolFits
<1> QED
  BY <1>1, <1>3 DEF Inv

LEMMA PageStep ==
  ASSUME Inv, NEW s \in Sessions, OpenPage(s) \/ LeavePage(s)
  PROVE  Inv'
<1>1. Typed'
  BY DEF Inv, Typed, Places, OpenPage, LeavePage, Goes
<1>2. InPool' \subseteq InPool
  BY DEF Inv, Typed, InPool, OpenPage, LeavePage, Goes
<1>3. NotBegun' /\ ClosingComes'
  BY DEF Inv, Typed, NotBegun, ClosingComes, OpenPage, LeavePage, Goes
<1>4. HeldByCall'
  BY DEF Inv, Typed, NotBegun, HeldByCall, OpenPage, LeavePage, Goes
<1> QED
  BY <1>1, <1>2, <1>3, <1>4, PoolShrinks DEF Inv

LEMMA BeginVerifyStep ==
  ASSUME Inv, NEW s \in Sessions, BeginVerify(s)
  PROVE  Inv'
<1>1. Typed'
  BY DEF Inv, Typed, Places, BeginVerify, Goes
<1>2. PoolFits'
  BY PoolGrows DEF Inv, BeginVerify, Places
<1>3. NotBegun' /\ ClosingComes' /\ HeldByCall'
  BY DEF Inv, Typed, NotBegun, ClosingComes, HeldByCall, BeginVerify, Goes, At
<1> QED
  BY <1>1, <1>2, <1>3 DEF Inv

LEMMA EndVerifyStep ==
  ASSUME Inv, NEW s \in Sessions, EndVerify(s)
  PROVE  Inv'
<1>1. Typed'
  BY DEF Inv, Typed, Places, EndVerify, Goes
<1>2. InPool' \subseteq InPool
  BY DEF Inv, Typed, InPool, EndVerify, Goes
<1>3. NotBegun' /\ ClosingComes'
  BY DEF Inv, Typed, NotBegun, ClosingComes, EndVerify, Goes
<1>4. HeldByCall'
  BY DEF Inv, Typed, HeldByCall, EndVerify, Goes
<1> QED
  BY <1>1, <1>2, <1>3, <1>4, PoolShrinks DEF Inv

LEMMA BeginConnectStep ==
  ASSUME Inv, NEW s \in Sessions, BeginConnect(s)
  PROVE  Inv'
<1>1. Typed'
  BY DEF Inv, Typed, Places, BeginConnect, Goes
<1>2. PoolFits'
  BY PoolGrows DEF Inv, BeginConnect, Places
<1>3. NotBegun' /\ ClosingComes' /\ HeldByCall'
  BY DEF Inv, Typed, NotBegun, ClosingComes, HeldByCall, BeginConnect, Goes, At
<1> QED
  BY <1>1, <1>2, <1>3 DEF Inv

LEMMA EndConnectStep ==
  ASSUME Inv, NEW s \in Sessions, EndConnect(s)
  PROVE  Inv'
<1>1. Typed'
  BY DEF Inv, Typed, Places, EndConnect, AfterRefusal, Goes
<1>2. InPool' \subseteq InPool
  BY DEF Inv, Typed, InPool, EndConnect, AfterRefusal, Goes
<1>3. NotBegun' /\ ClosingComes'
  BY DEF Inv, Typed, NotBegun, ClosingComes, EndConnect, AfterRefusal, Goes
<1>4. HeldByCall'
  BY DEF Inv, Typed, HeldByCall, EndConnect, AfterRefusal, Goes
<1> QED
  BY <1>1, <1>2, <1>3, <1>4, PoolShrinks DEF Inv

LEMMA ShellStep ==
  ASSUME Inv, NEW s \in Sessions, AskShell(s) \/ GetShell(s)
  PROVE  Inv'
<1>1. Typed'
  BY DEF Inv, Typed, Places, AskShell, GetShell, AfterRefusal, Goes
<1>2. InPool' \subseteq InPool
  BY DEF Inv, Typed, InPool, AskShell, GetShell, AfterRefusal, Goes, At
<1>3. NotBegun' /\ ClosingComes'
  BY DEF Inv, Typed, NotBegun, ClosingComes, AskShell, GetShell, AfterRefusal, Goes, At
<1>4. HeldByCall'
  BY DEF Inv, Typed, HeldByCall, AskShell, GetShell, Goes
<1> QED
  BY <1>1, <1>2, <1>3, <1>4, PoolShrinks DEF Inv

LEMMA ServerSideStep ==
  ASSUME Inv, NEW s \in Sessions, Output(s) \/ ShellExits(s)
  PROVE  Inv'
<1>1. Typed'
  BY TerminalAssumption DEF Inv, Typed, Output, ShellExits
<1>2. InPool' \subseteq InPool
  BY DEF InPool, Output, ShellExits
<1>3. NotBegun' /\ ClosingComes' /\ HeldByCall'
  BY DEF Inv, Typed, NotBegun, ClosingComes, HeldByCall, Output, ShellExits
<1> QED
  BY <1>1, <1>2, <1>3, PoolShrinks DEF Inv

LEMMA RelayStep ==
  ASSUME Inv, NEW s \in Sessions, ReaderStep(s) \/ AskExit(s) \/ WriterEnds(s)
  PROVE  Inv'
<1>1. Typed'
  BY TerminalAssumption DEF Inv, Typed, ReaderStep, Poll, Send, AskExit, WriterEnds
<1>2. InPool' \subseteq InPool
  BY DEF InPool, ReaderStep, Poll, Send, AskExit, WriterEnds
<1>3. NotBegun' /\ ClosingComes'
  BY DEF Inv, Typed, NotBegun, ClosingComes, ReaderStep, Poll, Send, AskExit, WriterEnds
<1>4. HeldByCall'
  BY DEF Inv, Typed, HeldByCall, ReaderStep, Poll, Send, AskExit, WriterEnds, At
<1> QED
  BY <1>1, <1>2, <1>3, <1>4, PoolShrinks DEF Inv

LEMMA EndStep ==
  ASSUME Inv, NEW s \in Sessions, CloseStep(s)
  PROVE  Inv'
<1>1. Typed'
  BY DEF Inv, Typed, Places, CloseStep, EndRelay, CloseSsh, CloseSocket, Goes
<1>2. InPool' \subseteq InPool
  BY DEF Inv, Typed, InPool, CloseStep, EndRelay, CloseSsh, CloseSocket, Goes
<1>3. NotBegun' /\ ClosingComes'
  BY DEF Inv, Typed, NotBegun, ClosingComes, CloseStep, EndRelay, CloseSsh, CloseSocket, Goes, At
<1>4. HeldByCall'
  BY DEF Inv, Typed, HeldByCall, CloseStep, EndRelay, CloseSsh, CloseSocket, Goes, At
<1> QED
  BY <1>1, <1>2, <1>3, <1>4, PoolShrinks DEF Inv

-----------------------------------------------------------------------------
LEMMA Step == Inv /\ [Next]_vars => Inv'
<1> SUFFICES ASSUME Inv, [Next]_vars PROVE Inv'
  OBVIOUS
<1>1. ASSUME NEW s \in Sessions, OpenPage(s) \/ LeavePage(s) \/ Output(s) \/ ShellExits(s) PROVE Inv'
  BY <1>1, PageStep, ServerSideStep
<1>2. ASSUME NEW s \in Sessions, OpenStep(s) \/ PoolStep(s) \/ AskExit(s) \/ GetShell(s) PROVE Inv'
  BY <1>2, BeginVerifyStep, BeginConnectStep, ShellStep, EndVerifyStep, EndConnectStep, RelayStep
     DEF OpenStep, PoolStep
<1>3. ASSUME NEW s \in Sessions, ReaderStep(s) \/ Hangup(s) \/ InputRefused(s) \/ CloseStep(s) PROVE Inv'
  BY <1>3, RelayStep, EndStep DEF Hangup, InputRefused
<1>4. CASE UNCHANGED vars
  BY <1>4 DEF Inv, vars, Typed, PoolFits, InPool, NotBegun, ClosingComes, HeldByCall
<1> QED
  BY <1>1, <1>2, <1>3, <1>4 DEF Next

LEMMA Inductive == Spec => []Inv
BY InitInv, Step, PTL DEF Spec

\* The variables keep their types, and the executor never runs more calls than it
\* has threads.
THEOREM TypeCorrect == Spec => []TypeOK
<1>1. Inv => TypeOK
  BY DEF Inv, Typed, Places, PoolFits, TypeOK
<1> QED
  BY <1>1, Inductive, PTL

\* However a session ends - refused, without connection, without shell, by its page
\* or by its shell - it leaves no client, shell or socket behind, nor does it keep
\* the loop from the others.
THEOREM EndedIsClosed == Spec => []NeverLeaks
<1>1. Inv => NeverLeaks
  BY TerminalAssumption DEF Inv, ClosingComes, HeldByCall, NeverLeaks
<1> QED
  BY <1>1, Inductive, PTL

=============================================================================
