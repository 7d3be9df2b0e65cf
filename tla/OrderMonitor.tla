---------------------------- MODULE OrderMonitor ----------------------------
(***************************************************************************)
(* Start and Stop of the order controller, and the goroutine that runs     *)
(* updateOrders at every tick.  The status is read and written without the *)
(* controller's mutex; updateOrders holds it; finish is an unbuffered      *)
(* channel, so Stop waits until a monitoring goroutine takes its message   *)
(* in the select between two ticks.                                        *)
(*                                                                         *)
(* Callers are the goroutines that start and stop the controller: bot.Run  *)
(* and the handlers of the /start and /stop commands.                      *)
(***************************************************************************)
EXTENDS Integers, FiniteSets

CONSTANTS
  Callers,
  Nobody,     \* the holder of a free mutex
  Serial,     \* callers take turns: no call begins while another is running
  MaxLoops    \* bound: monitoring goroutines started

ASSUME MonitorAssumption ==
  /\ Serial \in BOOLEAN /\ MaxLoops \in Nat
  /\ Nobody \notin Callers \cup 1 .. MaxLoops

VARIABLES
  status,     \* Controller.status
  pc,         \* the next step of each caller
  mu,         \* the goroutine that holds the controller's mutex
  loop        \* the state of each monitoring goroutine

vars == <<status, pc, mu, loop>>

Loops == 1 .. MaxLoops

Init ==
  /\ status = "initial"
  /\ pc = [c \in Callers |-> "idle"]
  /\ mu = Nobody
  /\ loop = [l \in Loops |-> "unborn"]

Goto(c, step) == pc' = [pc EXCEPT ![c] = step]
Become(l, state) == loop' = [loop EXCEPT ![l] = state]

MayCall(c) == pc[c] = "idle" /\ (Serial => \A d \in Callers : pc[d] = "idle")

Unborn == {l \in Loops : loop[l] = "unborn"}
Live   == {l \in Loops : loop[l] \in {"select", "ticked", "updating"}}

-----------------------------------------------------------------------------
(* Start: reads the status, writes it, spawns the goroutine *)

\* BUG: a running controller can be started.
StartAgain(c) ==
  /\ MayCall(c)
  /\ Cardinality({d \in Callers : pc[d] = "starting"}) < Cardinality(Unborn)
  /\ Goto(c, "starting")
  /\ UNCHANGED <<status, mu, loop>>

\* Bound: a start is begun only while a goroutine is left for each.
Start(c) ==
  /\ MayCall(c)
  /\ Cardinality({d \in Callers : pc[d] = "starting"}) < Cardinality(Unborn)
  /\ status # "running"
  /\ Goto(c, "starting")
  /\ UNCHANGED <<status, mu, loop>>

Starting(c, l) ==
  /\ pc[c] = "starting" /\ l \in Unborn
  /\ status' = "running"
  /\ Become(l, "select")
  /\ Goto(c, "idle")
  /\ UNCHANGED mu

-----------------------------------------------------------------------------
(* Stop: reads the status, writes it, updates the orders, sends on finish *)

Stop(c) ==
  /\ MayCall(c)
  /\ status = "running"
  /\ Goto(c, "stopping")
  /\ UNCHANGED <<status, mu, loop>>

Stopping(c) ==
  /\ pc[c] = "stopping"
  /\ status' = "stopped"
  /\ Goto(c, "updating")
  /\ UNCHANGED <<mu, loop>>

\* updateOrders takes the controller's mutex and gives it back.
LastUpdate(c) ==
  /\ pc[c] = "updating"
  /\ \/ mu = Nobody /\ mu' = c /\ UNCHANGED pc
     \/ mu = c /\ mu' = Nobody /\ Goto(c, "finishing")
  /\ UNCHANGED <<status, loop>>

\* The send on finish meets a goroutine that waits in its select.
Finish(c) ==
  /\ pc[c] = "finishing"
  /\ \E l \in Loops : loop[l] = "select" /\ Become(l, "returned")
  /\ Goto(c, "idle")
  /\ UNCHANGED <<status, mu>>

-----------------------------------------------------------------------------
(* The monitoring goroutine: select, updateOrders, select again *)

Tick(l) ==
  /\ loop[l] = "select"
  /\ Become(l, "ticked")
  /\ UNCHANGED <<status, pc, mu>>

\* BUG: updateOrders returns without unlocking.
UpdateKeepsLock(l) ==
  /\ \/ loop[l] = "ticked" /\ mu = Nobody /\ mu' = l /\ Become(l, "updating")
     \/ loop[l] = "updating" /\ UNCHANGED mu /\ Become(l, "select")
  /\ UNCHANGED <<status, pc>>

Update(l) ==
  /\ \/ loop[l] = "ticked" /\ mu = Nobody /\ mu' = l /\ Become(l, "updating")
     \/ loop[l] = "updating" /\ mu' = Nobody /\ Become(l, "select")
  /\ UNCHANGED <<status, pc>>

-----------------------------------------------------------------------------
CallStep(c) ==
  (\E l \in Loops : Starting(c, l)) \/ Stopping(c) \/ LastUpdate(c) \/ Finish(c)

Next ==
  \/ \E c \in Callers : Start(c) \/ Stop(c) \/ CallStep(c)
  \/ \E l \in Loops : Tick(l) \/ Update(l)

Spec == Init /\ [][Next]_vars

\* Goroutines run; Go's mutex and the random choice of its select leave no
\* goroutine waiting for ever.
Fairness ==
  /\ \A c \in Callers : WF_vars(CallStep(c)) /\ SF_vars(LastUpdate(c)) /\ SF_vars(Finish(c))
  /\ \A l \in Loops : SF_vars(Update(l))

FairSpec == Spec /\ Fairness

-----------------------------------------------------------------------------
(* Properties *)

TypeOK ==
  /\ status \in {"initial", "running", "stopped"}
  /\ pc \in [Callers -> {"idle", "starting", "stopping", "updating", "finishing"}]
  /\ mu \in Callers \cup Loops \cup {Nobody}
  /\ loop \in [Loops -> {"unborn", "select", "ticked", "updating", "returned"}]

Quiet == \A c \in Callers : pc[c] = "idle"

\* Between calls the status tells the truth: one goroutine monitors the orders
\* of a running controller, and none those of a stopped one.
StatusTellsMonitoring ==
  Quiet => Cardinality(Live) = (IF status = "running" THEN 1 ELSE 0)

\* A call of Stop returns.
StopReturns == \A c \in Callers : pc[c] = "stopping" ~> pc[c] = "idle"
=============================================================================
