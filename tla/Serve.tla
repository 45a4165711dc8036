------------------------------- MODULE Serve -------------------------------
(***************************************************************************)
(* The server's connections (phone-sync-server/src/serve.rs): the accept   *)
(* loop with its JoinSet of connection tasks, the watchdog that samples a  *)
(* connection's byte counter, and the shutdown with its deadline.          *)
(*                                                                         *)
(* Time is counted in ticks.  A timer fires when it is due or up to        *)
(* Lateness ticks later, as the runtime gets to it.  The byte counter is   *)
(* represented by whether it has changed since the watchdog's last sample. *)
(*                                                                         *)
(* A definition named Mut... is no part of the model: it is the plausible  *)
(* bug that the mutation runs put in the place of the definition below it. *)
(***************************************************************************)
EXTENDS Naturals

CONSTANTS
  Conns,          \* places in the JoinSet, used again and again
  IdleTimeout,    \* idle_timeout
  CheckInterval,  \* idle_check_interval
  Grace,          \* shutdown_grace
  Lateness        \* how late a timer may fire

ASSUME LimitsAssumption ==
  IdleTimeout \in Nat /\ CheckInterval \in Nat /\ Grace \in Nat /\ Lateness \in Nat

VARIABLES
  server,   \* "serving", "draining" after the signal, "stopped"
  waited,   \* ticks since the shutdown signal
  task,     \* per place: "none", "running", "done" and not yet joined
  moved,    \* bytes have moved since the last sample
  slept,    \* ticks since the last sample
  stalled,  \* the watchdog's `stalled'
  silent,   \* history: ticks since bytes last moved, or since accept
  why       \* history: how the task ended, "closed" or "stalled"

watch == <<moved, slept, stalled>>
conn == <<task, watch, silent, why>>
vars == <<server, waited, conn>>

Init ==
  /\ server = "serving" /\ waited = 0
  /\ task = [c \in Conns |-> "none"]
  /\ moved = [c \in Conns |-> FALSE]
  /\ slept = [c \in Conns |-> 0]
  /\ stalled = [c \in Conns |-> 0]
  /\ silent = [c \in Conns |-> 0]
  /\ why = [c \in Conns |-> "none"]

\* A connection is accepted and its task spawned.  A failed accept changes
\* nothing.
Accept(c) ==
  /\ server = "serving" /\ task[c] = "none"
  /\ task' = [task EXCEPT ![c] = "running"]
  /\ UNCHANGED <<server, waited, watch, silent, why>>

\* poll_read or poll_write moves bytes through the MonitoredStream.
MoveBytes(c) ==
  /\ task[c] = "running"
  /\ moved' = [moved EXCEPT ![c] = TRUE]
  /\ silent' = [silent EXCEPT ![c] = 0]
  /\ UNCHANGED <<server, waited, task, slept, stalled, why>>

Ends(c, how) ==
  /\ task' = [task EXCEPT ![c] = "done"]
  /\ why' = [why EXCEPT ![c] = how]

\* hyper is done with the connection: the peer closed it, or an error.
Closed(c) ==
  /\ task[c] = "running"
  /\ Ends(c, "closed")
  /\ UNCHANGED <<server, waited, watch, silent>>

Due(c) == task[c] = "running" /\ slept[c] >= CheckInterval

MutKeepLast(c) ==
  /\ Due(c) /\ moved[c]
  /\ slept' = [slept EXCEPT ![c] = 0]
  /\ stalled' = [stalled EXCEPT ![c] = 0]
  /\ UNCHANGED <<server, waited, task, moved, silent, why>>

MutKeepStalled(c) ==
  /\ Due(c) /\ moved[c]
  /\ moved' = [moved EXCEPT ![c] = FALSE]
  /\ slept' = [slept EXCEPT ![c] = 0]
  /\ UNCHANGED <<server, waited, task, stalled, silent, why>>

\* The counter has changed: a new window.
SampleProgress(c) ==
  /\ Due(c) /\ moved[c]
  /\ moved' = [moved EXCEPT ![c] = FALSE]
  /\ slept' = [slept EXCEPT ![c] = 0]
  /\ stalled' = [stalled EXCEPT ![c] = 0]
  /\ UNCHANGED <<server, waited, task, silent, why>>

\* It has not: the window grows by one interval, however long the sleep was,
\* and at idle_timeout the connection is dropped.
SampleStall(c) ==
  /\ Due(c) /\ ~moved[c]
  /\ slept' = [slept EXCEPT ![c] = 0]
  /\ stalled' = [stalled EXCEPT ![c] = @ + CheckInterval]
  /\ IF stalled'[c] >= IdleTimeout THEN Ends(c, "stalled") ELSE UNCHANGED <<task, why>>
  /\ UNCHANGED <<server, waited, moved, silent>>

Forget(C) ==
  /\ task' = [c \in Conns |-> IF c \in C THEN "none" ELSE task[c]]
  /\ moved' = [c \in Conns |-> IF c \in C THEN FALSE ELSE moved[c]]
  /\ slept' = [c \in Conns |-> IF c \in C THEN 0 ELSE slept[c]]
  /\ stalled' = [c \in Conns |-> IF c \in C THEN 0 ELSE stalled[c]]
  /\ silent' = [c \in Conns |-> IF c \in C THEN 0 ELSE silent[c]]
  /\ why' = [c \in Conns |-> IF c \in C THEN "none" ELSE why[c]]

MutReapAtShutdown(c) ==
  /\ server = "draining" /\ task[c] = "done"
  /\ Forget({c})
  /\ UNCHANGED <<server, waited>>

\* join_next, in the accept loop and in drain.
Reap(c) ==
  /\ server # "stopped" /\ task[c] = "done"
  /\ Forget({c})
  /\ UNCHANGED <<server, waited>>

\* The shutdown future resolves: nothing is accepted any more, the open
\* connections go on.
Shutdown ==
  /\ server = "serving"
  /\ server' = "draining"
  /\ UNCHANGED <<waited, conn>>

Drained ==
  /\ server = "draining" /\ \A c \in Conns : task[c] = "none"
  /\ server' = "stopped"
  /\ UNCHANGED <<waited, conn>>

MutNoDeadline ==
  /\ server = "draining" /\ waited >= Grace
  /\ \A c \in Conns : task[c] # "running"
  /\ server' = "stopped"
  /\ Forget(Conns)
  /\ UNCHANGED waited

\* The grace is over: every task is aborted and joined, its socket closed.
GraceOver ==
  /\ server = "draining" /\ waited >= Grace
  /\ server' = "stopped"
  /\ Forget(Conns)
  /\ UNCHANGED waited

\* Time passes, as long as no timer would be later than it may be.  Without a
\* connection nothing waits for it.
Tick ==
  /\ server # "stopped"
  /\ \A c \in Conns : task[c] = "running" => slept[c] < CheckInterval + Lateness
  /\ server = "draining" => waited < Grace + Lateness
  /\ \E c \in Conns : task[c] = "running"
  /\ waited' = IF server = "draining" THEN waited + 1 ELSE waited
  /\ slept' = [c \in Conns |-> IF task[c] = "running" THEN slept[c] + 1 ELSE slept[c]]
  /\ silent' = [c \in Conns |-> IF task[c] = "running" THEN silent[c] + 1 ELSE silent[c]]
  /\ UNCHANGED <<server, task, moved, stalled, why>>

Watchdog(c) == SampleProgress(c) \/ SampleStall(c)

Next ==
  \/ \E c \in Conns : Accept(c) \/ MoveBytes(c) \/ Closed(c) \/ Watchdog(c) \/ Reap(c)
  \/ Shutdown \/ Drained \/ GraceOver \/ Tick

Spec == Init /\ [][Next]_vars

\* Timers fire, and the runtime polls what is ready; connections and signals
\* come or do not.
Fairness ==
  /\ WF_vars(Tick) /\ WF_vars(Drained) /\ WF_vars(GraceOver)
  /\ \A c \in Conns : WF_vars(Watchdog(c)) /\ WF_vars(Reap(c))

FairSpec == Spec /\ Fairness

(***************************************************************************)
(* Properties.                                                             *)
(***************************************************************************)
\* Every variable has its type, and a free place is as good as new.
TypeOK ==
  /\ server \in {"serving", "draining", "stopped"}
  /\ waited \in Nat
  /\ task \in [Conns -> {"none", "running", "done"}]
  /\ moved \in [Conns -> BOOLEAN]
  /\ slept \in [Conns -> Nat] /\ stalled \in [Conns -> Nat] /\ silent \in [Conns -> Nat]
  /\ why \in [Conns -> {"none", "closed", "stalled"}]
  /\ \A c \in Conns :
       /\ task[c] = "none" => ~moved[c] /\ slept[c] = 0 /\ stalled[c] = 0 /\ silent[c] = 0
       /\ (task[c] = "done") <=> (why[c] # "none")

\* The watchdog drops only a connection on which no byte has moved for the whole
\* idle_timeout, however late its samples are (ServeLimits: "No bytes in either
\* direction for this long").
CutOnlyIfSilent == \A c \in Conns : why[c] = "stalled" => silent[c] >= IdleTimeout

\* And it drops every such connection in time: none is silent for longer than the
\* window, stretched by late samples, and two more sleeps ("A connection nobody is
\* reading must not live forever").
SilenceBounded ==
  \A c \in Conns : task[c] = "running" =>
    silent[c] <= IdleTimeout * (1 + Lateness) + 2 * (CheckInterval + Lateness)

\* Finished tasks leave the JoinSet, so that it "cannot grow without bound".
FinishedAreReaped == \A c \in Conns : (task[c] = "done") ~> (task[c] = "none")

\* A shutdown ends, whatever the clients do, and leaves no task behind.
ShutdownEnds ==
  (server = "draining") ~> (server = "stopped" /\ \A c \in Conns : task[c] = "none")

(***************************************************************************)
(* The inductive invariant.                                                *)
(***************************************************************************)
\* What the watchdog has counted is silence: without progress since its last
\* sample the silence covers its count and its present sleep; with progress it is
\* within this sleep.
WatchInv ==
  \A c \in Conns : task[c] = "running" =>
    /\ slept[c] <= CheckInterval + Lateness
    /\ IF moved[c] THEN silent[c] <= slept[c] ELSE silent[c] >= stalled[c] + slept[c]
    /\ stalled[c] > 0 => stalled[c] < IdleTimeout

\* And the silence is little more than what it has counted: each interval in the
\* count is a sleep, and the bytes before it moved within another.
InTime ==
  \A c \in Conns : task[c] = "running" /\ ~moved[c] =>
    silent[c] <= stalled[c] * (1 + Lateness) + slept[c] + CheckInterval + Lateness

\* With an interval of 0, which the environment may set, no time is ever counted.
ServeInv == TypeOK /\ WatchInv /\ CutOnlyIfSilent /\ (CheckInterval > 0 => InTime)
=============================================================================
