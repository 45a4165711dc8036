---------------------------- MODULE ServeProofs ----------------------------
(* Proofs about Serve, for every value of its constants. *)
EXTENDS Serve, TLAPS

\* The bound on a silent connection grows by a whole late sleep with every sample.
LEMMA OneSampleMore ==
  ASSUME NEW n \in Nat, NEW i \in Nat, NEW l \in Nat, i > 0
  PROVE  /\ n * (1 + l) \in Nat /\ (n + i) * (1 + l) \in Nat
         /\ n * (1 + l) + i + l <= (n + i) * (1 + l)
<1>1. (n + i) * (1 + l) = n * (1 + l) + i + i * l
  BY SMT
<1>2. i * l >= l
  <2>1. PICK j \in Nat : i = j + 1
    BY SMT
  <2>2. i * l = j * l + l /\ j * l >= 0
    BY <2>1, SMT
  <2>3. QED
    BY <2>2
<1>3. QED
  BY <1>1, <1>2, SMT

\* A smaller count has a smaller bound.
LEMMA BoundGrows ==
  ASSUME NEW n \in Nat, NEW m \in Nat, NEW l \in Nat, n <= m
  PROVE  n * (1 + l) <= m * (1 + l) /\ n * (1 + l) \in Nat /\ m * (1 + l) \in Nat
<1>1. PICK k \in Nat : m = n + k
  BY SMT
<1>2. m * (1 + l) = n * (1 + l) + k * (1 + l) /\ k * (1 + l) \in Nat /\ n * (1 + l) \in Nat
  BY <1>1, SMT
<1>3. QED
  BY <1>2, SMT

\* The initial state satisfies the invariant: nothing is connected.
LEMMA InitServeInv == Init => ServeInv
  BY DEF Init, ServeInv, TypeOK, WatchInv, CutOnlyIfSilent, InTime

\* Joined tasks (join_next, shutdown) leave free places as good as new.
LEMMA ForgetSafe ==
  ASSUME ServeInv, NEW C \in SUBSET Conns, Forget(C), server' \in {"serving", "draining", "stopped"},
         waited' \in Nat
  PROVE  ServeInv'
<1> USE LimitsAssumption DEF ServeInv
<1>1. TypeOK'
  BY DEF TypeOK, Forget
<1>2. WatchInv' /\ CutOnlyIfSilent'
  BY DEF TypeOK, WatchInv, CutOnlyIfSilent, Forget
<1>3. ASSUME CheckInterval > 0 PROVE InTime'
  BY <1>3 DEF TypeOK, InTime, Forget
<1>4. QED
  BY <1>1, <1>2, <1>3

\* A connection is accepted: its silence and its window begin together.
LEMMA AcceptSafe ==
  ASSUME ServeInv, NEW c \in Conns, Accept(c)
  PROVE  ServeInv'
<1> USE LimitsAssumption DEF ServeInv, Accept, watch
<1>1. TypeOK' /\ CutOnlyIfSilent'
  BY DEF TypeOK, CutOnlyIfSilent
<1>2. WatchInv'
  BY DEF TypeOK, WatchInv
<1>3. ASSUME CheckInterval > 0 PROVE InTime'
  <2>1. 0 * (1 + Lateness) = 0
    BY SMT
  <2>2. QED
    BY <1>3, <2>1 DEF TypeOK, InTime
<1>4. QED
  BY <1>1, <1>2, <1>3

\* Bytes move (MonitoredStream): the silence starts again, and the next sample
\* will see it.
LEMMA MoveBytesSafe ==
  ASSUME ServeInv, NEW c \in Conns, MoveBytes(c)
  PROVE  ServeInv'
<1> USE LimitsAssumption DEF ServeInv, MoveBytes
<1>1. TypeOK'
  BY DEF TypeOK
<1>2. WatchInv'
  BY DEF TypeOK, WatchInv
<1>3. CutOnlyIfSilent'
  BY DEF TypeOK, CutOnlyIfSilent
<1>4. ASSUME CheckInterval > 0 PROVE InTime'
  BY <1>4 DEF TypeOK, InTime
<1>5. QED
  BY <1>1, <1>2, <1>3, <1>4

\* The connection ends by itself: the watchdog no longer cares.
LEMMA ClosedSafe ==
  ASSUME ServeInv, NEW c \in Conns, Closed(c)
  PROVE  ServeInv'
<1> USE LimitsAssumption DEF ServeInv, Closed, Ends, watch
<1>1. TypeOK' /\ CutOnlyIfSilent'
  BY DEF TypeOK, CutOnlyIfSilent
<1>2. WatchInv'
  BY DEF TypeOK, WatchInv
<1>3. ASSUME CheckInterval > 0 PROVE InTime'
  BY <1>3 DEF TypeOK, InTime
<1>4. QED
  BY <1>1, <1>2, <1>3

\* A sample that sees progress opens a window of which nothing is counted; the
\* silence since the progress is within the sleep that ended.
LEMMA SampleProgressSafe ==
  ASSUME ServeInv, NEW c \in Conns, SampleProgress(c)
  PROVE  ServeInv'
<1> USE LimitsAssumption DEF ServeInv, SampleProgress, Due
<1>1. TypeOK' /\ CutOnlyIfSilent'
  BY DEF TypeOK, CutOnlyIfSilent
<1>2. WatchInv'
  BY DEF TypeOK, WatchInv
<1>3. ASSUME CheckInterval > 0 PROVE InTime'
  <2>1. 0 * (1 + Lateness) = 0
    BY SMT
  <2>2. silent[c] <= CheckInterval + Lateness
    BY DEF TypeOK, WatchInv
  <2>3. QED
    BY <1>3, <2>1, <2>2 DEF TypeOK, InTime
<1>4. QED
  BY <1>1, <1>2, <1>3

\* A sample that sees none adds the interval it slept; at idle_timeout the silence
\* is at least as long (watch_for_stall).
LEMMA SampleStallSafe ==
  ASSUME ServeInv, NEW c \in Conns, SampleStall(c)
  PROVE  ServeInv'
<1> USE LimitsAssumption DEF ServeInv
<1>1. /\ task[c] = "running" /\ slept[c] >= CheckInterval /\ ~moved[c]
      /\ slept' = [slept EXCEPT ![c] = 0]
      /\ stalled' = [stalled EXCEPT ![c] = stalled[c] + CheckInterval]
      /\ stalled'[c] = stalled[c] + CheckInterval
      /\ UNCHANGED <<server, waited, moved, silent>>
  BY DEF SampleStall, Due, TypeOK
<1>2. silent[c] >= stalled[c] + CheckInterval
  BY <1>1 DEF TypeOK, WatchInv
<1>3. CASE stalled[c] + CheckInterval >= IdleTimeout
  <2>1. Ends(c, "stalled")
    BY <1>1, <1>3 DEF SampleStall
  <2>2. TypeOK'
    BY <1>1, <2>1 DEF TypeOK, Ends
  <2>3. CutOnlyIfSilent'
    BY <1>1, <1>2, <1>3, <2>1 DEF TypeOK, CutOnlyIfSilent, Ends
  <2>4. WatchInv'
    BY <1>1, <2>1 DEF TypeOK, WatchInv, Ends
  <2>5. ASSUME CheckInterval > 0 PROVE InTime'
    BY <1>1, <2>1, <2>5 DEF TypeOK, InTime, Ends
  <2>6. QED
    BY <2>2, <2>3, <2>4, <2>5
<1>4. CASE ~(stalled[c] + CheckInterval >= IdleTimeout)
  <2>1. UNCHANGED <<task, why>>
    BY <1>1, <1>4 DEF SampleStall
  <2>2. TypeOK' /\ CutOnlyIfSilent'
    BY <1>1, <2>1 DEF TypeOK, CutOnlyIfSilent
  <2>3. WatchInv'
    BY <1>1, <1>2, <1>4, <2>1 DEF TypeOK, WatchInv
  <2>4. ASSUME CheckInterval > 0 PROVE InTime'
    <3>1. /\ stalled[c] * (1 + Lateness) + CheckInterval + Lateness
              <= (stalled[c] + CheckInterval) * (1 + Lateness)
          /\ stalled[c] * (1 + Lateness) \in Nat
          /\ (stalled[c] + CheckInterval) * (1 + Lateness) \in Nat
      BY <2>4, OneSampleMore DEF TypeOK
    <3>2. silent[c] <= stalled[c] * (1 + Lateness) + slept[c] + CheckInterval + Lateness
      BY <1>1, <2>4 DEF InTime
    <3>3. slept[c] <= CheckInterval + Lateness
      BY <1>1 DEF WatchInv
    <3>4. silent[c] <= (stalled[c] + CheckInterval) * (1 + Lateness) + CheckInterval + Lateness
      BY <3>1, <3>2, <3>3 DEF TypeOK
    <3>5. QED
      BY <1>1, <2>1, <2>4, <3>1, <3>4 DEF TypeOK, InTime
  <2>5. QED
    BY <2>2, <2>3, <2>4
<1>5. QED
  BY <1>3, <1>4

\* Time passes for the silence and the sleep alike.
LEMMA TickSafe ==
  ASSUME ServeInv, Tick
  PROVE  ServeInv'
<1> USE LimitsAssumption DEF ServeInv
<1>1. \A c \in Conns :
        /\ task'[c] = task[c] /\ moved'[c] = moved[c] /\ stalled'[c] = stalled[c]
        /\ why'[c] = why[c]
        /\ task[c] = "running" => /\ slept'[c] = slept[c] + 1 /\ silent'[c] = silent[c] + 1
                                  /\ slept[c] < CheckInterval + Lateness
        /\ task[c] # "running" => slept'[c] = slept[c] /\ silent'[c] = silent[c]
  BY DEF Tick
<1>2. TypeOK'
  BY <1>1 DEF Tick, TypeOK
<1>3. WatchInv' /\ CutOnlyIfSilent'
  BY <1>1 DEF TypeOK, WatchInv, CutOnlyIfSilent
<1>4. ASSUME CheckInterval > 0 PROVE InTime'
  <2>1. SUFFICES ASSUME NEW c \in Conns, task'[c] = "running", ~moved'[c]
                 PROVE  silent'[c] <= stalled'[c] * (1 + Lateness) + slept'[c]
                                        + CheckInterval + Lateness
    BY DEF InTime
  <2>2. silent[c] <= stalled[c] * (1 + Lateness) + slept[c] + CheckInterval + Lateness
    BY <1>1, <1>4, <2>1 DEF InTime
  <2>3. stalled[c] * (1 + Lateness) \in Nat
    BY BoundGrows DEF TypeOK
  <2>4. QED
    BY <1>1, <2>1, <2>2, <2>3 DEF TypeOK
<1>5. QED
  BY <1>2, <1>3, <1>4

\* The shutdown's own steps change no connection but by joining it.
LEMMA ShutdownSafe ==
  ASSUME ServeInv, Shutdown \/ Drained \/ GraceOver \/ UNCHANGED vars
  PROVE  ServeInv'
<1>1. CASE Shutdown \/ Drained \/ UNCHANGED vars
  BY <1>1 DEF Shutdown, Drained, vars, conn, watch, ServeInv, TypeOK, WatchInv, CutOnlyIfSilent, InTime
<1>2. CASE GraceOver
  BY <1>2, ForgetSafe DEF GraceOver, ServeInv, TypeOK
<1>3. QED
  BY <1>1, <1>2

\* Every step keeps the invariant.
LEMMA StepServeInv ==
  ASSUME ServeInv, [Next]_vars
  PROVE  ServeInv'
<1>1. ASSUME NEW c \in Conns, Reap(c) PROVE ServeInv'
  BY <1>1, ForgetSafe DEF Reap, ServeInv, TypeOK
<1>2. QED
  BY <1>1, AcceptSafe, MoveBytesSafe, ClosedSafe, SampleProgressSafe, SampleStallSafe, TickSafe,
     ShutdownSafe
  DEF Next, Watchdog

\* The inductive invariant: what the watchdog counts is silence.
THEOREM InvariantHolds == Spec => []ServeInv
  BY InitServeInv, StepServeInv, PTL DEF Spec

\* A connection that moved a byte within idle_timeout is never dropped
\* (watch_for_stall), for every interval and however late the timers fire.
THEOREM BusyConnectionsLive == Spec => []CutOnlyIfSilent
<1>1. ServeInv => CutOnlyIfSilent
  BY DEF ServeInv
<1>2. QED
  BY <1>1, InvariantHolds, PTL

\* A connection that moves no byte is dropped in time, for every interval but 0.
THEOREM SilentConnectionsEnd ==
  ASSUME CheckInterval > 0
  PROVE  Spec => []SilenceBounded
<1>1. ASSUME ServeInv PROVE SilenceBounded
  <2>1. SUFFICES ASSUME NEW c \in Conns, task[c] = "running"
                 PROVE  silent[c] <= IdleTimeout * (1 + Lateness)
                                       + 2 * (CheckInterval + Lateness)
    BY DEF SilenceBounded
  <2>2. /\ slept[c] \in Nat /\ stalled[c] \in Nat /\ silent[c] \in Nat
        /\ slept[c] <= CheckInterval + Lateness
        /\ stalled[c] <= IdleTimeout
    BY <1>1, <2>1, LimitsAssumption DEF ServeInv, TypeOK, WatchInv
  <2>3. /\ stalled[c] * (1 + Lateness) <= IdleTimeout * (1 + Lateness)
        /\ stalled[c] * (1 + Lateness) \in Nat /\ IdleTimeout * (1 + Lateness) \in Nat
    BY <2>2, BoundGrows, LimitsAssumption
  <2>4. CASE moved[c]
    <3>1. silent[c] <= slept[c]
      BY <1>1, <2>1, <2>4 DEF ServeInv, WatchInv
    <3>2. QED
      BY <2>2, <2>3, <3>1, LimitsAssumption
  <2>5. CASE ~moved[c]
    <3>1. silent[c] <= stalled[c] * (1 + Lateness) + slept[c] + CheckInterval + Lateness
      BY <1>1, <2>1, <2>5 DEF ServeInv, InTime
    <3>2. QED
      BY <2>2, <2>3, <3>1, LimitsAssumption
  <2>6. QED
    BY <2>4, <2>5
<1>2. QED
  BY <1>1, InvariantHolds, PTL
=============================================================================
