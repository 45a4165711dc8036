---------------------------- MODULE ServerProofs ----------------------------
(***************************************************************************)
(* The server process, its thumbnails and its answers to ranges, for every *)
(* number of items, workers, clients, starts and bytes.                    *)
(*                                                                         *)
(* Neither MemoTruthful nor BytesStable is inductive.  What they rest on   *)
(* is that a thread that renders an item has found no thumbnail, and that  *)
(* whoever writes one while another thread is at the item makes it race:   *)
(* so the memo, the pictures served and the measure a thread holds are all *)
(* of the one thumbnail (MediaInv).                                        *)
(***************************************************************************)
EXTENDS Server, FiniteSetTheorems, TLAPS

USE DEF Rests

\* A number that parses is a natural number.
LEMMA ParsedIsNat == ASSUME NEW f, IsU64(f) PROVE f \in Nat
BY DEF IsU64

\* A suffix range, on a file that is not empty.
LEMMA SuffixExact ==
  ASSUME NEW n \in Field, NEW size \in Nat, size > 0, IsU64(n)
  PROVE  LET r == Suffix(n, size)
         IN /\ r.kind = IF n = 0 THEN "unsatisfiable" ELSE "satisfiable"
            /\ n # 0 => /\ r.start \in 0 .. size - 1 /\ r.end = size - 1
                        /\ \A b \in 0 .. size - 1 : b + n >= size <=> r.start <= b
BY ParsedIsNat DEF Suffix, Satisfiable, Unsatisfiable

\* A span, on a file that is not empty.
LEMMA SpanExact ==
  ASSUME NEW first \in Field, NEW last \in Field, NEW size \in Nat, size > 0,
         IsU64(first), last = Blank \/ IsU64(last)
  PROVE  LET r == Span(first, last, size)
             within(b) == first <= b /\ (last = Blank \/ b <= last)
         IN \/ /\ r.kind = "unsatisfiable"
               /\ \A b \in 0 .. size - 1 : ~within(b)
            \/ /\ r.kind = "satisfiable"
               /\ r.start \in 0 .. size - 1 /\ r.end \in r.start .. size - 1
               /\ \A b \in 0 .. size - 1 : within(b) <=> r.start <= b /\ b <= r.end
<1> DEFINE end == IF last = Blank THEN size - 1 ELSE IF last < size THEN last ELSE size - 1
<1>1. first \in Nat /\ (last = Blank \/ last \in Nat)
  BY ParsedIsNat
<1>2. Blank \notin Nat
  BY BlankAssumption
<1>3. end \in 0 .. size - 1
  BY <1>1
<1>4. \A b \in 0 .. size - 1 : (last = Blank \/ b <= last) <=> b <= end
  <2>1. CASE last = Blank
    BY <2>1
  <2>2. CASE last \in Nat
    BY <2>2, <1>2
  <2> QED BY <1>1, <2>1, <2>2
<1>5. Span(first, last, size) =
        IF first > end \/ first >= size THEN Unsatisfiable ELSE Satisfiable(first, end)
  BY DEF Span
<1> HIDE DEF end
<1>6. CASE first > end \/ first >= size
  <2>1. Span(first, last, size) = Unsatisfiable
    BY <1>5, <1>6
  <2>2. \A b \in 0 .. size - 1 : ~(first <= b /\ b <= end)
    BY <1>1, <1>3, <1>6
  <2> QED BY <2>1, <2>2, <1>4 DEF Unsatisfiable
<1>7. CASE ~(first > end \/ first >= size)
  <2>1. Span(first, last, size) = Satisfiable(first, end)
    BY <1>5, <1>7
  <2>2. first \in 0 .. size - 1 /\ end \in first .. size - 1
    BY <1>1, <1>3, <1>7
  <2> QED BY <2>1, <2>2, <1>4 DEF Satisfiable
<1> QED BY <1>6, <1>7

\* A file that can be read is answered exactly, whatever its size.
LEMMA ResponseExact ==
  ASSUME NEW get \in Get, NEW size \in Nat, NEW trouble
  PROVE  Exact(Respond(get, size), get, size, trouble)
<1> DEFINE h == get.range
           a == Respond(get, size)
<1>1. get.known \in BOOLEAN /\ h \in Header \cup {NoHeader}
  BY DEF Get
<1>2. CASE h = NoHeader
  <2>1. a = IF get.known THEN Answer(304, 0, 0) ELSE Answer(200, 0, size)
    BY <1>2 DEF Respond, Absent, Answer
  <2> QED BY <1>2, <2>1 DEF Exact, Answer
<1>3. CASE h # NoHeader
  <2> DEFINE r == ParseRange(h, size)
  <2>1. h \in Header
    BY <1>1, <1>3
  <2>2. a = IF r.kind = "unsatisfiable" THEN Answer(416, 0, 0)
            ELSE IF r.kind = "satisfiable" THEN Answer(206, r.start, r.end - r.start + 1)
            ELSE Answer(200, 0, size)
    BY <1>3 DEF Respond
  <2>3. CASE ~WellFormed(h) /\ size > 0
    <3>1. r = Absent
      BY <2>3, BlankAssumption DEF WellFormed, ParseRange, Suffix, Span, IsU64
    <3> QED BY <1>3, <2>2, <2>3, <3>1 DEF Exact, Answer, Absent
  <2>4. CASE size = 0
    <3>1. Wanted(h, size) = {}
      BY <2>4 DEF Wanted
    <3>2. r = IF h.single THEN Unsatisfiable ELSE Absent
      BY <2>4 DEF ParseRange
    <3>3. WellFormed(h) => h.single
      BY DEF WellFormed
    <3> QED BY <1>3, <2>2, <2>4, <3>1, <3>2, <3>3 DEF Exact, Answer, Absent, Unsatisfiable
  <2>5. CASE WellFormed(h) /\ size > 0 /\ h.first = Blank
    <3>1. h.last \in Field /\ IsU64(h.last) /\ h.last \in Nat
      BY <2>1, <2>5, ParsedIsNat DEF Header, WellFormed
    <3>2. r = Suffix(h.last, size)
      BY <2>5 DEF ParseRange, WellFormed
    <3>3. Wanted(h, size) = {b \in 0 .. size - 1 : b + h.last >= size}
      BY <2>5 DEF Wanted
    <3>4. CASE h.last = 0
      <4>1. Wanted(h, size) = {}
        BY <3>3, <3>4
      <4>2. r.kind = "unsatisfiable"
        BY <2>5, <3>1, <3>2, <3>4, SuffixExact
      <4> QED BY <1>3, <2>2, <2>5, <4>1, <4>2 DEF Exact, Answer
    <3>5. CASE h.last # 0
      <4>1. /\ r.kind = "satisfiable"
            /\ r.start \in 0 .. size - 1 /\ r.end = size - 1
            /\ \A b \in 0 .. size - 1 : b + h.last >= size <=> r.start <= b
        BY <2>5, <3>1, <3>2, <3>5, SuffixExact
      <4> HIDE DEF r
      <4>2. a = Answer(206, r.start, r.end - r.start + 1)
        BY <2>2, <4>1
      <4>3. {b \in 0 .. size - 1 : r.start <= b /\ b < r.start + (r.end - r.start + 1)} = Wanted(h, size)
        BY <3>3, <4>1
      <4> QED BY <1>3, <2>5, <4>1, <4>2, <4>3 DEF Exact, Answer
    <3> QED BY <3>4, <3>5
  <2>6. CASE WellFormed(h) /\ size > 0 /\ h.first # Blank
    <3>1. /\ h.first \in Field /\ h.last \in Field
          /\ IsU64(h.first) /\ (h.last = Blank \/ IsU64(h.last))
      BY <2>1, <2>6 DEF Header, WellFormed
    <3>2. r = Span(h.first, h.last, size)
      BY <2>6 DEF ParseRange, WellFormed
    <3> DEFINE within(b) == h.first <= b /\ (h.last = Blank \/ b <= h.last)
    <3>3. Wanted(h, size) = {b \in 0 .. size - 1 : within(b)}
      BY <2>6 DEF Wanted
    <3>4. \/ /\ r.kind = "unsatisfiable"
             /\ \A b \in 0 .. size - 1 : ~within(b)
          \/ /\ r.kind = "satisfiable"
             /\ r.start \in 0 .. size - 1 /\ r.end \in r.start .. size - 1
             /\ \A b \in 0 .. size - 1 : within(b) <=> r.start <= b /\ b <= r.end
      BY <2>6, <3>1, <3>2, SpanExact
    <3> HIDE DEF r, within
    <3>5. CASE r.kind = "unsatisfiable"
      <4>1. \A b \in 0 .. size - 1 : ~within(b)
        BY <3>4, <3>5
      <4>2. Wanted(h, size) = {}
        BY <3>3, <4>1
      <4> QED BY <1>3, <2>2, <2>6, <3>5, <4>2 DEF Exact, Answer
    <3>6. CASE r.kind # "unsatisfiable"
      <4>1. /\ r.kind = "satisfiable"
            /\ r.start \in 0 .. size - 1 /\ r.end \in r.start .. size - 1
            /\ \A b \in 0 .. size - 1 : within(b) <=> r.start <= b /\ b <= r.end
        BY <3>4, <3>6
      <4>2. a = Answer(206, r.start, r.end - r.start + 1)
        BY <2>2, <4>1
      <4>3. {b \in 0 .. size - 1 : r.start <= b /\ b < r.start + (r.end - r.start + 1)} = Wanted(h, size)
        BY <3>3, <4>1
      <4> QED BY <1>3, <2>6, <4>1, <4>2, <4>3 DEF Exact, Answer
    <3> QED BY <3>5, <3>6
  <2> QED BY <2>3, <2>4, <2>5, <2>6
<1> QED BY <1>1, <1>2, <1>3

\* Every request is answered exactly, or refused for a file that fails.
LEMMA EveryAnswerExact ==
  ASSUME NEW get \in Get, NEW size \in Nat, NEW trouble \in Troubles
  PROVE  Exact(ServeFileRange(get, size, trouble), get, size, trouble)
<1> DEFINE a == ServeFileRange(get, size, trouble)
<1>1. CASE a = Respond(get, size)
  BY <1>1, ResponseExact
<1>2. CASE a # Respond(get, size)
  <2>1. a = Answer(500, 0, 0) /\ trouble # "none"
    BY <1>2 DEF ServeFileRange
  <2> QED BY <2>1 DEF Exact, Answer
<1> QED BY <1>1, <1>2

\* Ranges are answered exactly, for all sizes and numbers the constants may name (parse_range,
\* serve_file_range).
THEOREM RangesExact == TSpec => []RangesServed
<1>1. RangeExact
  BY EveryAnswerExact, SizesAssumption DEF RangeExact
<1>2. RangesServed
  BY <1>1 DEF RangesServed
<1> QED BY <1>2, PTL

----------------------------------------------------------------------------
\* A token that was ever signed is the one secret's, until a file fails.
SecretInv ==
  /\ \A s, u \in file : s = u
  /\ lapses = 0 =>
       /\ \A t \in tokens : IF env THEN t = FromEnv ELSE file = {t}
       /\ phase # "down" => IF env THEN secret = FromEnv ELSE file = {secret}

\* A thread at an item is at one that exists, with what it has measured or rendered.
ThreadsInv ==
  \A t \in Threads :
     /\ pc[t] \in {"render", "keep", "forget", "memo"} => item[t] \in Items
     /\ pc[t] \in {"keep", "memo"} => holds[t] \in Pictures

\* What the threads, the memo and the cache know of an item that has not raced.
ItemInv(i) ==
  /\ i \notin raced =>
       /\ \/ dimensions[i] \in {None, thumb[i]}
          \/ \E t \in Threads : pc[t] = "forget" /\ item[t] = i
       /\ \A t \in Threads : pc[t] = "memo" /\ item[t] = i => holds[t] = thumb[i]
       /\ \A t \in Threads : pc[t] \in {"render", "keep"} /\ item[t] = i => thumb[i] = None
       /\ i \notin changed => seen[i] \subseteq {thumb[i]}
  /\ \A t \in Threads : pc[t] = "forget" /\ item[t] = i => thumb[i] # None

MediaInv == \A i \in Items : ItemInv(i)

ServerInv == TTypeOK /\ SecretInv /\ ThreadsInv /\ MediaInv /\ BackfillCounts

\* The initial state: nothing is running.
LEMMA InitServer == TInit => ServerInv
<1> SUFFICES ASSUME TInit PROVE ServerInv
  OBVIOUS
<1>1. TTypeOK
  BY StartupAssumption DEF TInit, SInit, TTypeOK, StartupTypeOK, FromEnv
<1>2. SecretInv
  BY DEF TInit, SInit, SecretInv
<1>3. ThreadsInv /\ MediaInv
  BY DEF TInit, ThreadsInv, MediaInv, ItemInv
<1>4. BackfillCounts
  BY DEF TInit, SInit, BackfillCounts, Up
<1> QED BY <1>1, <1>2, <1>3, <1>4 DEF ServerInv

\* The steps of the process's life keep its types and the secret.
LEMMA LifeSafe ==
  ASSUME StartupTypeOK, SecretInv,
         LoadEnv \/ LoadFile \/ CreateFile \/ CreateFails \/ CreateCut
           \/ Binds \/ BindRetries \/ BindFails \/ Login \/ StopAsked \/ Gone
  PROVE  StartupTypeOK' /\ SecretInv'
<1>1. StartupTypeOK'
  <2> USE StartupAssumption DEF StartupTypeOK, FromEnv
  <2>1. CASE LoadEnv
    BY <2>1 DEF LoadEnv, Loaded
  <2>2. CASE LoadFile
    BY <2>2 DEF LoadFile, Loaded
  <2>3. CASE CreateFile
    BY <2>3 DEF CreateFile, Loaded, Fresh, Unreadable
  <2>4. CASE CreateFails
    BY <2>4 DEF CreateFails, Loaded, Fresh
  <2>5. CASE CreateCut
    BY <2>5 DEF CreateCut, Unreadable
  <2>6. CASE Binds
    BY <2>6 DEF Binds
  <2>7. CASE BindRetries
    BY <2>7 DEF BindRetries
  <2>8. CASE BindFails \/ Login \/ StopAsked
    BY <2>8 DEF BindFails, Login, StopAsked
  <2>9. CASE Gone
    BY <2>9 DEF Gone
  <2> QED BY <2>1, <2>2, <2>3, <2>4, <2>5, <2>6, <2>7, <2>8, <2>9
<1>2. SecretInv'
  <2> USE DEF SecretInv
  <2>1. CASE LoadEnv
    BY <2>1 DEF LoadEnv, Loaded
  <2>2. CASE LoadFile
    BY <2>2 DEF LoadFile, Loaded
  <2>3. CASE CreateFile
    BY <2>3 DEF CreateFile, Loaded, Unreadable, Written, StartupTypeOK
  <2>4. CASE CreateFails
    BY <2>4 DEF CreateFails, Loaded, StartupTypeOK
  <2>5. CASE CreateCut
    BY <2>5 DEF CreateCut, Unreadable, Written, StartupTypeOK
  <2>6. CASE Binds \/ BindFails
    BY <2>6 DEF Binds, BindFails
  <2>7. CASE BindRetries
    BY <2>7 DEF BindRetries
  <2>8. CASE Login
    BY <2>8 DEF Login
  <2>9. CASE StopAsked
    BY <2>9 DEF StopAsked
  <2>10. CASE Gone
    BY <2>10 DEF Gone
  <2> QED BY <2>1, <2>2, <2>3, <2>4, <2>5, <2>6, <2>7, <2>8, <2>9, <2>10
<1> QED BY <1>1, <1>2

----------------------------------------------------------------------------
Busy == {w \in Workers : pc[w] \in {"render", "keep"}}
AtWork == {"render", "keep"}

\* Where a worker goes changes the number of busy ones by one at most.
LEMMA BusyMoves ==
  ASSUME TTypeOK, NEW t \in Threads, NEW to, pc' = [pc EXCEPT ![t] = to]
  PROVE  /\ Cardinality(Busy) \in Nat
         /\ t \notin Workers => Busy' = Busy
         /\ t \in Workers =>
              Cardinality(Busy)' =
                IF to \in AtWork THEN IF pc[t] \in AtWork THEN Cardinality(Busy) ELSE Cardinality(Busy) + 1
                ELSE IF pc[t] \in AtWork THEN Cardinality(Busy) - 1 ELSE Cardinality(Busy)
<1>1. Workers \subseteq DOMAIN pc
  BY DEF TTypeOK, Threads
<1>2. IsFiniteSet(Busy)
  BY FiniteAssumption, FS_Subset DEF Busy
<1>3. Cardinality(Busy) \in Nat
  BY <1>2, FS_CardinalityType
<1>4. t \notin Workers => Busy' = Busy
  BY <1>1 DEF Busy
<1>5. CASE t \in Workers /\ to \in AtWork
  <2>1. Busy' = Busy \cup {t} /\ (t \in Busy <=> pc[t] \in AtWork)
    BY <1>1, <1>5 DEF Busy, AtWork
  <2> QED BY <1>2, <1>3, <1>5, <2>1, FS_AddElement
<1>6. CASE t \in Workers /\ to \notin AtWork
  <2>1. Busy' = Busy \ {t} /\ (t \in Busy <=> pc[t] \in AtWork)
    BY <1>1, <1>6 DEF Busy, AtWork
  <2>2. Cardinality(Busy \ {t}) = IF t \in Busy THEN Cardinality(Busy) - 1 ELSE Cardinality(Busy)
    BY <1>2, FS_RemoveElement
  <2> QED BY <1>3, <1>6, <2>1, <2>2
<1> QED BY <1>3, <1>4, <1>5, <1>6

\* At the start no thread is at anything.
LEMMA StartSafe == ASSUME ServerInv, Start PROVE ServerInv'
<1>1. StartupTypeOK' /\ SecretInv'
  BY LifeSafe DEF Start, ServerInv, TTypeOK
<1>2. pc' \in [Threads -> {"idle", "spawned"}]
  BY DEF Start
<1>3. TTypeOK'
  BY <1>1, <1>2 DEF Start, NoBackfill, ServerInv, TTypeOK, Rests, disk
<1>4. ThreadsInv'
  BY <1>2 DEF ThreadsInv
<1>5. MediaInv'
  BY <1>2 DEF Start, ServerInv, MediaInv, ItemInv, disk
<1>6. BackfillCounts'
  <2>1. {w \in Workers : pc'[w] \in {"render", "keep"}} = {}
    BY <1>2 DEF Threads
  <2> QED BY <2>1, FS_EmptySet DEF Start, NoBackfill, BackfillCounts
<1> QED BY <1>1, <1>3, <1>4, <1>5, <1>6 DEF ServerInv

\* The backfill takes stock of what is pending.
LEMMA TakeStockSafe == ASSUME ServerInv, TakeStock PROVE ServerInv'
<1>1. /\ pc' \in [Threads -> Rests \cup {"render", "keep", "forget", "memo"}]
      /\ \A t \in Threads : IF t \in Workers THEN pc[t] = "spawned" /\ pc'[t] \in {"over", "next"}
                             ELSE pc'[t] = pc[t]
  BY DEF TakeStock, ServerInv, TTypeOK, Rests
<1>2. UNCHANGED <<life, disk, dimensions, item, holds>> /\ generated' = 0 /\ failed' = 0
  BY DEF TakeStock
<1>3. StartupTypeOK' /\ SecretInv'
  BY <1>2 DEF ServerInv, TTypeOK, StartupTypeOK, SecretInv, life
<1>4. queue' \subseteq Records /\ IsFiniteSet(queue') /\ total' = Cardinality(queue')
  BY FiniteAssumption, FS_Subset DEF TakeStock
<1>5. total' \in Nat
  BY <1>4, FS_CardinalityType
<1>6. TTypeOK'
  BY <1>1, <1>2, <1>3, <1>4, <1>5 DEF ServerInv, TTypeOK, disk
<1>7. ThreadsInv' /\ MediaInv'
  BY <1>1, <1>2 DEF ServerInv, ThreadsInv, MediaInv, ItemInv, disk
<1>8. BackfillCounts'
  <2>1. {w \in Workers : pc'[w] \in {"render", "keep"}} = {}
    BY <1>1 DEF Threads
  <2> QED BY <1>2, <1>4, <1>5, <2>1, FS_EmptySet DEF BackfillCounts
<1> QED BY <1>3, <1>6, <1>7, <1>8 DEF ServerInv

\* The rest of the process's life leaves its threads alone.
LEMMA LifeStepSafe == ASSUME ServerInv, Life PROVE ServerInv'
<1>1. StartupTypeOK' /\ SecretInv'
  BY LifeSafe DEF Life, ServerInv, TTypeOK
<1>2. Up' => Up
  BY DEF Life, Up, CreateCut, Binds, BindRetries, BindFails, Login, StopAsked
<1>3. UNCHANGED <<disk, dimensions, thread, backfill>>
  BY DEF Life
<1>4. TTypeOK' /\ ThreadsInv'
  BY <1>1, <1>3 DEF ServerInv, TTypeOK, ThreadsInv, disk, thread, backfill
<1>5. MediaInv'
  BY <1>3 DEF ServerInv, MediaInv, ItemInv, disk, thread
<1>6. BackfillCounts'
  BY <1>2, <1>3 DEF ServerInv, BackfillCounts, thread, backfill
<1> QED BY <1>1, <1>4, <1>5, <1>6 DEF ServerInv

\* A process that is gone leaves the disk behind.
LEMMA EndSafe == ASSUME ServerInv, Gone, Over PROVE ServerInv'
<1>1. StartupTypeOK' /\ SecretInv'
  BY LifeSafe DEF ServerInv, TTypeOK
<1>2. pc' \in [Threads -> {"idle", "over"}]
  BY DEF Over, Idle
<1>3. TTypeOK'
  BY <1>1, <1>2 DEF Over, NoBackfill, Idle, ServerInv, TTypeOK, Rests, disk
<1>4. ThreadsInv'
  BY <1>2 DEF ThreadsInv
<1>5. MediaInv'
  BY <1>2 DEF Over, ServerInv, MediaInv, ItemInv, disk
<1>6. BackfillCounts'
  BY DEF Gone, BackfillCounts, Up
<1> QED BY <1>1, <1>3, <1>4, <1>5, <1>6 DEF ServerInv

----------------------------------------------------------------------------
\* What a thread that moves on leaves as it was.
LEMMA GoesTypes ==
  ASSUME TTypeOK, ThreadsInv, NEW t \in Threads, NEW to, NEW i, NEW p, Goes(t, to, i, p),
         to \in Rests \cup {"render", "keep", "forget", "memo"},
         i \in Items \cup {None}, p \in Pictures \cup {None},
         to \in {"render", "keep", "forget", "memo"} => i \in Items,
         to \in {"keep", "memo"} => p \in Pictures
  PROVE  /\ pc' \in [Threads -> Rests \cup {"render", "keep", "forget", "memo"}]
         /\ item' \in [Threads -> Items \cup {None}] /\ holds' \in [Threads -> Pictures \cup {None}]
         /\ ThreadsInv'
         /\ pc'[t] = to /\ item'[t] = i /\ holds'[t] = p
         /\ \A u \in Threads \ {t} : pc'[u] = pc[u] /\ item'[u] = item[u] /\ holds'[u] = holds[u]
BY DEF TTypeOK, ThreadsInv, Goes

\* A thread that leaves an item, and the memo and the cache as they are, disturbs
\* nothing (for a thread that ends its memo's update see ForgetSafe).
LEMMA LeaveSafe ==
  ASSUME MediaInv, NEW t \in Threads, pc[t] # "forget",
         pc'[t] \in {"idle", "next", "over"},
         \A u \in Threads \ {t} : pc'[u] = pc[u] /\ item'[u] = item[u] /\ holds'[u] = holds[u],
         UNCHANGED <<disk, dimensions>>
  PROVE  MediaInv'
BY DEF MediaInv, ItemInv, disk

\* A look in the cache serves the thumbnail there is, or finds none and renders.
LEMMA LookSafe ==
  ASSUME ServerInv, NEW t \in Threads, NEW i \in Items, pc[t] \in {"idle", "next"},
         Look(t, i), queue' \subseteq queue
  PROVE  TTypeOK' /\ SecretInv' /\ ThreadsInv' /\ MediaInv'
<1> USE DEF ServerInv
<1>1. SecretInv' /\ StartupTypeOK'
  BY DEF Look, life, SecretInv, StartupTypeOK, TTypeOK
<1>2. CASE thumb[i] # None
  <2>1. Done(t) /\ Serves(t, i, thumb[i]) /\ Counted(t, TRUE)
        /\ UNCHANGED <<thumb, changed, raced, dimensions, total>>
    BY <1>2 DEF Look
  <2> DEFINE to == IF t \in Workers THEN "next" ELSE "idle"
  <2>2. Goes(t, to, None, None)
    BY <2>1 DEF Done
  <2>3. /\ pc' \in [Threads -> Rests \cup {"render", "keep", "forget", "memo"}]
        /\ item' \in [Threads -> Items \cup {None}] /\ holds' \in [Threads -> Pictures \cup {None}]
        /\ ThreadsInv' /\ pc'[t] = to
        /\ \A u \in Threads \ {t} : pc'[u] = pc[u] /\ item'[u] = item[u] /\ holds'[u] = holds[u]
    BY <2>2, GoesTypes
  <2>4. thumb[i] \in Pictures /\ seen' \in [Items -> SUBSET Pictures]
    BY <1>2, <2>1 DEF Serves, TTypeOK
  <2>5. TTypeOK'
    BY <1>1, <2>1, <2>3, <2>4 DEF Counted, TTypeOK
  <2>6. MediaInv'
    <3>1. \A j \in Items : seen'[j] \subseteq seen[j] \cup {thumb[j]}
      BY <2>1 DEF Serves, TTypeOK
    <3>2. pc'[t] \in {"idle", "next"}
      BY <2>3
    <3> QED BY <2>1, <2>3, <3>1, <3>2 DEF MediaInv, ItemInv
  <2> QED BY <1>1, <2>3, <2>5, <2>6
<1>3. CASE thumb[i] = None
  <2>1. Goes(t, "render", i, None) /\ UNCHANGED <<disk, generated, failed, dimensions, total>>
    BY <1>3 DEF Look
  <2>2. /\ pc' \in [Threads -> Rests \cup {"render", "keep", "forget", "memo"}]
        /\ item' \in [Threads -> Items \cup {None}] /\ holds' \in [Threads -> Pictures \cup {None}]
        /\ ThreadsInv' /\ pc'[t] = "render" /\ item'[t] = i
        /\ \A u \in Threads \ {t} : pc'[u] = pc[u] /\ item'[u] = item[u] /\ holds'[u] = holds[u]
    BY <2>1, GoesTypes
  <2>3. TTypeOK'
    BY <1>1, <2>1, <2>2 DEF disk, TTypeOK
  <2>4. MediaInv'
    BY <1>3, <2>1, <2>2 DEF MediaInv, ItemInv, disk
  <2> QED BY <1>1, <2>2, <2>3, <2>4
<1> QED BY <1>2, <1>3

\* The backfill's worker takes its next record, or returns.
LEMMA TakeNextSafe == ASSUME ServerInv, NEW w \in Workers, TakeNext(w) PROVE ServerInv'
<1> USE DEF ServerInv
<1>1. w \in Threads /\ pc[w] = "next" /\ Up
  BY DEF TakeNext, Threads
<1>2. IsFiniteSet(queue) /\ Cardinality(queue) \in Nat
  BY FiniteAssumption, FS_Subset, FS_CardinalityType DEF TTypeOK
<1>3. BackfillCounts => total = Cardinality(queue) + generated + failed + Cardinality(Busy)
  BY <1>1 DEF BackfillCounts, Busy
<1>4. CASE \E r \in queue : Look(w, ItemOf[r]) /\ queue' = queue \ {r}
  <2>1. PICK r \in queue : Look(w, ItemOf[r]) /\ queue' = queue \ {r}
    BY <1>4
  <2>2. ItemOf[r] \in Items
    BY DEF TTypeOK, Items
  <2>3. TTypeOK' /\ SecretInv' /\ ThreadsInv' /\ MediaInv'
    BY <1>1, <2>1, <2>2, LookSafe
  <2>4. Cardinality(queue)' = Cardinality(queue) - 1
    BY <1>2, <2>1, FS_RemoveElement
  <2>5. /\ total' = total
        /\ \/ /\ pc' = [pc EXCEPT ![w] = "next"] /\ generated' = generated + 1 /\ failed' = failed
           \/ /\ pc' = [pc EXCEPT ![w] = "render"] /\ UNCHANGED <<generated, failed>>
    BY <2>1 DEF Look, Done, Goes, Counted
  <2>6. total' = Cardinality(queue)' + generated' + failed' + Cardinality(Busy)'
    BY <1>1, <1>2, <1>3, <2>4, <2>5, BusyMoves DEF AtWork, TTypeOK
  <2> QED BY <2>3, <2>6 DEF BackfillCounts, Busy
<1>5. CASE queue = {} /\ Goes(w, "over", None, None) /\ UNCHANGED <<life, disk, dimensions, backfill>>
  <2>1. /\ pc' \in [Threads -> Rests \cup {"render", "keep", "forget", "memo"}]
        /\ item' \in [Threads -> Items \cup {None}] /\ holds' \in [Threads -> Pictures \cup {None}]
        /\ ThreadsInv' /\ pc'[w] = "over"
        /\ \A u \in Threads \ {w} : pc'[u] = pc[u] /\ item'[u] = item[u] /\ holds'[u] = holds[u]
    BY <1>1, <1>5, GoesTypes
  <2>2. TTypeOK' /\ SecretInv'
    BY <1>5, <2>1 DEF TTypeOK, StartupTypeOK, SecretInv, life, disk, backfill
  <2>3. MediaInv'
    BY <1>1, <1>5, <2>1, LeaveSafe
  <2>4. Cardinality(Busy)' = Cardinality(Busy)
    <3>1. pc' = [pc EXCEPT ![w] = "over"]
      BY <1>5 DEF Goes
    <3>2. "over" \notin AtWork /\ pc[w] \notin AtWork
      BY <1>1 DEF AtWork
    <3> HIDE DEF ServerInv
    <3>3. TTypeOK /\ w \in Workers
      BY DEF ServerInv
    <3> QED BY ONLY <1>1, <3>1, <3>2, <3>3, BusyMoves
  <2> QED BY <1>1, <1>3, <1>5, <2>1, <2>2, <2>3, <2>4 DEF BackfillCounts, Busy, backfill, life
<1> QED BY <1>4, <1>5 DEF TakeNext

\* A client asks for a thumbnail.
LEMMA GetThumbSafe ==
  ASSUME ServerInv, NEW c \in Clients, NEW i \in Items, GetThumb(c, i) PROVE ServerInv'
<1> USE DEF ServerInv
<1>1. c \in Threads /\ c \notin Workers /\ pc[c] = "idle" /\ phase = "serving"
  BY ThreadsAssumption DEF GetThumb, Threads
<1>2. TTypeOK' /\ SecretInv' /\ ThreadsInv' /\ MediaInv'
  BY <1>1, LookSafe DEF GetThumb
<1>3. UNCHANGED <<queue, generated, failed, total>>
  BY <1>1 DEF GetThumb, Look, Counted
<1>4. Busy' = Busy
  <2>1. \E to : pc' = [pc EXCEPT ![c] = to]
    BY DEF GetThumb, Look, Done, Goes
  <2> QED BY <1>1, <2>1, BusyMoves
<1> QED BY <1>1, <1>2, <1>3, <1>4 DEF BackfillCounts, Busy, Up

\* A render works or fails.
LEMMA RenderSafe == ASSUME ServerInv, NEW t \in Threads, Render(t) PROVE ServerInv'
<1> USE DEF ServerInv
<1>1. Up /\ pc[t] = "render" /\ UNCHANGED <<life, disk, dimensions, queue, total>>
  BY DEF Render
<1>2. item[t] \in Items
  BY <1>1 DEF ThreadsInv
<1>3. SecretInv' /\ StartupTypeOK'
  BY <1>1 DEF life, SecretInv, StartupTypeOK, TTypeOK
<1>4. BackfillCounts => total = Cardinality(queue) + generated + failed + Cardinality(Busy)
  BY <1>1 DEF BackfillCounts, Busy
<1>5. Cardinality(queue) \in Nat
  BY FiniteAssumption, FS_Subset, FS_CardinalityType DEF TTypeOK
<1>6. CASE \E p \in {"rendered", "fallback"} :
             Goes(t, "keep", item[t], p) /\ UNCHANGED <<generated, failed>>
  <2>1. PICK p \in {"rendered", "fallback"} : Goes(t, "keep", item[t], p)
    BY <1>6
  <2>2. p \in Pictures
    BY DEF Pictures
  <2>3. /\ pc' \in [Threads -> Rests \cup {"render", "keep", "forget", "memo"}]
        /\ item' \in [Threads -> Items \cup {None}] /\ holds' \in [Threads -> Pictures \cup {None}]
        /\ ThreadsInv' /\ pc'[t] = "keep" /\ item'[t] = item[t]
        /\ \A u \in Threads \ {t} : pc'[u] = pc[u] /\ item'[u] = item[u] /\ holds'[u] = holds[u]
    BY <1>2, <2>1, <2>2, GoesTypes
  <2>4. TTypeOK'
    BY <1>1, <1>3, <1>6, <2>3 DEF TTypeOK, disk
  <2>5. MediaInv'
    BY <1>1, <2>3 DEF MediaInv, ItemInv, disk
  <2>6. pc' = [pc EXCEPT ![t] = "keep"]
    BY <2>1 DEF Goes
  <2>7. Cardinality(Busy)' = Cardinality(Busy)
    BY <1>1, <2>6, BusyMoves DEF AtWork
  <2>8. BackfillCounts'
    BY <1>1, <1>4, <1>6, <2>7 DEF BackfillCounts, Busy
  <2> QED BY <1>3, <2>3, <2>4, <2>5, <2>8
<1>7. CASE Done(t) /\ Counted(t, FALSE)
  <2> DEFINE to == IF t \in Workers THEN "next" ELSE "idle"
  <2>1. Goes(t, to, None, None)
    BY <1>7 DEF Done
  <2>2. /\ pc' \in [Threads -> Rests \cup {"render", "keep", "forget", "memo"}]
        /\ item' \in [Threads -> Items \cup {None}] /\ holds' \in [Threads -> Pictures \cup {None}]
        /\ ThreadsInv' /\ pc'[t] = to
        /\ \A u \in Threads \ {t} : pc'[u] = pc[u] /\ item'[u] = item[u] /\ holds'[u] = holds[u]
    BY <2>1, GoesTypes
  <2>3. TTypeOK'
    BY <1>1, <1>3, <1>7, <2>2 DEF TTypeOK, disk, Counted
  <2>4. MediaInv'
    BY <1>1, <2>2, LeaveSafe
  <2>5. pc' = [pc EXCEPT ![t] = to]
    BY <2>1 DEF Goes
  <2>6. IF t \in Workers THEN Cardinality(Busy)' = Cardinality(Busy) - 1 /\ failed' = failed + 1
        ELSE Cardinality(Busy)' = Cardinality(Busy) /\ failed' = failed
    BY <1>1, <1>7, <2>5, BusyMoves DEF AtWork, Counted
  <2>7. generated' = generated /\ Cardinality(Busy) \in Nat
    BY <1>7, <2>5, BusyMoves DEF Counted
  <2>8. BackfillCounts'
    BY <1>1, <1>4, <1>5, <2>6, <2>7 DEF BackfillCounts, Busy, TTypeOK
  <2> QED BY <1>3, <2>2, <2>3, <2>4, <2>8
<1> QED BY <1>6, <1>7 DEF Render

\* A render is kept, or only served.
LEMMA KeepSafe == ASSUME ServerInv, NEW t \in Threads, Keep(t) PROVE ServerInv'
<1> USE DEF ServerInv
<1> DEFINE i == item[t]
           p == holds[t]
           to == IF t \in Workers THEN "next" ELSE "idle"
<1>1. Up /\ pc[t] = "keep" /\ UNCHANGED <<life, dimensions, queue, total>>
  BY DEF Keep
<1>2. i \in Items /\ p \in Pictures
  BY <1>1 DEF ThreadsInv
<1>3. SecretInv' /\ StartupTypeOK'
  BY <1>1 DEF life, SecretInv, StartupTypeOK, TTypeOK
<1>4. Goes(t, to, None, None) /\ Serves(t, i, p) /\ Counted(t, TRUE)
  BY DEF Keep, Done
<1>5. /\ pc' \in [Threads -> Rests \cup {"render", "keep", "forget", "memo"}]
      /\ item' \in [Threads -> Items \cup {None}] /\ holds' \in [Threads -> Pictures \cup {None}]
      /\ ThreadsInv' /\ pc'[t] \in {"next", "idle"}
      /\ \A u \in Threads \ {t} : pc'[u] = pc[u] /\ item'[u] = item[u] /\ holds'[u] = holds[u]
  BY <1>4, GoesTypes
<1>6. \/ /\ thumb' = [thumb EXCEPT ![i] = p]
         /\ Races(t, i) /\ changed' = changed \ raced'
      \/ UNCHANGED <<thumb, raced>> /\ Changes(i)
  BY DEF Keep
<1>7. /\ thumb' \in [Items -> Pictures \cup {None}] /\ raced \subseteq raced'
      /\ changed' \subseteq Items /\ raced' \subseteq Items /\ seen' \in [Items -> SUBSET Pictures]
      /\ \A j \in Items \ {i} : thumb'[j] = thumb[j] /\ seen'[j] = seen[j]
      /\ \A j \in Items : j \notin changed' \cup raced' => j \notin changed \cup raced
  BY <1>2, <1>4, <1>6 DEF TTypeOK, Races, Changes, Serves
<1>8. TTypeOK'
  BY <1>1, <1>3, <1>4, <1>5, <1>7 DEF TTypeOK, Counted
<1>9. ASSUME NEW j \in Items PROVE ItemInv(j)'
  <2>1. ItemInv(j)
    BY DEF MediaInv
  <2>2. CASE j # i
    <3>1. pc[t] \notin {"forget", "memo"} /\ (j \notin raced' => j \notin raced)
      BY <1>1, <1>7
    <3> QED BY <1>1, <1>5, <1>7, <2>1, <2>2, <3>1 DEF ItemInv
  <2>3. CASE j = i /\ thumb' = [thumb EXCEPT ![i] = p] /\ Races(t, i)
    <3>1. thumb'[i] = p /\ p # None
      BY <1>2, <2>3, NoneAssumption DEF TTypeOK
    <3>2. i \notin raced' => \A u \in Threads \ {t} : pc[u] \in Rests \/ item[u] # i
      BY <2>3 DEF Races, At
    <3>3. i \notin raced => thumb[i] = None /\ dimensions[i] = None
      BY <1>1, <2>1, <2>3 DEF ItemInv
    <3>4. i \notin raced' \cup changed' => seen'[i] \subseteq {p}
      <4>1. i \notin raced' \cup changed' => seen[i] = {}
        BY <1>1, <1>2, <1>7, <2>1, <2>3, <3>3, NoneAssumption DEF ItemInv, TTypeOK
      <4> QED BY <1>2, <1>4, <4>1 DEF Serves, TTypeOK
    <3> QED BY <1>1, <1>5, <1>7, <2>1, <2>3, <3>1, <3>2, <3>3, <3>4 DEF ItemInv
  <2>4. CASE j = i /\ UNCHANGED <<thumb, raced>> /\ Changes(i)
    <3>1. i \notin raced' => i \in changed'
      BY <2>4 DEF Changes
    <3> QED BY <1>1, <1>5, <2>1, <2>4, <3>1 DEF ItemInv
  <2> QED BY <1>6, <2>2, <2>3, <2>4
<1>10. BackfillCounts'
  <2>1. Cardinality(queue) \in Nat
    BY FiniteAssumption, FS_Subset, FS_CardinalityType DEF TTypeOK
  <2>2. total = Cardinality(queue) + generated + failed + Cardinality(Busy)
    BY <1>1 DEF BackfillCounts, Busy
  <2>3. pc' = [pc EXCEPT ![t] = to]
    BY <1>4 DEF Goes
  <2>4. IF t \in Workers THEN Cardinality(Busy)' = Cardinality(Busy) - 1 /\ generated' = generated + 1
        ELSE Cardinality(Busy)' = Cardinality(Busy) /\ generated' = generated
    BY <1>1, <1>4, <2>3, BusyMoves DEF AtWork, Counted
  <2>5. failed' = failed /\ Cardinality(Busy) \in Nat
    BY <1>4, <2>3, BusyMoves DEF Counted
  <2> QED BY <1>1, <2>1, <2>2, <2>4, <2>5 DEF BackfillCounts, Busy, TTypeOK
<1> QED BY <1>3, <1>5, <1>8, <1>9, <1>10 DEF MediaInv

\* The steps at the memo leave the process's life and the backfill's count alone.
LEMMA AsideSafe ==
  ASSUME ServerInv, NEW c \in Threads, NEW to, NEW i, NEW p,
         Goes(c, to, i, p), to \notin AtWork, pc[c] \notin AtWork,
         UNCHANGED <<life, backfill>>
  PROVE  StartupTypeOK' /\ SecretInv' /\ BackfillCounts'
<1> USE DEF ServerInv
<1>1. StartupTypeOK' /\ SecretInv'
  BY DEF life, SecretInv, StartupTypeOK, TTypeOK
<1>2. pc' = [pc EXCEPT ![c] = to]
  BY DEF Goes
<1> HIDE DEF ServerInv
<1>3. TTypeOK
  BY DEF ServerInv
<1>4. Cardinality(Busy)' = Cardinality(Busy)
  BY <1>2, <1>3, BusyMoves
<1> QED BY <1>1, <1>4 DEF ServerInv, BackfillCounts, Busy, Up, life, backfill

\* A client replaces a thumbnail.
LEMMA PutThumbnailSafe ==
  ASSUME ServerInv, NEW c \in Clients, NEW i \in Items, PutThumbnail(c, i) PROVE ServerInv'
<1> USE DEF ServerInv
<1>1. c \in Threads /\ pc[c] = "idle" /\ UNCHANGED <<life, seen, dimensions, backfill>>
  BY DEF PutThumbnail, Threads
<1>2. Goes(c, "forget", i, None) /\ Races(c, i) /\ Changes(i) /\ thumb' = [thumb EXCEPT ![i] = "client"]
  BY DEF PutThumbnail
<1>3. StartupTypeOK' /\ SecretInv' /\ BackfillCounts'
  BY <1>1, <1>2, AsideSafe DEF AtWork
<1>4. /\ pc' \in [Threads -> Rests \cup {"render", "keep", "forget", "memo"}]
      /\ item' \in [Threads -> Items \cup {None}] /\ holds' \in [Threads -> Pictures \cup {None}]
      /\ ThreadsInv' /\ pc'[c] = "forget" /\ item'[c] = i
      /\ \A u \in Threads \ {c} : pc'[u] = pc[u] /\ item'[u] = item[u] /\ holds'[u] = holds[u]
  BY <1>1, <1>2, GoesTypes
<1>5. thumb' \in [Items -> Pictures \cup {None}] /\ raced' \subseteq Items /\ changed' \subseteq Items
  BY <1>2 DEF TTypeOK, Races, Changes, Pictures
<1>6. TTypeOK'
  BY <1>1, <1>3, <1>4, <1>5 DEF TTypeOK, backfill
<1>7. ASSUME NEW j \in Items PROVE ItemInv(j)'
  <2>1. ItemInv(j)
    BY DEF MediaInv
  <2>2. CASE j # i
    <3>1. thumb'[j] = thumb[j] /\ (j \in raced' <=> j \in raced) /\ (j \in changed' <=> j \in changed)
      BY <1>2, <2>2 DEF Races, Changes, TTypeOK
    <3> QED BY <1>1, <1>4, <2>1, <2>2, <3>1 DEF ItemInv
  <2>3. CASE j = i
    <3>1. thumb'[i] = "client" /\ "client" # None
      BY <1>2, NoneAssumption DEF TTypeOK, Pictures
    <3>2. i \notin raced' => \A u \in Threads \ {c} : pc[u] \in Rests \/ item[u] # i
      BY <1>2 DEF Races, At
    <3>3. i \in raced' \/ i \in changed'
      BY <1>2 DEF Changes
    <3>4. i \notin raced' => \A u \in Threads : item'[u] = i => u = c \/ pc'[u] \in Rests
      BY <1>4, <3>2
    <3>5. i \notin raced' => \A u \in Threads : item'[u] = i => pc'[u] \notin {"memo", "render", "keep"}
      BY <1>4, <3>4
    <3>6. ItemInv(i)'
      BY <1>1, <1>4, <3>1, <3>3, <3>5 DEF ItemInv
    <3> QED BY <2>3, <3>6
  <2> QED BY <2>2, <2>3
<1> QED BY <1>3, <1>4, <1>6, <1>7 DEF MediaInv

\* The memo forgets what was replaced.
LEMMA ForgetSafe == ASSUME ServerInv, NEW c \in Threads, Forget(c) PROVE ServerInv'
<1> USE DEF ServerInv
<1> DEFINE to == IF c \in Workers THEN "next" ELSE "idle"
<1>1. pc[c] = "forget" /\ UNCHANGED <<life, disk, backfill>> /\ item[c] \in Items
  BY DEF Forget, ThreadsInv
<1>2. Goes(c, to, None, None) /\ dimensions' = [dimensions EXCEPT ![item[c]] = None]
  BY DEF Forget, Done
<1>3. StartupTypeOK' /\ SecretInv' /\ BackfillCounts'
  BY <1>1, <1>2, AsideSafe DEF AtWork
<1>4. /\ pc' \in [Threads -> Rests \cup {"render", "keep", "forget", "memo"}]
      /\ item' \in [Threads -> Items \cup {None}] /\ holds' \in [Threads -> Pictures \cup {None}]
      /\ ThreadsInv' /\ pc'[c] \in {"next", "idle"}
      /\ \A u \in Threads \ {c} : pc'[u] = pc[u] /\ item'[u] = item[u] /\ holds'[u] = holds[u]
  BY <1>2, GoesTypes
<1>5. TTypeOK'
  BY <1>1, <1>2, <1>3, <1>4 DEF TTypeOK, disk, backfill
<1>6. MediaInv'
  <2>1. \A j \in Items : dimensions'[j] = IF j = item[c] THEN None ELSE dimensions[j]
    BY <1>2 DEF TTypeOK
  <2> QED BY <1>1, <1>4, <2>1 DEF MediaInv, ItemInv, disk
<1> QED BY <1>3, <1>4, <1>5, <1>6

\* A listing measures a thumbnail ...
LEMMA MeasureSafe ==
  ASSUME ServerInv, NEW c \in Clients, NEW i \in Items, Measure(c, i) PROVE ServerInv'
<1> USE DEF ServerInv
<1>1. /\ c \in Threads /\ pc[c] = "idle" /\ thumb[i] # None
      /\ UNCHANGED <<life, disk, dimensions, backfill>> /\ Goes(c, "memo", i, thumb[i])
  BY DEF Measure, Threads
<1>2. StartupTypeOK' /\ SecretInv' /\ BackfillCounts'
  BY <1>1, AsideSafe DEF AtWork
<1>3. thumb[i] \in Pictures
  BY <1>1 DEF TTypeOK
<1>4. /\ pc' \in [Threads -> Rests \cup {"render", "keep", "forget", "memo"}]
      /\ item' \in [Threads -> Items \cup {None}] /\ holds' \in [Threads -> Pictures \cup {None}]
      /\ ThreadsInv' /\ pc'[c] = "memo" /\ item'[c] = i /\ holds'[c] = thumb[i]
      /\ \A u \in Threads \ {c} : pc'[u] = pc[u] /\ item'[u] = item[u] /\ holds'[u] = holds[u]
  BY <1>1, <1>3, GoesTypes
<1>5. TTypeOK'
  BY <1>1, <1>2, <1>4 DEF TTypeOK, disk, backfill
<1>6. MediaInv'
  BY <1>1, <1>4 DEF MediaInv, ItemInv, disk
<1> QED BY <1>2, <1>4, <1>5, <1>6

\* ... and memoizes the measure.
LEMMA MemoizeSafe == ASSUME ServerInv, NEW c \in Threads, Memoize(c) PROVE ServerInv'
<1> USE DEF ServerInv
<1> DEFINE to == IF c \in Workers THEN "next" ELSE "idle"
<1>1. /\ pc[c] = "memo" /\ UNCHANGED <<life, disk, backfill>>
      /\ item[c] \in Items /\ holds[c] \in Pictures
  BY DEF Memoize, ThreadsInv
<1>2. Goes(c, to, None, None) /\ dimensions' = [dimensions EXCEPT ![item[c]] = holds[c]]
  BY DEF Memoize, Done
<1>3. StartupTypeOK' /\ SecretInv' /\ BackfillCounts'
  BY <1>1, <1>2, AsideSafe DEF AtWork
<1>4. /\ pc' \in [Threads -> Rests \cup {"render", "keep", "forget", "memo"}]
      /\ item' \in [Threads -> Items \cup {None}] /\ holds' \in [Threads -> Pictures \cup {None}]
      /\ ThreadsInv' /\ pc'[c] \in {"next", "idle"}
      /\ \A u \in Threads \ {c} : pc'[u] = pc[u] /\ item'[u] = item[u] /\ holds'[u] = holds[u]
  BY <1>2, GoesTypes
<1>5. TTypeOK'
  BY <1>1, <1>2, <1>3, <1>4 DEF TTypeOK, disk, backfill
<1>6. MediaInv'
  <2>1. \A j \in Items : dimensions'[j] = IF j = item[c] THEN holds[c] ELSE dimensions[j]
    BY <1>2 DEF TTypeOK
  <2> QED BY <1>1, <1>4, <2>1 DEF MediaInv, ItemInv, disk
<1> QED BY <1>3, <1>4, <1>5, <1>6

LEMMA NextServer == ServerInv /\ [TNext]_vars => ServerInv'
<1> SUFFICES ASSUME ServerInv, [TNext]_vars PROVE ServerInv'
  OBVIOUS
<1>1. CASE Start
  BY <1>1, StartSafe
<1>2. CASE Life
  BY <1>2, LifeStepSafe
<1>3. CASE Kill \/ Exit
  BY <1>3, EndSafe DEF Kill, Exit
<1>4. CASE \E t \in Threads : ThreadStep(t)
  BY <1>4, RenderSafe, KeepSafe, ForgetSafe, MemoizeSafe DEF ThreadStep
<1>8. CASE TakeStock
  BY <1>8, TakeStockSafe
<1>5. CASE \E w \in Workers : TakeNext(w)
  BY <1>5, TakeNextSafe
<1>6. CASE \E c \in Clients, i \in Items : GetThumb(c, i) \/ PutThumbnail(c, i) \/ Measure(c, i)
  BY <1>6, GetThumbSafe, PutThumbnailSafe, MeasureSafe
<1>7. CASE UNCHANGED vars
  BY <1>7 DEF vars, life, disk, thread, backfill, ServerInv, TTypeOK, StartupTypeOK, SecretInv,
              ThreadsInv, MediaInv, ItemInv, BackfillCounts, Up
<1> QED BY <1>1, <1>2, <1>3, <1>4, <1>5, <1>6, <1>7, <1>8 DEF TNext, Work

\* The server's inductive invariant.
THEOREM ServerInvariant == TSpec => []ServerInv
BY InitServer, NextServer, PTL DEF TSpec

\* Every variable of the process and its thumbnails has its type.
THEOREM ServerTypes == TSpec => []TTypeOK
<1>1. ServerInv => TTypeOK
  BY DEF ServerInv
<1> QED BY <1>1, ServerInvariant, PTL

\* A token outlives restarts and kills (load_or_create_jwt_secret, require_auth).
THEOREM TokensOutlive == TSpec => []TokensSurvive
<1>1. ServerInv => TokensSurvive
  BY DEF ServerInv, SecretInv, TokensSurvive, Taken
<1> QED BY <1>1, ServerInvariant, PTL

\* The backfill's count adds up, for any number of workers and items.
THEOREM BackfillIsExact == TSpec => []BackfillCounts
<1>1. ServerInv => BackfillCounts
  BY DEF ServerInv
<1> QED BY <1>1, ServerInvariant, PTL

\* The listing's shape is that of the thumbnail (thumbnail_dimensions, store_thumbnail).
THEOREM MemoIsTruthful == TSpec => []MemoTruthful
<1>1. ServerInv => MemoTruthful
  BY DEF ServerInv, MediaInv, ItemInv, MemoTruthful, At
<1> QED BY <1>1, ServerInvariant, PTL

\* What is served under one URL stays the same (cached_render, IMMUTABLE_CACHE).
THEOREM BytesStayStable == TSpec => []BytesStable
<1>1. ServerInv => BytesStable
  <2> SUFFICES ASSUME ServerInv, NEW i \in Items, i \notin changed \cup raced
               PROVE  ~(Cardinality(seen[i]) > 1)
    BY DEF BytesStable
  <2>1. seen[i] \subseteq {thumb[i]}
    BY DEF ServerInv, MediaInv, ItemInv
  <2>2. IsFiniteSet({thumb[i]}) /\ Cardinality({thumb[i]}) = 1
    BY FS_Singleton
  <2>3. Cardinality(seen[i]) <= 1 /\ Cardinality(seen[i]) \in Nat
    BY <2>1, <2>2, FS_Subset, FS_CardinalityType
  <2> QED BY <2>3
<1> QED BY <1>1, ServerInvariant, PTL
=============================================================================
