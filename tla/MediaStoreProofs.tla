-------------------------- MODULE MediaStoreProofs --------------------------
(* Proofs about MediaStore, and at the end about MediaStoreShared, for every  *)
(* value of their constants.                                                  *)
EXTENDS MediaStoreShared, TLAPS

StampsPast == \A q \in Paths : files[q] # None => Past(q, clock)

\* The name a thread chooses is a name in the library and, as the clock is past
\* every time a file's name carries, it is free.
LEMMA ChosenName ==
  ASSUME TypeOK, NEW t \in Threads, ChooseName(t),
         req[t].name \in Names, req[t].content \in Contents
  PROVE  \E p \in Paths :
           /\ target' = [target EXCEPT ![t] = p]
           /\ clock' \in 0 .. MaxStamps /\ clock <= clock'
           /\ Past(p, clock')
           /\ StampsPast => files[p] = None
<1> DEFINE n == req[t].name
           c == req[t].content
           p == UniqueFilename(n, c)
           stamp == [name |-> n, kind |-> "stamp", of |-> clock]
<1>1. clock \in 0 .. MaxStamps /\ MaxStamps \in Nat
  BY BoundsAssumption DEF TypeOK, DataOK
<1>2. target' = [target EXCEPT ![t] = p]
      /\ IF p.kind = "stamp" THEN clock < MaxStamps /\ clock' = clock + 1
                             ELSE UNCHANGED clock
  BY DEF ChooseName
<1>3. CASE p.kind # "stamp"
  <2>1. \E k \in {"plain", "sha8", "sha"} : p = Candidate(n, c, k) /\ files[p] = None
    BY <1>3 DEF UniqueFilename
  <2>2. p \in Paths
    BY <2>1 DEF Candidate, Paths
  <2>. HIDE DEF p
  <2>3. Past(p, clock')
    BY <1>3 DEF Past
  <2>4. target' = [target EXCEPT ![t] = p] /\ clock' \in 0 .. MaxStamps /\ clock <= clock'
    BY <1>1, <1>2, <1>3
  <2>. QED
    BY <2>1, <2>2, <2>3, <2>4
<1>4. CASE p.kind = "stamp"
  <2>1. p = stamp
    BY <1>4 DEF UniqueFilename, Candidate
  <2>2. clock \in Stamps /\ clock' = clock + 1
    BY <1>1, <1>2, <1>4 DEF Stamps
  <2>3. p \in Paths /\ p.of = clock
    BY <2>1, <2>2 DEF Paths
  <2>. HIDE DEF p
  <2>4. Past(p, clock') /\ ~Past(p, clock)
    BY <1>1, <1>4, <2>2, <2>3 DEF Past
  <2>5. target' = [target EXCEPT ![t] = p] /\ clock' \in 0 .. MaxStamps /\ clock <= clock'
    BY <1>1, <1>2, <2>2 DEF Stamps
  <2>6. StampsPast => files[p] = None
    BY <2>3, <2>4 DEF StampsPast
  <2>. QED
    BY <2>3, <2>4, <2>5, <2>6
<1>. QED
  BY <1>3, <1>4

(***************************************************************************)
(* Types.                                                                  *)
(***************************************************************************)
LEMMA InitTypeOK == Init => TypeOK
  BY BoundsAssumption, NoneAssumption
  DEF Init, TypeOK, DataOK, ThreadsOK, StepFits, ChunkIdx, Steps, UploadSteps,
      LockedSteps, ChunkSteps, VerifySteps

\* A thread whose handler returns is idle, and the others are as they were.
LEMMA ReturnTypes ==
  ASSUME ThreadsOK, NEW t \in Threads, Return(t)
  PROVE  ThreadsOK'
<1>1. pc' \in [Threads -> Steps] /\ req' \in [Threads -> Request \cup {None}]
      /\ target' \in [Threads -> Paths \cup {None}] /\ good' \in [Threads -> BOOLEAN]
      /\ pos' \in [Threads -> 0 .. NumChunks] /\ writer' \in Threads \cup {None}
  BY BoundsAssumption DEF ThreadsOK, Return, Goto, Steps
<1>2. ASSUME NEW u \in Threads PROVE StepFits(u)'
  BY NoneAssumption
  DEF ThreadsOK, Return, Goto, StepFits, UploadSteps, LockedSteps, ChunkSteps, VerifySteps
<1>3. QED
  BY <1>1, <1>2 DEF ThreadsOK

\* A thread that goes to a step its request and path fit.
LEMMA GotoTypes ==
  ASSUME ThreadsOK, NEW t \in Threads, NEW s \in Steps, Goto(t, s),
         NEW r \in Request, req' = [req EXCEPT ![t] = r],
         NEW p \in Paths \cup {None}, target' = [target EXCEPT ![t] = p],
         s # "idle",
         s \in UploadSteps => r \in UploadRequest,
         s \in ChunkSteps => r \in ChunkRequest,
         s \in VerifySteps => r \in VerifyRequest,
         s \in {"rename", "index", "sweep", "stat", "hash"} => p \in Paths,
         writer' \in Threads \cup {None},
         pos' \in [Threads -> 0 .. NumChunks], good' \in [Threads -> BOOLEAN]
  PROVE  ThreadsOK'
<1>1. ASSUME NEW u \in Threads PROVE StepFits(u)'
  BY DEF ThreadsOK, Goto, StepFits
<1>2. QED
  BY <1>1 DEF ThreadsOK, Goto

\* A thread that goes on with the request and path it has.
LEMMA GoOnTypes ==
  ASSUME ThreadsOK, NEW t \in Threads, NEW s \in Steps, Goto(t, s),
         UNCHANGED <<req, target>>, s # "idle",
         s \in UploadSteps => req[t] \in UploadRequest,
         s \in ChunkSteps => req[t] \in ChunkRequest,
         s \in VerifySteps => req[t] \in VerifyRequest,
         s \in {"rename", "index", "sweep", "stat", "hash"} => target[t] \in Paths,
         writer' \in Threads \cup {None},
         pos' \in [Threads -> 0 .. NumChunks], good' \in [Threads -> BOOLEAN]
  PROVE  ThreadsOK'
<1>1. ASSUME NEW u \in Threads PROVE StepFits(u)'
  BY DEF ThreadsOK, Goto, StepFits
<1>2. QED
  BY <1>1 DEF ThreadsOK, Goto

\* A request that arrives finds an idle thread and fits its first step.
LEMMA ReceiveTypes ==
  ASSUME TypeOK, NEW t \in Threads, NEW r \in Request, NEW s \in {"lock", "stage", "lookup"},
         Receive(t, r, s),
         s = "lock" => r \in UploadRequest,
         s = "stage" => r \in ChunkRequest,
         s = "lookup" => r \in VerifyRequest
  PROVE  TypeOK'
<1>1. DataOK'
  BY DEF TypeOK, DataOK, Receive, host, history
<1>2. ASSUME NEW u \in Threads PROVE StepFits(u)'
  BY DEF TypeOK, ThreadsOK, Receive, Goto, StepFits, UploadSteps, LockedSteps,
         ChunkSteps, VerifySteps
<1>3. QED
  BY <1>1, <1>2 DEF TypeOK, ThreadsOK, Receive, Goto, Steps

\* The three endpoints that start a thread keep the types.
LEMMA ArriveTypes ==
  ASSUME TypeOK, NEW t \in Threads, Arrive(t)
  PROVE  TypeOK'
<1>1. CASE ReceiveUpload(t)
  <2>1. PICK ph \in Photos, k \in {"upload", "complete"} :
          Receive(t, [kind |-> k, asset |-> ph.asset, content |-> ph.content,
                      name |-> ph.name], "lock")
    BY <1>1 DEF ReceiveUpload
  <2>2. [kind |-> k, asset |-> ph.asset, content |-> ph.content, name |-> ph.name]
          \in UploadRequest
    BY PhotosAssumption DEF Photo, UploadRequest
  <2>3. QED
    BY <2>1, <2>2, ReceiveTypes DEF Request
<1>2. CASE ReceiveChunk(t)
  <2>1. PICK c \in Contents, i \in ChunkIdx, ok \in BOOLEAN :
          Receive(t, [kind |-> "chunk", content |-> c, chunk |-> i, right |-> ok], "stage")
    BY <1>2 DEF ReceiveChunk
  <2>2. [kind |-> "chunk", content |-> c, chunk |-> i, right |-> ok] \in ChunkRequest
    BY DEF ChunkRequest
  <2>3. QED
    BY <2>1, <2>2, ReceiveTypes DEF Request
<1>3. CASE ReceiveVerify(t)
  <2>1. PICK c \in Contents, d \in Contents, deep \in BOOLEAN :
          Receive(t, [kind |-> "verify", content |-> c, size |-> SizeOf[d],
                      deep |-> deep], "lookup")
    BY <1>3 DEF ReceiveVerify
  <2>2. [kind |-> "verify", content |-> c, size |-> SizeOf[d], deep |-> deep]
          \in VerifyRequest
    BY SizeAssumption DEF VerifyRequest
  <2>3. QED
    BY <2>1, <2>2, ReceiveTypes DEF Request
<1>4. QED
  BY <1>1, <1>2, <1>3 DEF Arrive

\* The record an upload inserts is a record.
LEMMA InsertTypes ==
  ASSUME TypeOK, NEW t \in Threads, pc[t] = "index", InsertRecord(t)
  PROVE  index' \in [Assets -> Record \cup {None}]
<1>1. req[t] \in UploadRequest /\ target[t] \in Paths
  BY DEF TypeOK, ThreadsOK, StepFits, UploadSteps, LockedSteps
<1>2. [sha |-> req[t].content, path |-> target[t]] \in Record
  BY <1>1 DEF UploadRequest, Record
<1>3. QED
  BY <1>2 DEF InsertRecord, TypeOK, DataOK

\* A record found by its hash points into the library.
LEMMA FoundPath ==
  ASSUME TypeOK, NEW c, NEW r \in RecordsOf(c)
  PROVE  r \in Record /\ r.path \in Paths /\ r.sha = c
         /\ \E a \in Assets : index[a] = r /\ index[a] # None
<1>1. PICK a \in Assets : index[a] # None /\ index[a].sha = c /\ r = index[a]
  BY DEF RecordsOf
<1>2. r \in Record
  BY <1>1 DEF TypeOK, DataOK
<1>3. QED
  BY <1>1, <1>2 DEF Record

\* Each step under the write lock keeps the types.
LEMMA LockedStepTypes ==
  ASSUME TypeOK, NEW t \in Threads, LockedStep(t)
  PROVE  TypeOK'
<1> USE DEF TypeOK
<1>0. pc[t] \in LockedSteps => req[t] \in UploadRequest /\ req[t] \in Request
  BY DEF ThreadsOK, StepFits, UploadSteps, Request
<1>1. CASE ReuseStoredCopy(t)
  <2>1. PICK r \in RecordsOf(req[t].content) : target' = [target EXCEPT ![t] = r.path]
    BY <1>1 DEF ReuseStoredCopy
  <2>2. r.path \in Paths
    BY <2>1, FoundPath
  <2>3. req' = [req EXCEPT ![t] = req[t]]
    BY <1>1 DEF ReuseStoredCopy, ThreadsOK
  <2>4. ThreadsOK'
    BY <1>0, <1>1, <2>1, <2>2, <2>3, GotoTypes
    DEF ReuseStoredCopy, ThreadsOK, Steps, LockedSteps, UploadSteps, ChunkSteps, VerifySteps
  <2>5. QED
    BY <1>1, <2>4 DEF ReuseStoredCopy, DataOK, host, history
<1>2. CASE NoStoredCopy(t)
  <2>1. ThreadsOK'
    BY <1>0, <1>2, GoOnTypes
    DEF NoStoredCopy, ThreadsOK, Steps, LockedSteps, UploadSteps, ChunkSteps, VerifySteps
  <2>2. QED
    BY <1>2, <2>1 DEF NoStoredCopy, DataOK, host, history
<1>3. CASE WriteTemp(t) \/ Assembled(t)
  <2>1. req[t].name \in Names /\ req[t].content \in Contents
    BY <1>0, <1>3 DEF WriteTemp, Assembled, UploadRequest, LockedSteps
  <2>2. PICK p \in Paths : target' = [target EXCEPT ![t] = p] /\ clock' \in 0 .. MaxStamps
    BY <1>3, <2>1, ChosenName DEF WriteTemp, Assembled
  <2>4. /\ req' = [req EXCEPT ![t] = req[t]]
        /\ Goto(t, "rename") /\ UNCHANGED <<writer, pos, good>>
        /\ req[t] \in UploadRequest /\ req[t] \in Request
    BY <1>0, <1>3 DEF WriteTemp, Assembled, ThreadsOK, LockedSteps
  <2>5. ThreadsOK'
    BY <2>2, <2>4, GotoTypes
    DEF ThreadsOK, Steps, LockedSteps, UploadSteps, ChunkSteps, VerifySteps
  <2>6. clock' \in 0 .. MaxStamps
    BY <2>2
  <2>7. QED
    BY <1>3, <2>5, <2>6 DEF WriteTemp, Assembled, DataOK, host, history
<1>4. CASE WriteTempFails(t)
  <2>1. DataOK'
    BY <1>4 DEF WriteTempFails, DataOK, history
  <2>2. QED
    BY <1>4, <2>1, ReturnTypes DEF WriteTempFails
<1>5. CASE ReadChunk(t)
  <2>1. pos' \in [Threads -> 0 .. NumChunks] /\ good' \in [Threads -> BOOLEAN]
    BY <1>5, BoundsAssumption DEF ReadChunk, ThreadsOK
  <2>2. QED
    BY <1>5, <2>1 DEF ReadChunk, DataOK, ThreadsOK, StepFits, host, history
<1>6. CASE AssemblyFails(t)
  BY <1>6, ReturnTypes DEF AssemblyFails, DataOK, host, history
<1>7. CASE PlaceFile(t)
  <2>1. ThreadsOK'
    BY <1>0, <1>7, GoOnTypes
    DEF PlaceFile, ThreadsOK, StepFits, Steps, LockedSteps, UploadSteps, ChunkSteps, VerifySteps
  <2>2. req[t].content \in Contents
    BY <1>0, <1>7 DEF PlaceFile, UploadRequest, LockedSteps
  <2>3. QED
    BY <1>7, <2>1, <2>2 DEF PlaceFile, DataOK, history
<1>8. CASE PlaceFileFails(t)
  <2>1. DataOK'
    BY <1>8 DEF PlaceFileFails, DataOK, history
  <2>2. QED
    BY <1>8, <2>1, ReturnTypes DEF PlaceFileFails
<1>9. CASE IndexAndPersist(t)
  <2>1. ThreadsOK'
    BY <1>0, <1>9, GoOnTypes
    DEF IndexAndPersist, ThreadsOK, StepFits, Steps, LockedSteps, UploadSteps, ChunkSteps, VerifySteps
  <2>2. QED
    BY <1>9, <2>1, InsertTypes DEF IndexAndPersist, DataOK, history
<1>10. CASE PersistFails(t)
  BY <1>10, InsertTypes, ReturnTypes DEF PersistFails, DataOK, host, history
<1>11. CASE SweepStaging(t)
  <2>1. pc' \in [Threads -> Steps] /\ writer' \in Threads \cup {None}
    BY <1>11 DEF SweepStaging, ThreadsOK, Steps, Goto
  <2>2. ASSUME NEW u \in Threads PROVE StepFits(u)'
    BY <1>0, <1>11
    DEF SweepStaging, ThreadsOK, StepFits, Goto, LockedSteps, UploadSteps, ChunkSteps, VerifySteps
  <2>3. ThreadsOK'
    BY <1>11, <2>1, <2>2 DEF SweepStaging, ThreadsOK
  <2>4. staged' \in [Contents -> [ChunkIdx -> {"absent", "right", "wrong"}]]
    <3> DEFINE c == req[t].content
    <3>1. c \in Contents
      BY <1>0, <1>11 DEF SweepStaging, LockedSteps, UploadRequest
    <3>2. PICK gone \in SUBSET ChunkIdx :
            staged' = [staged EXCEPT ![c] =
                        [i \in ChunkIdx |-> IF i \in gone THEN "absent" ELSE @[i]]]
      BY <1>11 DEF SweepStaging
    <3>3. [i \in ChunkIdx |-> IF i \in gone THEN "absent" ELSE staged[c][i]]
            \in [ChunkIdx -> {"absent", "right", "wrong"}]
      BY <3>1 DEF DataOK
    <3>. QED
      BY <3>1, <3>2, <3>3 DEF DataOK
  <2>5. QED
    BY <1>11, <2>3, <2>4 DEF SweepStaging, DataOK, history
<1>12. QED
  BY <1>1, <1>2, <1>3, <1>4, <1>5, <1>6, <1>7, <1>8, <1>9, <1>10, <1>11 DEF LockedStep

\* Each step that needs no lock keeps the types.
LEMMA FreeStepTypes ==
  ASSUME TypeOK, NEW t \in Threads, FreeStep(t)
  PROVE  TypeOK'
<1> USE DEF TypeOK
<1>0. /\ pc[t] = "reply" => req[t] \in UploadRequest
      /\ pc[t] \in ChunkSteps => req[t] \in ChunkRequest /\ req[t] \in Request
      /\ pc[t] \in VerifySteps => req[t] \in VerifyRequest /\ req[t] \in Request
  BY DEF ThreadsOK, StepFits, UploadSteps, Request
<1>1. CASE Reply(t)
  BY <1>0, <1>1, ReturnTypes DEF Reply, DataOK, host, UploadRequest
<1>2. CASE StageChunk(t)
  <2>1. DataOK'
    BY <1>2 DEF StageChunk, DataOK, host, history
  <2>2. CASE Return(t)
    BY <2>1, <2>2, ReturnTypes
  <2>3. CASE Goto(t, "staging") /\ UNCHANGED <<req, target, pos, good, writer>>
    BY <1>0, <1>2, <2>1, <2>3, GoOnTypes
    DEF StageChunk, ThreadsOK, Steps, LockedSteps, UploadSteps, ChunkSteps, VerifySteps
  <2>4. QED
    BY <1>2, <2>2, <2>3 DEF StageChunk
<1>3. CASE PlaceChunk(t)
  <2>1. req[t].content \in Contents /\ req[t].chunk \in ChunkIdx
    BY <1>0, <1>3 DEF PlaceChunk, ChunkSteps, ChunkRequest
  <2>2. DataOK'
    BY <1>3, <2>1 DEF PlaceChunk, DataOK, history
  <2>3. QED
    BY <1>3, <2>2, ReturnTypes DEF PlaceChunk
<1>4. CASE ChunkSwept(t)
  BY <1>4, ReturnTypes DEF ChunkSwept, DataOK, host, history
<1>5. CASE VerifyLookup(t)
  <2>1. DataOK'
    BY <1>5 DEF VerifyLookup, DataOK, host, history
  <2>2. CASE Return(t)
    BY <2>1, <2>2, ReturnTypes
  <2>3. ASSUME NEW r \in RecordsOf(req[t].content),
               target' = [target EXCEPT ![t] = r.path],
               Goto(t, "stat"), UNCHANGED <<req, pos, good, writer>>
        PROVE  ThreadsOK'
    <3>1. r.path \in Paths
      BY FoundPath
    <3>2. req[t] \in VerifyRequest /\ req[t] \in Request
      BY <1>0, <1>5 DEF VerifyLookup, VerifySteps
    <3>3. req' = [req EXCEPT ![t] = req[t]]
      BY <2>3 DEF ThreadsOK
    <3>4. QED
      BY <2>3, <3>1, <3>2, <3>3, GotoTypes
      DEF ThreadsOK, Steps, LockedSteps, UploadSteps, ChunkSteps, VerifySteps
  <2>4. QED
    BY <1>5, <2>1, <2>2, <2>3 DEF VerifyLookup
<1>6. CASE VerifyStat(t)
  <2>1. req[t] \in VerifyRequest
    BY <1>0, <1>6 DEF VerifyStat, VerifySteps
  <2>2. DataOK'
    BY <1>6, <2>1 DEF VerifyStat, DataOK, host, VerifyRequest
  <2>3. CASE Return(t)
    BY <2>2, <2>3, ReturnTypes
  <2>4. CASE Goto(t, "hash") /\ UNCHANGED <<req, target, pos, good, writer>>
    BY <1>6, <2>1, <2>2, <2>4, GoOnTypes
    DEF VerifyStat, ThreadsOK, StepFits, Steps, LockedSteps, UploadSteps, ChunkSteps, VerifySteps
  <2>5. QED
    BY <1>6, <2>3, <2>4 DEF VerifyStat
<1>7. CASE VerifyHash(t)
  BY <1>0, <1>7, ReturnTypes DEF VerifyHash, DataOK, host, VerifySteps, VerifyRequest
<1>8. QED
  BY <1>1, <1>2, <1>3, <1>4, <1>5, <1>6, <1>7 DEF FreeStep

\* The manifest listing, a crash and stuttering keep the types.
LEMMA OtherStepTypes ==
  ASSUME TypeOK,
         (\E t \in Threads : AcquireWriteLock(t)) \/ Manifest \/ CrashRestart \/ UNCHANGED vars
  PROVE  TypeOK'
<1> USE DEF TypeOK
<1>1. ASSUME NEW t \in Threads, AcquireWriteLock(t) PROVE TypeOK'
  <2>1. req[t] \in UploadRequest
    BY <1>1 DEF AcquireWriteLock, ThreadsOK, StepFits, UploadSteps
  <2>2. ThreadsOK'
    BY <1>1, <2>1, GoOnTypes
    DEF AcquireWriteLock, ThreadsOK, Steps, LockedSteps, UploadSteps, ChunkSteps, VerifySteps
  <2>3. QED
    BY <1>1, <2>2 DEF AcquireWriteLock, DataOK, host, history
<1>2. CASE Manifest
  BY <1>2 DEF Manifest, DataOK, ThreadsOK, StepFits, host
<1>3. CASE CrashRestart
  <2>1. DataOK'
    <3>1. TempsInLibrary \subseteq {"upload", "assembling"}
      BY DEF TempsInLibrary
    <3>2. crashes' \in 0 .. MaxCrashes
      BY <1>3, BoundsAssumption DEF CrashRestart, CrashReset, DataOK
    <3>3. QED
      BY <1>3, <3>1, <3>2 DEF CrashRestart, CrashReset, DataOK, history
  <2>2. ThreadsOK'
    BY <1>3, BoundsAssumption
    DEF CrashRestart, CrashReset, ThreadsOK, StepFits, Steps, LockedSteps, UploadSteps,
        ChunkSteps, VerifySteps
  <2>3. QED
    BY <2>1, <2>2
<1>4. CASE UNCHANGED vars
  BY <1>4 DEF vars, DataOK, ThreadsOK, StepFits, host, history
<1>5. QED
  BY <1>1, <1>2, <1>3, <1>4

\* Every step keeps the types.
LEMMA StepTypeOK == TypeOK /\ [Next]_vars => TypeOK'
  BY ArriveTypes, LockedStepTypes, FreeStepTypes, OtherStepTypes DEF Next

\* The variables always have their types, and a thread's request and path
\* always fit the step it is at.
THEOREM TypeCorrect == Spec => []TypeOK
  BY InitTypeOK, StepTypeOK, PTL DEF Spec

(***************************************************************************)
(* Safety.                                                                 *)
(***************************************************************************)
FilesGrow == \A p \in Paths : files[p] # None => files'[p] = files[p]

\* A fresh data directory satisfies the inductive invariant.
LEMMA InitStoreInv == Init => StoreInv
  BY InitTypeOK
  DEF Init, StoreInv, ThreadInv, LockedSteps, DataInv, RecordsSound, OneFilePerHash,
      AckedSurvives, ConfirmedStaysHeld, Past

\* What holds of a thread goes on holding through another thread's step, which
\* changes files or index only with the lock and never loses a file.
LEMMA OthersKeep ==
  ASSUME StoreInv, NEW t \in Threads, NEW u \in Threads, u # t,
         pc'[u] = pc[u] \/ (pc[u] = "staging" /\ pc'[u] = "swept"),
         req'[u] = req[u], target'[u] = target[u], good'[u] = good[u],
         writer' = writer \/ writer \in {t, None},
         FilesGrow,
         UNCHANGED <<files, index, clock>> \/ writer = t,
         \A a \in Assets : manifest[a] # None => manifest'[a] # None
  PROVE  ThreadInv(u)'
<1> USE DEF ThreadInv
<1>0. ThreadInv(u) /\ StepFits(u) /\ pc[u] \in Steps
  BY DEF StoreInv, TypeOK, ThreadsOK
<1>1. CASE pc[u] \in LockedSteps
  <2>1. UNCHANGED <<files, index, clock>> /\ writer' = u /\ pc'[u] = pc[u]
    BY <1>0, <1>1, NoneAssumption DEF LockedSteps
  <2>2. pc[u] = "sweep" => req[u] \in UploadRequest
    BY <1>0 DEF StepFits, UploadSteps, LockedSteps
  <2>3. pc[u] = "sweep" => manifest'[req[u].asset] # None
    BY <1>0, <2>2 DEF UploadRequest
  <2>4. files' = files /\ index' = index /\ writer' = u /\ pc'[u] = pc[u]
    BY <2>1
  <2>5. Held(req[u].content)' <=> Held(req[u].content)
    BY <2>4 DEF Held
  <2>6. CASE pc[u] = "sweep"
    BY <1>0, <2>3, <2>4, <2>5, <2>6
  <2>7. CASE pc[u] = "index"
    BY <1>0, <2>4, <2>7
  <2>8. CASE pc[u] \in {"find", "write", "read", "rename"}
    BY <1>0, <2>1, <2>4, <2>8 DEF Past
  <2>9. QED
    BY <1>1, <2>6, <2>7, <2>8 DEF LockedSteps
<1>2. CASE pc[u] = "reply"
  <2>1. req[u] \in UploadRequest
    BY <1>0, <1>2 DEF StepFits, UploadSteps
  <2>2. Held(req[u].content)' /\ manifest'[req[u].asset] # None
    BY <1>0, <1>2, <2>1, NoneAssumption DEF UploadRequest, Held, FilesGrow
  <2>3. QED
    BY <1>0, <1>2, <2>2 DEF LockedSteps
<1>3. CASE pc[u] \in {"stat", "hash"}
  <2>1. req[u] \in VerifyRequest /\ target[u] \in Paths
    BY <1>0, <1>3 DEF StepFits, VerifySteps
  <2>2. files'[target[u]] = req[u].content
    BY <1>0, <1>3, <2>1, NoneAssumption DEF VerifyRequest, FilesGrow
  <2>3. QED
    BY <1>0, <1>3, <2>2 DEF LockedSteps
<1>4. CASE pc[u] \in {"idle", "lock", "stage", "staging", "swept", "lookup"}
  BY <1>0, <1>4 DEF LockedSteps
<1>5. QED
  BY <1>0, <1>1, <1>2, <1>3, <1>4 DEF Steps, LockedSteps

\* A step that leaves files, index and manifest alone and confirms or
\* acknowledges nothing keeps the data invariant.
LEMMA DataKept ==
  ASSUME TypeOK, TypeOK', clock <= clock', DataInv,
         UNCHANGED <<files, index, manifest, acked, confirmed>>
  PROVE  DataInv'
  BY DEF TypeOK, DataOK, Past, DataInv, RecordsSound, OneFilePerHash, AckedSurvives, ConfirmedStaysHeld

\* A thread whose handler has returned promises nothing.
LEMMA ReturnKeeps ==
  ASSUME TypeOK, NEW t \in Threads, Return(t)
  PROVE  /\ ThreadInv(t)'
         /\ \A u \in Threads : u # t =>
              /\ pc'[u] = pc[u] /\ req'[u] = req[u]
              /\ target'[u] = target[u] /\ good'[u] = good[u]
         /\ writer' = writer \/ writer \in {t, None}
  BY DEF Return, Goto, ThreadInv, TypeOK, ThreadsOK, LockedSteps

\* The locals of every thread but t are what they were, and the lock is held by
\* whom it was, or t took or dropped it.
OnlyMoves(t) ==
  /\ \A u \in Threads : u # t =>
       /\ pc'[u] = pc[u] \/ (pc[u] = "staging" /\ pc'[u] = "swept")
       /\ req'[u] = req[u] /\ target'[u] = target[u] /\ good'[u] = good[u]
  /\ writer' = writer \/ writer \in {t, None}

\* Goto moves one thread.
LEMMA GotoMoves ==
  ASSUME TypeOK, NEW t \in Threads, NEW s, Goto(t, s), req' = req,
         \A u \in Threads : u # t => target'[u] = target[u] /\ good'[u] = good[u],
         writer' = writer \/ writer \in {t, None}
  PROVE  OnlyMoves(t) /\ pc'[t] = s
  BY DEF Goto, OnlyMoves, TypeOK, ThreadsOK

\* Return moves one thread, and frees the lock only if it held it.
LEMMA ReturnMoves ==
  ASSUME TypeOK, NEW t \in Threads, Return(t)
  PROVE  OnlyMoves(t) /\ ThreadInv(t)'
  BY ReturnKeeps DEF OnlyMoves

\* A step of t that touches nothing but t's locals.
LEMMA QuietStep ==
  ASSUME StoreInv, TypeOK', NEW t \in Threads, OnlyMoves(t), ThreadInv(t)',
         UNCHANGED <<files, index, manifest, clock, acked, confirmed>>
  PROVE  StoreInv'
<1>1. ASSUME NEW u \in Threads, u # t PROVE ThreadInv(u)'
  BY <1>1, OthersKeep DEF OnlyMoves, FilesGrow
<1>2. DataInv'
  BY DataKept, BoundsAssumption DEF StoreInv, TypeOK, DataOK
<1>3. QED
  BY <1>1, <1>2 DEF StoreInv

\* A request that arrives has found nothing yet.
LEMMA ReceiveSafe ==
  ASSUME StoreInv, TypeOK', NEW t \in Threads, NEW r, NEW s \in {"lock", "stage", "lookup"},
         Receive(t, r, s)
  PROVE  StoreInv'
<1>1. OnlyMoves(t)
  BY DEF Receive, Goto, OnlyMoves, StoreInv, TypeOK, ThreadsOK
<1>2. ThreadInv(t)'
  BY DEF Receive, Goto, ThreadInv, StoreInv, TypeOK, ThreadsOK, LockedSteps
<1>3. QED
  BY <1>1, <1>2, QuietStep DEF Receive, host, history

\* No arrival breaks the inductive invariant.
LEMMA ArriveSafe ==
  ASSUME StoreInv, TypeOK', NEW t \in Threads, Arrive(t)
  PROVE  StoreInv'
  BY ReceiveSafe DEF Arrive, ReceiveUpload, ReceiveChunk, ReceiveVerify

\* store takes the lock only when nobody has it.
LEMMA AcquireSafe ==
  ASSUME StoreInv, TypeOK', NEW t \in Threads, AcquireWriteLock(t)
  PROVE  StoreInv'
<1>1. OnlyMoves(t) /\ pc'[t] = "find"
  BY GotoMoves DEF AcquireWriteLock, StoreInv
<1>2. ThreadInv(t)'
  BY <1>1 DEF AcquireWriteLock, ThreadInv, StoreInv, LockedSteps
<1>3. QED
  BY <1>1, <1>2, QuietStep DEF AcquireWriteLock, host, history

\* De-duplication adds a record that points at the bytes it found.
LEMMA ReuseSafe ==
  ASSUME StoreInv, TypeOK', NEW t \in Threads, ReuseStoredCopy(t)
  PROVE  StoreInv'
<1>1. PICK r \in RecordsOf(req[t].content) :
        files[r.path] # None /\ target' = [target EXCEPT ![t] = r.path]
  BY DEF ReuseStoredCopy
<1>2. target'[t] = r.path /\ \A u \in Threads : u # t => target'[u] = target[u]
  BY <1>1 DEF StoreInv, TypeOK, ThreadsOK
<1>3. OnlyMoves(t) /\ pc'[t] = "index"
  BY <1>2, GotoMoves DEF ReuseStoredCopy, StoreInv
<1>4. files[r.path] = req[t].content
  BY <1>1, FoundPath DEF StoreInv, DataInv, RecordsSound
<1>5. \A a \in Assets : index[a] # None /\ index[a].sha = req[t].content
        => index[a].path = r.path
  BY <1>1, FoundPath DEF StoreInv, DataInv, OneFilePerHash
<1>6. ThreadInv(t)'
  BY <1>2, <1>3, <1>4, <1>5 DEF ReuseStoredCopy, ThreadInv, StoreInv, LockedSteps, host
<1>7. QED
  BY <1>3, <1>6, QuietStep DEF ReuseStoredCopy, host, history

\* No record has the hash: a record that had it would have its file.
LEMMA NoStoredSafe ==
  ASSUME StoreInv, TypeOK', NEW t \in Threads, NoStoredCopy(t)
  PROVE  StoreInv'
<1>1. OnlyMoves(t) /\ pc'[t] \in {"write", "read"}
  BY GotoMoves DEF NoStoredCopy, StoreInv
<1>2. req[t].content \in Contents
  BY DEF NoStoredCopy, StoreInv, TypeOK, ThreadsOK, StepFits, UploadSteps, LockedSteps, UploadRequest
<1>3. RecordsOf(req[t].content) = {}
  BY <1>2, FoundPath, NoneAssumption DEF NoStoredCopy, StoreInv, DataInv, RecordsSound
<1>4. \A a \in Assets : index[a] # None => index[a].sha # req[t].content
  BY <1>3 DEF RecordsOf
<1>5. good[t] /\ writer = t
  BY DEF NoStoredCopy, StoreInv, ThreadInv, LockedSteps
<1>6. ThreadInv(t)'
  BY <1>1, <1>4, <1>5 DEF NoStoredCopy, ThreadInv, LockedSteps
<1>7. QED
  BY <1>1, <1>6, QuietStep DEF NoStoredCopy, host, history

\* The name chosen under the lock is free, and no other thread has it.
LEMMA ChooseNameSafe ==
  ASSUME StoreInv, TypeOK', NEW t \in Threads, WriteTemp(t) \/ Assembled(t)
  PROVE  StoreInv'
<1>1. /\ pc[t] \in {"write", "read"} /\ good[t] /\ Goto(t, "rename") /\ ChooseName(t)
      /\ UNCHANGED <<files, manifest, staged, strays, index, writer, req, pos, good,
                     crashes, history>>
  BY DEF WriteTemp, Assembled, StoreInv, ThreadInv
<1>2. req[t].name \in Names /\ req[t].content \in Contents
  BY <1>1 DEF StoreInv, TypeOK, ThreadsOK, StepFits, UploadSteps, LockedSteps, UploadRequest
<1>3. PICK p \in Paths : /\ files[p] = None /\ target' = [target EXCEPT ![t] = p]
                        /\ clock <= clock'
                        /\ Past(p, clock')
  BY <1>1, <1>2, ChosenName DEF StoreInv, DataInv, StampsPast
<1>4. target'[t] = p /\ \A u \in Threads : u # t => target'[u] = target[u]
  BY <1>3 DEF StoreInv, TypeOK, ThreadsOK
<1>5. OnlyMoves(t) /\ pc'[t] = "rename"
  BY <1>1, <1>4, GotoMoves DEF StoreInv
<1>6. writer = t /\ \A a \in Assets : index[a] # None => index[a].sha # req[t].content
  BY <1>1 DEF StoreInv, ThreadInv, LockedSteps
<1>7. ThreadInv(t)'
  <2>1. Past(target[t], clock)'
    BY <1>3, <1>4 DEF Past
  <2>. QED
    BY <1>1, <1>3, <1>4, <1>5, <1>6, <2>1 DEF ThreadInv
<1>8. ASSUME NEW u \in Threads, u # t PROVE ThreadInv(u)'
  BY <1>1, <1>5, <1>6, <1>8, OthersKeep DEF OnlyMoves, FilesGrow
<1>9. DataInv'
  BY <1>1, <1>3, DataKept DEF StoreInv, history
<1>. QED
  BY <1>7, <1>8, <1>9 DEF StoreInv

\* Assembly compares what it has read so far with the content's hash.
LEMMA ReadChunkSafe ==
  ASSUME StoreInv, TypeOK', NEW t \in Threads, ReadChunk(t)
  PROVE  StoreInv'
<1>1. OnlyMoves(t)
  BY DEF ReadChunk, OnlyMoves, StoreInv, TypeOK, ThreadsOK
<1>2. ThreadInv(t)'
  BY DEF ReadChunk, ThreadInv, StoreInv, LockedSteps
<1>3. QED
  BY <1>1, <1>2, QuietStep DEF ReadChunk, host, history

\* Every handler that gives up without having changed an index or a file.
LEMMA GiveUpSafe ==
  ASSUME StoreInv, TypeOK', NEW t \in Threads, Return(t),
         UNCHANGED <<files, index, manifest, clock, acked, confirmed>>
  PROVE  StoreInv'
  BY ReturnMoves, QuietStep DEF StoreInv

\* The rename creates a file: the name was free when the thread chose it and
\* the lock has kept it so.
LEMMA PlaceFileSafe ==
  ASSUME StoreInv, TypeOK', NEW t \in Threads, PlaceFile(t)
  PROVE  StoreInv' /\ FilesGrow
<1>1. /\ writer = t /\ good[t] /\ files[target[t]] = None /\ Past(target[t], clock)
      /\ \A a \in Assets : index[a] # None => index[a].sha # req[t].content
  BY DEF PlaceFile, StoreInv, ThreadInv, LockedSteps
<1>2. req[t].content \in Contents /\ target[t] \in Paths
  BY DEF PlaceFile, StoreInv, TypeOK, ThreadsOK, StepFits, UploadSteps, LockedSteps, UploadRequest
<1>3. files' = [files EXCEPT ![target[t]] = req[t].content]
  BY <1>1 DEF PlaceFile
<1>4. FilesGrow
  BY <1>1, <1>3 DEF FilesGrow, StoreInv, TypeOK, DataOK
<1>5. OnlyMoves(t) /\ pc'[t] = "index"
  BY GotoMoves DEF PlaceFile, StoreInv
<1>6. ThreadInv(t)'
  BY <1>1, <1>2, <1>3, <1>5 DEF PlaceFile, ThreadInv, StoreInv, TypeOK, DataOK
<1>7. ASSUME NEW u \in Threads, u # t PROVE ThreadInv(u)'
  BY <1>1, <1>4, <1>5, <1>7, OthersKeep DEF OnlyMoves, PlaceFile
<1>8. DataInv'
  <2>1. \A c \in Contents : Held(c) => Held(c)'
    BY <1>4, NoneAssumption DEF Held, FilesGrow
  <2>2. AckedSurvives' /\ ConfirmedStaysHeld'
    BY <2>1 DEF AckedSurvives, ConfirmedStaysHeld, Held, StoreInv, DataInv, PlaceFile, history,
                TypeOK, DataOK
  <2>3. RecordsSound'
    <3>1. ASSUME NEW r \in Record, files[r.path] = r.sha
          PROVE  files'[r.path] = r.sha
      BY <1>4, <3>1, NoneAssumption DEF Record, FilesGrow
    <3>2. QED
      BY <3>1 DEF RecordsSound, StoreInv, DataInv, PlaceFile, TypeOK, DataOK
  <2>4. (\A q \in Paths : files[q] # None => Past(q, clock))'
    BY <1>1, <1>2, <1>3 DEF Past, PlaceFile, StoreInv, DataInv, TypeOK, DataOK
  <2>5. QED
    BY <2>2, <2>3, <2>4 DEF DataInv, OneFilePerHash, StoreInv, PlaceFile
<1>9. QED
  BY <1>4, <1>6, <1>7, <1>8 DEF StoreInv

\* What inserting the record does to the index: the record is sound and every
\* other record of the hash has its path.
LEMMA InsertSound ==
  ASSUME StoreInv, NEW t \in Threads, pc[t] = "index", InsertRecord(t), UNCHANGED files
  PROVE  /\ req[t].asset \in Assets /\ req[t].content \in Contents
         /\ target[t] \in Paths /\ files[target[t]] = req[t].content
         /\ writer = t
         /\ \A a \in Assets : index[a] # None => index'[a] # None
         /\ index'[req[t].asset] # None
         /\ \A a \in Assets : index'[a] # None => files[index'[a].path] = index'[a].sha
         /\ OneFilePerHash(index')
<1>1. /\ req[t].asset \in Assets /\ req[t].content \in Contents /\ target[t] \in Paths
  BY DEF StoreInv, TypeOK, ThreadsOK, StepFits, UploadSteps, LockedSteps, UploadRequest
<1>2. /\ files[target[t]] = req[t].content /\ writer = t
      /\ \A a \in Assets : index[a] # None /\ index[a].sha = req[t].content
           => index[a].path = target[t]
  BY DEF StoreInv, ThreadInv, LockedSteps
<1> DEFINE rec == [sha |-> req[t].content, path |-> target[t]]
<1>3. rec # None
  BY <1>1, NoneAssumption DEF Record
<1>4. \A a \in Assets : index'[a] = IF a = req[t].asset THEN rec ELSE index[a]
  BY DEF InsertRecord, StoreInv, TypeOK, DataOK
<1>5. rec.sha = req[t].content /\ rec.path = target[t]
  OBVIOUS
<1> HIDE DEF rec
<1>6. \A a \in Assets : index'[a] # None => files[index'[a].path] = index'[a].sha
  BY <1>2, <1>4, <1>5 DEF StoreInv, DataInv, RecordsSound
<1>7. OneFilePerHash(index')
  BY <1>2, <1>4, <1>5 DEF StoreInv, DataInv, OneFilePerHash
<1>8. QED
  BY <1>1, <1>2, <1>3, <1>4, <1>6, <1>7

\* Other threads under an index change by the holder of the lock.
LEMMA InsertOthers ==
  ASSUME StoreInv, NEW t \in Threads, writer = t, OnlyMoves(t), UNCHANGED files,
         \A a \in Assets : manifest[a] # None => manifest'[a] # None,
         NEW u \in Threads, u # t
  PROVE  ThreadInv(u)'
  BY OthersKeep DEF OnlyMoves, FilesGrow

\* The index update and the manifest write bring disk and memory together.
LEMMA PersistSafe ==
  ASSUME StoreInv, TypeOK', NEW t \in Threads, IndexAndPersist(t)
  PROVE  StoreInv'
<1>1. /\ req[t].asset \in Assets /\ req[t].content \in Contents
      /\ target[t] \in Paths /\ files[target[t]] = req[t].content /\ writer = t
      /\ \A a \in Assets : index[a] # None => index'[a] # None
      /\ index'[req[t].asset] # None
      /\ \A a \in Assets : index'[a] # None => files[index'[a].path] = index'[a].sha
      /\ OneFilePerHash(index')
  BY InsertSound DEF IndexAndPersist
<1>2. \A a \in Assets : manifest[a] # None => manifest'[a] # None
  BY <1>1 DEF IndexAndPersist, StoreInv, DataInv
<1>3. /\ OnlyMoves(t)
      /\ pc'[t] = "reply" \/ (pc'[t] = "sweep" /\ writer' = t)
  BY <1>1, GotoMoves DEF IndexAndPersist, StoreInv
<1>4. ASSUME NEW u \in Threads, u # t PROVE ThreadInv(u)'
  BY <1>1, <1>2, <1>3, <1>4, InsertOthers DEF IndexAndPersist
<1>5. ThreadInv(t)'
  <2>1. Held(req[t].content)'
    BY <1>1 DEF Held, IndexAndPersist
  <2>2. good'[t]
    BY DEF IndexAndPersist, StoreInv, ThreadInv
  <2>3. QED
    BY <1>1, <1>3, <2>1, <2>2 DEF IndexAndPersist, ThreadInv, LockedSteps
<1>6. DataInv'
  <2>1. AckedSurvives'
    BY <1>2 DEF AckedSurvives, StoreInv, DataInv, TypeOK, DataOK, IndexAndPersist, history
  <2>2. QED
    BY <1>1, <2>1 DEF DataInv, RecordsSound, OneFilePerHash, ConfirmedStaysHeld, Past,
                      StoreInv, IndexAndPersist, history
<1>7. QED
  BY <1>4, <1>5, <1>6 DEF StoreInv

\* A failed manifest write leaves a record that is sound but not durable.
LEMMA PersistFailsSafe ==
  ASSUME StoreInv, TypeOK', NEW t \in Threads, PersistFails(t)
  PROVE  StoreInv'
<1>1. /\ writer = t
      /\ \A a \in Assets : index[a] # None => index'[a] # None
      /\ \A a \in Assets : index'[a] # None => files[index'[a].path] = index'[a].sha
      /\ OneFilePerHash(index')
  BY InsertSound DEF PersistFails, host
<1>2. OnlyMoves(t) /\ ThreadInv(t)'
  BY ReturnMoves DEF PersistFails, StoreInv
<1>3. ASSUME NEW u \in Threads, u # t PROVE ThreadInv(u)'
  BY <1>1, <1>2, <1>3, InsertOthers DEF PersistFails, host
<1>4. DataInv'
  BY <1>1 DEF DataInv, RecordsSound, OneFilePerHash, AckedSurvives, ConfirmedStaysHeld, Past,
              StoreInv, PersistFails, host, history
<1>5. QED
  BY <1>2, <1>3, <1>4 DEF StoreInv

\* Sweeping the staging directory touches no media file.
LEMMA SweepSafe ==
  ASSUME StoreInv, TypeOK', NEW t \in Threads, SweepStaging(t)
  PROVE  StoreInv'
<1>1. writer = t /\ Held(req[t].content) /\ manifest[req[t].asset] # None /\ good[t]
  BY DEF SweepStaging, StoreInv, ThreadInv, LockedSteps
<1>2. OnlyMoves(t) /\ pc'[t] = "reply"
  BY <1>1 DEF SweepStaging, Goto, OnlyMoves, StoreInv, TypeOK, ThreadsOK
<1>3. ThreadInv(t)'
  BY <1>1, <1>2 DEF SweepStaging, ThreadInv, Held, LockedSteps
<1>4. QED
  BY <1>2, <1>3, QuietStep DEF SweepStaging, history

\* The 201 is sent for a record that is on disk.
LEMMA ReplySafe ==
  ASSUME StoreInv, TypeOK', NEW t \in Threads, Reply(t)
  PROVE  StoreInv'
<1>1. Held(req[t].content) /\ manifest[req[t].asset] # None
  BY DEF Reply, StoreInv, ThreadInv
<1>2. OnlyMoves(t) /\ ThreadInv(t)'
  BY ReturnMoves DEF Reply, StoreInv
<1>3. ASSUME NEW u \in Threads, u # t PROVE ThreadInv(u)'
  BY <1>2, <1>3, OthersKeep DEF OnlyMoves, Reply, host, FilesGrow
<1>4. AckedSurvives'
  <2>1. ASSUME NEW ac \in acked' PROVE Held(ac[2]) /\ manifest[ac[1]] # None
    BY <1>1, <2>1 DEF Reply, StoreInv, DataInv, AckedSurvives, Held
  <2>2. QED
    BY <2>1 DEF AckedSurvives, Held, Reply, host
<1>5. DataInv'
  BY <1>4 DEF DataInv, RecordsSound, OneFilePerHash, ConfirmedStaysHeld, Past, StoreInv,
              Reply, host
<1>6. QED
  BY <1>2, <1>3, <1>5 DEF StoreInv

\* verify answers: the file looked up has been found to hold the content.
LEMMA ConfirmSafe ==
  ASSUME StoreInv, TypeOK', NEW t \in Threads, pc[t] \in {"stat", "hash"}, Return(t),
         confirmed' \subseteq confirmed \cup {req[t].content},
         UNCHANGED <<host, index, crashes, acked, listed>>
  PROVE  StoreInv'
<1>1. files[target[t]] = req[t].content /\ target[t] \in Paths
  BY DEF StoreInv, ThreadInv, TypeOK, ThreadsOK, StepFits
<1>2. OnlyMoves(t) /\ ThreadInv(t)'
  BY ReturnMoves DEF StoreInv
<1>3. ASSUME NEW u \in Threads, u # t PROVE ThreadInv(u)'
  BY <1>2, <1>3, OthersKeep DEF OnlyMoves, host, FilesGrow
<1>4. ConfirmedStaysHeld'
  BY <1>1 DEF ConfirmedStaysHeld, StoreInv, DataInv, host
<1>5. DataInv'
  BY <1>4 DEF DataInv, RecordsSound, OneFilePerHash, AckedSurvives, Past, StoreInv, host
<1>6. QED
  BY <1>2, <1>3, <1>5 DEF StoreInv

\* Each step that needs no lock keeps the inductive invariant.
LEMMA FreeStepSafe ==
  ASSUME StoreInv, TypeOK', NEW t \in Threads, FreeStep(t)
  PROVE  StoreInv'
<1>1. CASE Reply(t)
  BY <1>1, ReplySafe
<1>2. CASE StageChunk(t)
  <2>1. CASE Return(t)
    BY <1>2, <2>1, GiveUpSafe DEF StageChunk, host, history
  <2>2. CASE Goto(t, "staging") /\ UNCHANGED <<req, target, pos, good, writer>>
    <3>1. OnlyMoves(t) /\ pc'[t] = "staging"
      BY <2>2, GotoMoves DEF StoreInv
    <3>2. ThreadInv(t)'
      BY <1>2, <2>2, <3>1 DEF StageChunk, ThreadInv, StoreInv, LockedSteps
    <3>3. QED
      BY <1>2, <3>1, <3>2, QuietStep DEF StageChunk, host, history
  <2>3. QED
    BY <1>2, <2>1, <2>2 DEF StageChunk
<1>3. CASE PlaceChunk(t)
  BY <1>3, GiveUpSafe DEF PlaceChunk, history
<1>4. CASE ChunkSwept(t)
  BY <1>4, GiveUpSafe DEF ChunkSwept, host, history
<1>5. CASE VerifyLookup(t)
  <2>1. CASE Return(t)
    BY <1>5, <2>1, GiveUpSafe DEF VerifyLookup, host, history
  <2>2. ASSUME NEW r \in RecordsOf(req[t].content),
               target' = [target EXCEPT ![t] = r.path],
               Goto(t, "stat"), UNCHANGED <<req, pos, good, writer>>
        PROVE  StoreInv'
    <3>1. target'[t] = r.path /\ \A u \in Threads : u # t => target'[u] = target[u]
      BY <2>2 DEF StoreInv, TypeOK, ThreadsOK
    <3>2. OnlyMoves(t) /\ pc'[t] = "stat"
      BY <2>2, <3>1, GotoMoves DEF StoreInv
    <3>3. files[r.path] = req[t].content
      BY FoundPath DEF StoreInv, DataInv, RecordsSound
    <3>4. ThreadInv(t)'
      BY <1>5, <2>2, <3>1, <3>2, <3>3 DEF VerifyLookup, ThreadInv, StoreInv, LockedSteps, host
    <3>5. QED
      BY <1>5, <3>2, <3>4, QuietStep DEF VerifyLookup, host, history
  <2>3. QED
    BY <1>5, <2>1, <2>2 DEF VerifyLookup
<1>6. CASE VerifyStat(t)
  <2>1. CASE Return(t)
    BY <1>6, <2>1, ConfirmSafe DEF VerifyStat
  <2>2. CASE Goto(t, "hash") /\ UNCHANGED <<req, target, pos, good, writer, confirmed>>
    <3>1. OnlyMoves(t) /\ pc'[t] = "hash"
      BY <2>2, GotoMoves DEF StoreInv
    <3>2. ThreadInv(t)'
      BY <1>6, <2>2, <3>1 DEF VerifyStat, ThreadInv, StoreInv, LockedSteps, host
    <3>3. QED
      BY <1>6, <2>2, <3>1, <3>2, QuietStep DEF VerifyStat, host
  <2>3. QED
    BY <1>6, <2>1, <2>2 DEF VerifyStat
<1>7. CASE VerifyHash(t)
  BY <1>7, ConfirmSafe DEF VerifyHash
<1>8. QED
  BY <1>1, <1>2, <1>3, <1>4, <1>5, <1>6, <1>7 DEF FreeStep

\* Each step under the write lock keeps the inductive invariant.
LEMMA LockedStepSafe ==
  ASSUME StoreInv, TypeOK', NEW t \in Threads, LockedStep(t)
  PROVE  StoreInv'
<1>1. CASE ReuseStoredCopy(t) \/ NoStoredCopy(t) \/ WriteTemp(t) \/ Assembled(t) \/ ReadChunk(t)
  BY <1>1, ReuseSafe, NoStoredSafe, ChooseNameSafe, ReadChunkSafe
<1>2. CASE PlaceFile(t) \/ IndexAndPersist(t) \/ PersistFails(t) \/ SweepStaging(t)
  BY <1>2, PlaceFileSafe, PersistSafe, PersistFailsSafe, SweepSafe
<1>3. CASE WriteTempFails(t) \/ AssemblyFails(t) \/ PlaceFileFails(t)
  BY <1>3, GiveUpSafe DEF WriteTempFails, AssemblyFails, PlaceFileFails, host, history
<1>4. QED
  BY <1>1, <1>2, <1>3 DEF LockedStep

\* After a crash memory is the manifest, whose records are as sound.
LEMMA CrashSafe ==
  ASSUME StoreInv, TypeOK', CrashRestart
  PROVE  StoreInv'
<1>1. ASSUME NEW t \in Threads PROVE ThreadInv(t)'
  BY DEF CrashRestart, CrashReset, ThreadInv, LockedSteps
<1>2. DataInv'
  BY DEF CrashRestart, CrashReset, StoreInv, DataInv, RecordsSound, OneFilePerHash,
         AckedSurvives, ConfirmedStaysHeld, Past, history
<1>3. QED
  BY <1>1, <1>2 DEF StoreInv

\* The manifest listing, a crash and stuttering keep the inductive invariant.
LEMMA IdleSafe ==
  ASSUME StoreInv, TypeOK', Manifest \/ UNCHANGED vars
  PROVE  StoreInv'
<1>1. UNCHANGED <<files, index, manifest, clock, acked, confirmed, writer, pc, req, target, good>>
  BY DEF Manifest, vars, host, history
<1>2. ASSUME NEW t \in Threads PROVE ThreadInv(t)'
  BY <1>1 DEF StoreInv, ThreadInv, Held, Past
<1>3. QED
  BY <1>1, <1>2, DataKept, BoundsAssumption DEF StoreInv, TypeOK, DataOK

\* Every step keeps the inductive invariant.
LEMMA StepStoreInv == StoreInv /\ [Next]_vars => StoreInv'
<1>1. StoreInv /\ [Next]_vars => TypeOK'
  BY StepTypeOK DEF StoreInv
<1>2. QED
  BY <1>1, ArriveSafe, AcquireSafe, LockedStepSafe, FreeStepSafe, CrashSafe, IdleSafe DEF Next

\* The inductive invariant holds of every behaviour.
THEOREM InductiveInvariant == Spec => []StoreInv
  BY InitStoreInv, StepStoreInv, PTL DEF Spec

\* Every record, in memory or on disk, points at a file with its bytes.
THEOREM RecordsAreSound == Spec => []RecordsSound
<1>1. StoreInv => RecordsSound
  BY DEF StoreInv, DataInv
<1>2. QED
  BY <1>1, InductiveInvariant, PTL

\* An upload answered 201 survives every crash that follows.
THEOREM AckedUploadsSurvive == Spec => []AckedSurvives
<1>1. StoreInv => AckedSurvives
  BY DEF StoreInv, DataInv
<1>2. QED
  BY <1>1, InductiveInvariant, PTL

\* What verify has confirmed, and the phone may have deleted, stays held.
THEOREM ConfirmedIsKept == Spec => []ConfirmedStaysHeld
<1>1. StoreInv => ConfirmedStaysHeld
  BY DEF StoreInv, DataInv
<1>2. QED
  BY <1>1, InductiveInvariant, PTL

\* Records of one hash share one file.
THEOREM OneFile == Spec => []SameContentOneFile
<1>1. StoreInv => SameContentOneFile
  BY DEF StoreInv, DataInv, OneFilePerHash, SameContentOneFile
<1>2. QED
  BY <1>1, InductiveInvariant, PTL

(***************************************************************************)
(* What a step may never do, and the abstract library.                     *)
(***************************************************************************)
\* A thread touches a media file only with its rename.
LEMMA ThreadLeavesFiles ==
  ASSUME NEW t \in Threads,
         \/ Arrive(t) \/ AcquireWriteLock(t) \/ FreeStep(t)
         \/ LockedStep(t) /\ ~PlaceFile(t)
  PROVE  UNCHANGED files
<1>1. CASE LockedStep(t) /\ ~PlaceFile(t)
  BY <1>1
  DEF LockedStep, ReuseStoredCopy, NoStoredCopy, WriteTemp, WriteTempFails, ReadChunk,
      AssemblyFails, Assembled, PlaceFileFails, IndexAndPersist, PersistFails,
      SweepStaging, host
<1>2. CASE FreeStep(t) \/ Arrive(t) \/ AcquireWriteLock(t)
  BY <1>2
  DEF FreeStep, Reply, StageChunk, PlaceChunk, ChunkSwept, VerifyLookup, VerifyStat,
      VerifyHash, Arrive, ReceiveUpload, ReceiveChunk, ReceiveVerify, Receive,
      AcquireWriteLock, host
<1>3. QED
  BY <1>1, <1>2

\* Only the rename touches a media file.
LEMMA OnlyPlaceFileWrites ==
  ASSUME [Next]_vars
  PROVE  UNCHANGED files \/ \E t \in Threads : PlaceFile(t)
<1>1. CASE Manifest \/ CrashRestart \/ UNCHANGED vars
  BY <1>1 DEF Manifest, CrashRestart, CrashReset, vars, host
<1>2. QED
  BY <1>1, ThreadLeavesFiles DEF Next

\* The server never overwrites, changes or removes a media file.
THEOREM NeverOverwrites == Spec => LibraryOnlyGrows
<1>1. StoreInv /\ [Next]_vars => [\A p \in Paths : files[p] # None => files'[p] = files[p]]_files
  <2> SUFFICES ASSUME StoreInv, [Next]_vars, ~UNCHANGED files
               PROVE  FilesGrow
    BY DEF FilesGrow
  <2>1. PICK t \in Threads : PlaceFile(t)
    BY OnlyPlaceFileWrites
  <2>2. TypeOK'
    BY StepTypeOK DEF StoreInv
  <2>3. QED
    BY <2>1, <2>2, PlaceFileSafe
<1>2. QED
  BY <1>1, InductiveInvariant, PTL DEF Spec, LibraryOnlyGrows

Reliable == "persist" \notin Faults

\* Without a failing manifest write, memory and manifest are the same, so what
\* a phone has read in the manifest survives every crash.
THEOREM ListedSurvives ==
  ASSUME Reliable
  PROVE  Spec => []ListedIsDurable
<1> DEFINE Same == index = manifest /\ ListedIsDurable
<1>1. Init => Same
  BY DEF Init, ListedIsDurable
<1>2. StoreInv /\ Same /\ [Next]_vars => Same'
  <2> SUFFICES ASSUME StoreInv, Same, [Next]_vars PROVE Same'
    OBVIOUS
  <2>1. ASSUME NEW t \in Threads, IndexAndPersist(t) PROVE Same'
    <3>1. \A a \in Assets : index[a] # None => index'[a] # None
      BY <2>1, InsertSound DEF IndexAndPersist
    <3>2. QED
      BY <2>1, <3>1 DEF IndexAndPersist, ListedIsDurable, StoreInv, TypeOK, DataOK, history
  <2>2. ASSUME NEW t \in Threads, LockedStep(t), ~IndexAndPersist(t) PROVE Same'
    BY <2>2
    DEF LockedStep, ReuseStoredCopy, NoStoredCopy, WriteTemp, WriteTempFails, ReadChunk,
        AssemblyFails, Assembled, PlaceFile, PlaceFileFails, PersistFails, SweepStaging,
        host, history, ListedIsDurable, Reliable
  <2>3. ASSUME NEW t \in Threads, FreeStep(t) \/ Arrive(t) \/ AcquireWriteLock(t) PROVE Same'
    BY <2>3
    DEF FreeStep, Reply, StageChunk, PlaceChunk, ChunkSwept, VerifyLookup, VerifyStat,
        VerifyHash, Arrive, ReceiveUpload, ReceiveChunk, ReceiveVerify, Receive,
        AcquireWriteLock, host, history, ListedIsDurable
  <2>4. CASE Manifest
    BY <2>4 DEF Manifest, host, ListedIsDurable
  <2>5. CASE CrashRestart \/ UNCHANGED vars
    BY <2>5 DEF CrashRestart, CrashReset, vars, host, history, ListedIsDurable
  <2>6. QED
    BY <2>1, <2>2, <2>3, <2>4, <2>5 DEF Next
<1>3. Same => ListedIsDurable
  OBVIOUS
<1> HIDE DEF Same
<1>4. QED
  BY <1>1, <1>2, <1>3, InductiveInvariant, PTL DEF Spec

\* An empty store is an empty library.
LEMMA InitRefines == Init => Promise!Init
  BY NoneAssumption DEF Init, Promise!Init

\* Every step is a step of the abstract library or leaves it unchanged: the
\* rename keeps a content, a manifest write replaces the catalogue, the reply
\* acknowledges.
LEMMA StepRefines ==
  ASSUME StoreInv, StoreInv', [Next]_vars
  PROVE  [Promise!Next]_(Promise!lvars)
<1>1. ASSUME NEW t \in Threads, PlaceFile(t)
      PROVE  \E c \in Contents : Promise!Keep(c)
  <2>1. req[t].content \in Contents /\ target[t] \in Paths /\ good[t]
    BY <1>1
    DEF PlaceFile, StoreInv, ThreadInv, TypeOK, ThreadsOK, StepFits, UploadSteps, LockedSteps,
        UploadRequest
  <2>2. files' = [files EXCEPT ![target[t]] = req[t].content] /\ FilesGrow
    BY <1>1, <2>1, PlaceFileSafe DEF PlaceFile, StoreInv
  <2>3. \A c \in Contents : Held(c)' <=> Held(c) \/ c = req[t].content
    BY <2>1, <2>2, NoneAssumption DEF Held, FilesGrow, StoreInv, TypeOK, DataOK
  <2>4. Promise!Keep(req[t].content)
    BY <1>1, <2>1, <2>3 DEF Promise!Keep, Held, PlaceFile, history
  <2>5. QED
    BY <2>1, <2>4 DEF Promise!Keep
<1>2. ASSUME NEW t \in Threads, IndexAndPersist(t)
      PROVE  \E new \in [Assets -> Contents \cup {None}] : Promise!Catalogue(new)
  <2> DEFINE next == [a \in Assets |-> IF manifest'[a] = None THEN None ELSE manifest'[a].sha]
  <2>1. \A a \in Assets : manifest'[a] # None =>
          manifest'[a] \in Record /\ Held(manifest'[a].sha)
    BY <1>2 DEF StoreInv, TypeOK, DataOK, DataInv, RecordsSound, Record, Held, IndexAndPersist
  <2>2. next \in [Assets -> Contents \cup {None}]
    BY <2>1 DEF Record
  <2>3. \A a \in Assets : manifest[a] # None => manifest'[a] # None
    BY <1>2, InsertSound DEF IndexAndPersist, StoreInv, DataInv
  <2>4. \A a \in Assets : manifest[a] # None => manifest[a].sha # None
    BY NoneAssumption DEF StoreInv, TypeOK, DataOK, Record
  <2>5. \A a \in Assets : manifest'[a] # None => manifest'[a].sha \in Contents
    BY <2>1 DEF Record
  <2>6. Promise!Catalogue(next)
    BY <1>2, <2>1, <2>3, <2>4, <2>5, NoneAssumption
    DEF Promise!Catalogue, Held, IndexAndPersist, history
  <2>7. QED
    BY <2>2, <2>6 DEF Promise!Catalogue
<1>3. ASSUME NEW t \in Threads, Reply(t)
      PROVE  \E a \in Assets, c \in Contents : Promise!Acknowledge(a, c)
  <2>1. req[t].asset \in Assets /\ req[t].content \in Contents
    BY <1>3 DEF Reply, StoreInv, TypeOK, ThreadsOK, StepFits, UploadSteps, UploadRequest
  <2>2. Held(req[t].content) /\ manifest[req[t].asset] # None
    BY <1>3 DEF Reply, StoreInv, ThreadInv
  <2>3. manifest[req[t].asset].sha # None
    BY <2>1, <2>2, NoneAssumption DEF StoreInv, TypeOK, DataOK, Record
  <2>4. Promise!Acknowledge(req[t].asset, req[t].content)
    BY <1>3, <2>1, <2>2, <2>3 DEF Promise!Acknowledge, Held, Reply, host
  <2>5. QED
    BY <2>1, <2>4
<1>4. ASSUME UNCHANGED <<files, manifest, acked>>
      PROVE  UNCHANGED Promise!lvars
  BY <1>4 DEF Promise!lvars
<1>5. ASSUME NEW t \in Threads, LockedStep(t), ~PlaceFile(t), ~IndexAndPersist(t)
      PROVE  UNCHANGED <<files, manifest, acked>>
  BY <1>5
  DEF LockedStep, ReuseStoredCopy, NoStoredCopy, WriteTemp, WriteTempFails, ReadChunk,
      AssemblyFails, Assembled, PlaceFileFails, PersistFails, SweepStaging, host, history
<1>6. ASSUME NEW t \in Threads, FreeStep(t) \/ Arrive(t) \/ AcquireWriteLock(t), ~Reply(t)
      PROVE  UNCHANGED <<files, manifest, acked>>
  BY <1>6
  DEF FreeStep, StageChunk, PlaceChunk, ChunkSwept, VerifyLookup, VerifyStat,
      VerifyHash, Arrive, ReceiveUpload, ReceiveChunk, ReceiveVerify, Receive,
      AcquireWriteLock, host, history
<1>7. CASE Manifest \/ CrashRestart \/ UNCHANGED vars
  BY <1>4, <1>7 DEF Manifest, CrashRestart, CrashReset, vars, host, history
<1>8. QED
  BY <1>1, <1>2, <1>3, <1>4, <1>5, <1>6, <1>7 DEF Next, Promise!Next

\* The media store implements the abstract library.
THEOREM Refinement == Spec => ImplementsLibrary
  BY InitRefines, StepRefines, InductiveInvariant, PTL DEF Spec, ImplementsLibrary, Promise!Spec

(***************************************************************************)
(* The store beside other programs (MediaStoreShared).                     *)
(*                                                                         *)
(* Records may point at nothing here, so StoreInv is lost.  What is left is    *)
(* the lock: whoever holds it is alone in creating files, and others only  *)
(* take them away, so a name that was free when it was chosen is free when *)
(* the rename comes.                                                       *)
(***************************************************************************)
NameInv ==
  /\ StampsPast
  /\ \A t \in Threads :
       /\ pc[t] \in LockedSteps => writer = t
       /\ pc[t] = "rename" => files[target[t]] = None /\ Past(target[t], clock)

SharedInv == TypeOK /\ NameInv

\* Other threads' names stay free through a step that fills none of them.
LEMMA NamesKept ==
  ASSUME SharedInv, NEW t \in Threads, OnlyMoves(t),
         \A p \in Paths : files[p] = None => files'[p] = None,
         pc'[t] \in LockedSteps => writer' = t,
         clock' = clock \/ writer = t, StampsPast',
         pc'[t] = "rename" => files'[target'[t]] = None /\ Past(target[t], clock)'
  PROVE  NameInv'
<1>1. ASSUME NEW u \in Threads, u # t, pc'[u] \in LockedSteps
      PROVE  pc[u] = pc'[u] /\ writer' = u
  BY <1>1, NoneAssumption DEF OnlyMoves, SharedInv, NameInv, TypeOK, ThreadsOK, LockedSteps
<1>2. ASSUME NEW u \in Threads, u # t, pc'[u] = "rename"
      PROVE  files'[target'[u]] = None /\ Past(target[u], clock)'
  <2>1. pc[u] = "rename" /\ target'[u] = target[u] /\ target[u] \in Paths
    BY <1>1, <1>2 DEF OnlyMoves, SharedInv, TypeOK, ThreadsOK, StepFits, LockedSteps
  <2>2. writer = u /\ clock' = clock
    BY <1>2, <2>1 DEF SharedInv, NameInv, LockedSteps
  <2>. QED
    BY <2>1, <2>2 DEF SharedInv, NameInv, Past
<1>. QED
  BY <1>1, <1>2 DEF NameInv

\* The rename fills the name the holder of the lock has chosen, which no file
\* has and no other thread is about to use.
LEMMA PlaceFileKeepsNames ==
  ASSUME SharedInv, NEW t \in Threads, PlaceFile(t)
  PROVE  NameInv' /\ FilesGrow
<1>1. writer = t /\ files[target[t]] = None /\ Past(target[t], clock) /\ target[t] \in Paths
  BY DEF PlaceFile, SharedInv, NameInv, TypeOK, ThreadsOK, StepFits, LockedSteps
<1>2. FilesGrow
  BY <1>1 DEF PlaceFile, FilesGrow, SharedInv, TypeOK, DataOK
<1>3. /\ pc'[t] = "index" /\ writer' = t
      /\ \A u \in Threads \ {t} : pc'[u] = pc[u] /\ pc[u] \notin LockedSteps
  BY <1>1 DEF PlaceFile, Goto, SharedInv, NameInv, TypeOK, ThreadsOK
<1>4. StampsPast'
  BY <1>1 DEF PlaceFile, StampsPast, Past, SharedInv, NameInv, TypeOK, DataOK
<1>. QED
  BY <1>2, <1>3, <1>4 DEF NameInv, LockedSteps

\* A step that returns, or moves on without the lock, needs no name.
LEMMA LooseStep ==
  ASSUME SharedInv, NEW t \in Threads, OnlyMoves(t), UNCHANGED <<files, clock>>,
         pc'[t] \notin LockedSteps
  PROVE  NameInv'
<1>1. pc'[t] # "rename" /\ StampsPast'
  BY DEF LockedSteps, SharedInv, NameInv, StampsPast, Past
<1>. QED
  BY <1>1, NamesKept

\* Every other step of a thread leaves the media files as they are, and a name
\* it chooses is free.
LEMMA ThreadKeepsNames ==
  ASSUME SharedInv, NEW t \in Threads,
         \/ Arrive(t) \/ AcquireWriteLock(t) \/ FreeStep(t)
         \/ LockedStep(t) /\ ~PlaceFile(t)
  PROVE  NameInv' /\ UNCHANGED files
<1> USE DEF SharedInv
<1>0. ASSUME UNCHANGED <<files, clock>> PROVE StampsPast'
  BY <1>0 DEF StampsPast, NameInv
<1>1. CASE Arrive(t)
  <2>1. PICK s \in {"lock", "stage", "lookup"} : \E r : Receive(t, r, s)
    BY <1>1 DEF Arrive, ReceiveUpload, ReceiveChunk, ReceiveVerify
  <2>2. OnlyMoves(t) /\ pc'[t] = s /\ UNCHANGED <<files, clock>>
    BY <2>1 DEF Receive, Goto, OnlyMoves, TypeOK, ThreadsOK, host
  <2>. QED
    BY <2>2, LooseStep DEF LockedSteps
<1>2. CASE AcquireWriteLock(t)
  <2>1. OnlyMoves(t) /\ pc'[t] = "find" /\ writer' = t /\ UNCHANGED <<files, clock>>
    BY <1>2, GotoMoves DEF AcquireWriteLock, host
  <2>. QED
    BY <1>0, <2>1, NamesKept
<1>3. ASSUME Return(t), UNCHANGED <<files, clock>> PROVE NameInv'
  <2>1. OnlyMoves(t) /\ pc'[t] = "idle"
    BY <1>3, ReturnMoves DEF Return, Goto, TypeOK, ThreadsOK
  <2>. QED
    BY <1>3, <2>1, LooseStep DEF LockedSteps
<1>4. CASE Reply(t) \/ PlaceChunk(t) \/ ChunkSwept(t) \/ VerifyHash(t)
           \/ WriteTempFails(t) \/ AssemblyFails(t) \/ PlaceFileFails(t) \/ PersistFails(t)
  BY <1>3, <1>4
  DEF Reply, PlaceChunk, ChunkSwept, VerifyHash, WriteTempFails, AssemblyFails,
      PlaceFileFails, PersistFails, host
<1>5. CASE StageChunk(t) \/ VerifyLookup(t) \/ VerifyStat(t)
  <2>1. UNCHANGED <<files, clock>>
    BY <1>5 DEF StageChunk, VerifyLookup, VerifyStat, host
  <2>2. ASSUME ~Return(t) PROVE OnlyMoves(t) /\ pc'[t] \in {"staging", "stat", "hash"}
    <3>1. PICK s \in {"staging", "stat", "hash"} : Goto(t, s)
      BY <1>5, <2>2 DEF StageChunk, VerifyLookup, VerifyStat
    <3>2. UNCHANGED <<req, good, writer>>
          /\ \A u \in Threads : u # t => target'[u] = target[u]
      BY <1>5, <2>2 DEF StageChunk, VerifyLookup, VerifyStat, TypeOK, ThreadsOK
    <3>. QED
      BY <3>1, <3>2, GotoMoves
  <2>. QED
    BY <1>3, <2>1, <2>2, LooseStep DEF LockedSteps
<1>6. pc[t] \in LockedSteps => writer = t
  BY DEF NameInv
<1>7. CASE ReuseStoredCopy(t) \/ NoStoredCopy(t)
  <2>1. PICK s \in {"index", "write", "read"} : Goto(t, s)
    BY <1>7 DEF ReuseStoredCopy, NoStoredCopy
  <2>2. UNCHANGED <<req, good, writer, files, clock>> /\ writer = t
        /\ \A u \in Threads : u # t => target'[u] = target[u]
    BY <1>6, <1>7 DEF ReuseStoredCopy, NoStoredCopy, host, TypeOK, ThreadsOK, LockedSteps
  <2>3. OnlyMoves(t) /\ pc'[t] = s
    BY <2>1, <2>2, GotoMoves
  <2>. QED
    BY <1>0, <2>2, <2>3, NamesKept
<1>8. CASE WriteTemp(t) \/ Assembled(t)
  <2>1. ChooseName(t) /\ UNCHANGED <<files, req, good, writer>>
    BY <1>8 DEF WriteTemp, Assembled
  <2>2. req[t].name \in Names /\ req[t].content \in Contents
    BY <1>8
    DEF WriteTemp, Assembled, TypeOK, ThreadsOK, StepFits, UploadSteps, LockedSteps,
        UploadRequest
  <2>3. PICK p \in Paths : /\ files[p] = None /\ target' = [target EXCEPT ![t] = p]
                          /\ clock' \in 0 .. MaxStamps /\ clock <= clock'
                          /\ Past(p, clock')
    BY <2>1, <2>2, ChosenName DEF NameInv
  <2>4. UNCHANGED <<req, good, writer, files>> /\ writer = t /\ target'[t] = p
        /\ \A u \in Threads : u # t => target'[u] = target[u]
    BY <1>6, <1>8, <2>1, <2>3 DEF WriteTemp, Assembled, TypeOK, ThreadsOK, LockedSteps
  <2>5. OnlyMoves(t) /\ pc'[t] = "rename"
    BY <1>8, <2>4, GotoMoves DEF WriteTemp, Assembled
  <2>6. StampsPast'
    <3>1. clock \in Nat /\ clock' \in Nat /\ clock <= clock' /\ files' = files
      BY <2>3, <2>4, BoundsAssumption DEF TypeOK, DataOK
    <3>2. ASSUME NEW q \in Paths, Past(q, clock) PROVE Past(q, clock')
      BY <3>1, <3>2 DEF Past
    <3>. QED
      BY <3>1, <3>2 DEF StampsPast, NameInv
  <2>. QED
    BY <2>3, <2>4, <2>5, <2>6, NamesKept
<1>9. CASE ReadChunk(t)
  <2>1. UNCHANGED <<pc, req, target, writer, files, clock>> /\ writer = t /\ pc[t] = "read"
        /\ \A u \in Threads : u # t => good'[u] = good[u]
    BY <1>6, <1>9 DEF ReadChunk, host, TypeOK, ThreadsOK, LockedSteps
  <2>. QED
    BY <1>0, <2>1, NamesKept DEF OnlyMoves
<1>10. CASE IndexAndPersist(t)
  <2>1. writer = t /\ UNCHANGED <<req, target, good, files, clock>>
    BY <1>6, <1>10 DEF IndexAndPersist, LockedSteps
  <2>2. \/ Goto(t, "reply") /\ writer' = None
        \/ Goto(t, "sweep") /\ writer' = t
    BY <1>10, <2>1 DEF IndexAndPersist
  <2>3. OnlyMoves(t) /\ (pc'[t] = "reply" \/ (pc'[t] = "sweep" /\ writer' = t))
    BY <2>1, <2>2, GotoMoves
  <2>. QED
    BY <1>0, <2>1, <2>3, NamesKept DEF LockedSteps
<1>11. CASE SweepStaging(t)
  <2>1. UNCHANGED <<req, target, good, files, clock>> /\ writer' = None
    BY <1>11 DEF SweepStaging
  <2>2. ASSUME NEW u \in Threads, u # t
        PROVE  pc'[u] = pc[u] \/ (pc[u] = "staging" /\ pc'[u] = "swept")
    BY <1>11, <2>2 DEF SweepStaging, Goto, TypeOK, ThreadsOK
  <2>3. pc'[t] = "reply"
    BY <1>11 DEF SweepStaging, Goto, TypeOK, ThreadsOK
  <2>. QED
    <3>1. writer = t
      BY <1>6, <1>11 DEF SweepStaging, LockedSteps
    <3>2. OnlyMoves(t)
      BY <2>1, <2>2, <3>1 DEF OnlyMoves
    <3>. QED
      BY <2>1, <2>3, <3>2, LooseStep DEF LockedSteps
<1>12. UNCHANGED files
  BY ThreadLeavesFiles
<1>. QED
  BY <1>1, <1>2, <1>4, <1>5, <1>7, <1>8, <1>9, <1>10, <1>11 DEF FreeStep, LockedStep

\* The process starting again has every thread idle and every file in place.
LEMMA RestartKeepsNames ==
  ASSUME SharedInv, CrashReset
  PROVE  NameInv' /\ UNCHANGED files
  BY DEF CrashReset, SharedInv, NameInv, StampsPast, LockedSteps

\* What the server's own steps keep, and that they only add files.
LEMMA OwnStepKeepsNames ==
  ASSUME SharedInv, [Next]_vars
  PROVE  SharedInv' /\ FilesGrow
<1>1. TypeOK'
  BY StepTypeOK DEF SharedInv
<1>2. ASSUME NEW t \in Threads,
             Arrive(t) \/ AcquireWriteLock(t) \/ LockedStep(t) \/ FreeStep(t)
      PROVE  NameInv' /\ FilesGrow
  BY <1>2, ThreadKeepsNames, PlaceFileKeepsNames DEF FilesGrow
<1>3. CASE CrashRestart
  BY <1>1, <1>3, RestartKeepsNames DEF CrashRestart, FilesGrow, SharedInv
<1>4. CASE Manifest \/ UNCHANGED vars
  <2>1. UNCHANGED <<files, clock, pc, writer, target>>
    BY <1>4 DEF Manifest, vars, host
  <2>. QED
    BY <1>1, <2>1 DEF SharedInv, NameInv, StampsPast, FilesGrow
<1>. QED
  BY <1>1, <1>2, <1>3, <1>4 DEF Next, SharedInv

\* A file taken away frees its name, and an index that starts empty concerns
\* no thread.
LEMMA OutsideKeepsNames ==
  ASSUME SharedInv, UnreadableRestart \/ \E p \in Paths : TakeAway(p)
  PROVE  SharedInv'
<1>1. ASSUME NEW p \in Paths, TakeAway(p) PROVE SharedInv'
  <2>1. DataOK' /\ ThreadsOK'
    BY <1>1 DEF TakeAway, SharedInv, TypeOK, DataOK, ThreadsOK, StepFits, history
  <2>2. \A q \in Paths : files[q] = None => files'[q] = None
    BY <1>1 DEF TakeAway, SharedInv, TypeOK, DataOK
  <2>3. \A t \in Threads : pc[t] = "rename" => target[t] \in Paths
    BY DEF SharedInv, TypeOK, ThreadsOK, StepFits
  <2>. QED
    BY <1>1, <2>1, <2>2, <2>3 DEF TakeAway, SharedInv, NameInv, StampsPast, TypeOK
<1>2. CASE UnreadableRestart
  <2>1. TempsInLibrary \subseteq {"upload", "assembling"}
    BY DEF TempsInLibrary
  <2>2. crashes' \in 0 .. MaxCrashes
    BY <1>2, BoundsAssumption DEF UnreadableRestart, CrashReset, SharedInv, TypeOK, DataOK
  <2>3. DataOK'
    BY <1>2, <2>1, <2>2
    DEF UnreadableRestart, CrashReset, SharedInv, TypeOK, DataOK, history
  <2>4. ThreadsOK'
    BY <1>2, BoundsAssumption
    DEF UnreadableRestart, CrashReset, ThreadsOK, StepFits, Steps, LockedSteps,
        UploadSteps, ChunkSteps, VerifySteps
  <2>. QED
    BY <1>2, <2>3, <2>4, RestartKeepsNames DEF UnreadableRestart, SharedInv, TypeOK
<1>. QED
  BY <1>1, <1>2

\* Who holds the lock, and the free name it has chosen, survive what the store
\* does not control.
THEOREM SharedInvariant == SharedSpec => []SharedInv
<1>1. SharedInit => SharedInv
  BY InitTypeOK DEF SharedInit, SharedInv, NameInv, StampsPast, Init, LockedSteps
<1>2. SharedInv /\ [SharedNext]_sharedVars => SharedInv'
  BY OwnStepKeepsNames, OutsideKeepsNames DEF SharedNext, sharedVars
<1>. QED
  BY <1>1, <1>2, PTL DEF SharedSpec

\* Though other programs take files away and the index may start empty, the
\* server itself never overwrites or removes a file that is there.
THEOREM SharedNeverOverwrites == SharedSpec => ServerNeverOverwrites
<1>1. SharedInv /\ [SharedNext]_sharedVars =>
        [removals' = removals =>
           \A p \in Paths : files[p] # None => files'[p] = files[p]]_sharedVars
  <2> SUFFICES ASSUME SharedInv, SharedNext, removals' = removals
               PROVE  FilesGrow
    BY DEF FilesGrow
  <2>1. CASE Next
    BY <2>1, OwnStepKeepsNames
  <2>2. ASSUME NEW p \in Paths, TakeAway(p) PROVE FALSE
    BY <2>2 DEF TakeAway
  <2>3. CASE UnreadableRestart
    BY <2>3, RestartKeepsNames DEF UnreadableRestart, FilesGrow
  <2>. QED
    BY <2>1, <2>2, <2>3 DEF SharedNext
<1>. QED
  BY <1>1, SharedInvariant, PTL DEF SharedSpec, ServerNeverOverwrites

=============================================================================
