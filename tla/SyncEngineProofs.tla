-------------------------- MODULE SyncEngineProofs --------------------------
(* Proofs about SyncEngine, for every value of its constants. *)
EXTENDS SyncEngine, TLAPS

\* What a pass leaves when it ends has the types.
LEMMA EndPassTypes ==
  ASSUME TypeOK, EndPass, records' \in [Assets -> RecordStates],
         failureCount' \in 0 .. MaxRetries + 1
  PROVE  PassTypeOK' /\ fetch'["grid"] = fetch["grid"] /\ fetch'["pass"].answer = None
<1>1. NoFetch \in Fetch /\ NoFetch.answer = None
  BY DEF NoFetch, Fetch
<1>2. fetch' \in [{"grid", "pass"} -> Fetch] /\ fetch'["grid"] = fetch["grid"]
      /\ fetch'["pass"].answer = None
  BY <1>1 DEF TypeOK, PassTypeOK, EndPass
<1>3. /\ step' \in Steps /\ todo' \subseteq Assets /\ fails' \in 0 .. Threshold - 1
      /\ asset' = None /\ step' = "idle" /\ cancelled' = FALSE /\ call' = "none"
  BY ThresholdAssumption DEF EndPass, Steps
<1>4. QED
  BY <1>2, <1>3, DistinctAssumption DEF PassTypeOK

\* What a pass begins with has the types, and no answer yet.
LEMMA StartPassTypes ==
  ASSUME TypeOK, NEW own \in BOOLEAN, MayStart, StartPass(own), records' = records,
         failureCount' = failureCount
  PROVE  /\ PassTypeOK'
         /\ \A w \in {"grid", "pass"} : fetch'[w].answer \in {None, fetch[w].answer}
<1>1. [ids |-> phone, token |-> auth, answer |-> None] \in Fetch
  BY DEF TypeOK, Fetch
<1>2. /\ fetch' \in [{"grid", "pass"} -> Fetch]
      /\ \A w \in {"grid", "pass"} : fetch'[w].answer \in {None, fetch[w].answer}
  BY <1>1 DEF TypeOK, PassTypeOK, StartPass
<1>3. step' = "fetch" /\ asset \notin Assets /\ call = "none"
  BY DEF TypeOK, PassTypeOK, MayStart, StartPass
<1>4. QED
  BY <1>2, <1>3 DEF TypeOK, PassTypeOK, StartPass, Steps

\* Going on to the next asset (uploadAll's loop) keeps the types, brings no
\* new answer of the server, and marks nothing "synced" that r does not.
LEMMA ProceedTypes ==
  ASSUME TypeOK, NEW r \in [Assets -> RecordStates], NEW rest \in SUBSET Assets,
         NEW n \in 0 .. Threshold - 1, Proceed(r, rest, n)
  PROVE  /\ PassTypeOK'
         /\ call' = "none"
         /\ failureCount' = failureCount \/ step' = "idle"
         /\ \A w \in {"grid", "pass"} : fetch'[w].answer \in {None, fetch[w].answer}
         /\ \A a \in Assets : records'[a] = "synced" => r[a] = "synced"
<1>1. CASE rest = {}
  <2>1. EndPass /\ records' = r /\ failureCount' = 0
    BY <1>1 DEF Proceed
  <2>2. PassTypeOK' /\ fetch'["grid"] = fetch["grid"] /\ fetch'["pass"].answer = None
    BY <2>1, EndPassTypes, ThresholdAssumption
  <2>3. QED
    BY <2>1, <2>2 DEF EndPass
<1>2. CASE rest # {}
  <2>1. PICK next \in rest :
          /\ asset' = next
          /\ todo' = rest \ {next}
          /\ records' = [r EXCEPT ![next] = "syncing"]
          /\ fails' = n /\ step' = "export" /\ call' = "none"
          /\ UNCHANGED <<cancelled, fetch, failureCount>>
    BY <1>2 DEF Proceed
  <2>2. QED
    BY <2>1 DEF TypeOK, PassTypeOK, Steps, RecordStates
<1>3. QED
  BY <1>1, <1>2

\* An index that only grows leaves what was held and known held and known.
LEMMA ListedGrows ==
  ASSUME TypeOK, AnswersInv, SyncedIsHeld, NEW a \in Assets,
         listed' = [listed EXCEPT ![a] = ContentOf[a]]
  PROVE  /\ listed' \in [Assets -> Contents \cup {None}]
         /\ \A b \in Assets : listed'[b] \in {None, ContentOf[b]}
         /\ \A b \in Assets : listed[b] # None => listed'[b] # None
         /\ Held \subseteq Held' /\ ContentOf[a] \in Held'
<1>1. ContentOf[a] \in Contents /\ ContentOf[a] # None
  BY DistinctAssumption DEF Contents
<1>2. \A b \in Assets : listed'[b] = IF b = a THEN ContentOf[a] ELSE listed[b]
  BY DEF TypeOK
<1>3. \A b \in Assets : listed[b] # None => listed'[b] = listed[b]
  BY <1>2 DEF AnswersInv
<1>4. Held \subseteq Held'
  BY <1>3 DEF Held
<1>5. ContentOf[a] \in Held'
  BY <1>1, <1>2 DEF Held
<1>6. QED
  BY <1>1, <1>2, <1>3, <1>4, <1>5 DEF TypeOK, AnswersInv

\* A step of the pass that goes on after an outcome keeps the invariant, as long
\* as what it marks "synced" is held.
LEMMA ProceedKeepsEngineInv ==
  ASSUME EngineInv, step # "idle", NEW r \in [Assets -> RecordStates],
         \A a \in Assets : r[a] = "synced" => ContentOf[a] \in Held,
         NEW rest \in SUBSET Assets, NEW n \in 0 .. Threshold - 1, Proceed(r, rest, n),
         UNCHANGED <<phone, gone, listed, up, notice, retry, mishaps, noticed, auto>>,
         auth' \in {"out", "good", "stale"}, grid' \in {"hidden", "reconciling", "shown"},
         observing' \in BOOLEAN, late' \subseteq Assets
  PROVE  EngineInv'
<1> USE DEF EngineInv
<1>1. /\ PassTypeOK'
      /\ call' = "none"
      /\ failureCount' = failureCount \/ step' = "idle"
      /\ \A w \in {"grid", "pass"} : fetch'[w].answer \in {None, fetch[w].answer}
      /\ \A a \in Assets : records'[a] = "synced" => r[a] = "synced"
  BY ProceedTypes
<1>2. TypeOK'
  BY <1>1 DEF TypeOK
<1>3. AnswersInv'
  BY <1>1 DEF AnswersInv
<1>4. BreakerInv'
  BY <1>1 DEF BreakerInv
<1>5. SyncedIsHeld'
  BY <1>1 DEF SyncedIsHeld, Held
<1>6. QED
  BY <1>2, <1>3, <1>4, <1>5

\* The initial state satisfies the invariant.
LEMMA InitEngineInv == Init => EngineInv
<1> SUFFICES ASSUME Init PROVE EngineInv
  OBVIOUS
<1>a. NoFetch \in Fetch
  BY DEF NoFetch, Fetch
<1>b. records \in [Assets -> RecordStates] /\ fetch \in [{"grid", "pass"} -> Fetch]
  BY <1>a DEF Init, RecordStates
<1>c. fails \in 0 .. Threshold - 1 /\ failureCount \in 0 .. MaxRetries + 1
  BY ThresholdAssumption DEF Init
<1>d. PassTypeOK
  BY <1>b, <1>c, DistinctAssumption DEF Init, PassTypeOK, Steps
<1>e. mishaps \in 0 .. MaxMishaps /\ auto \in Nat
  BY MishapsAssumption DEF Init
<1>f. listed \in [Assets -> Contents \cup {None}]
  BY DEF Init
<1>1. TypeOK
  BY <1>d, <1>e, <1>f, KindsAssumption DEF Init, TypeOK
<1>2. AnswersInv
  BY DEF Init, AnswersInv, NoFetch
<1>3. BreakerInv /\ SyncedIsHeld
  BY ThresholdAssumption DEF Init, BreakerInv, SyncedIsHeld
<1>4. QED
  BY <1>1, <1>2, <1>3 DEF EngineInv

\* Sync now starts a pass (syncAll) and keeps the invariant.
LEMMA SyncNowSafe ==
  ASSUME EngineInv, SyncNow
  PROVE  EngineInv'
<1> USE DEF EngineInv
<1>1. CASE StartPass(FALSE) /\ MayStart
  <2>1. /\ PassTypeOK'
        /\ \A w \in {"grid", "pass"} : fetch'[w].answer \in {None, fetch[w].answer}
    BY <1>1, StartPassTypes DEF SyncNow
  <2>2. TypeOK'
    BY <1>1, <2>1 DEF SyncNow, TypeOK, StartPass, library
  <2>3. AnswersInv'
    BY <1>1, <2>1 DEF SyncNow, AnswersInv, StartPass, Held
  <2>4. BreakerInv'
    BY <1>1, ThresholdAssumption DEF SyncNow, TypeOK, PassTypeOK, StartPass, BreakerInv, MayStart
  <2>5. SyncedIsHeld'
    BY <1>1 DEF SyncNow, SyncedIsHeld, Held
  <2>6. QED
    BY <2>2, <2>3, <2>4, <2>5
<1>2. QED
  BY <1>1 DEF SyncNow

\* So does the library observer's handler (AppEnvironment.onChange).
LEMMA LibraryChangedSafe ==
  ASSUME EngineInv, LibraryChanged
  PROVE  EngineInv'
<1> USE DEF EngineInv
<1>1. CASE StartPass(FALSE) /\ MayStart
  <2>1. /\ PassTypeOK'
        /\ \A w \in {"grid", "pass"} : fetch'[w].answer \in {None, fetch[w].answer}
    BY <1>1, StartPassTypes DEF LibraryChanged
  <2>2. TypeOK'
    <3>1. retry' \in {"none", "sleeping"} /\ auto' \in Nat
      BY <1>1 DEF LibraryChanged, StartPass
    <3>2. notice' = FALSE
      BY Zenon DEF LibraryChanged
    <3>3. notice' \in BOOLEAN
      BY <3>2
    <3>4. QED
      BY <2>1, <3>1, <3>3 DEF LibraryChanged, TypeOK, library
  <2>3. AnswersInv'
    BY <1>1, <2>1 DEF LibraryChanged, AnswersInv, StartPass, Held
  <2>4. BreakerInv'
    BY <1>1, ThresholdAssumption
    DEF LibraryChanged, TypeOK, PassTypeOK, StartPass, BreakerInv, MayStart
  <2>5. SyncedIsHeld'
    BY <1>1 DEF LibraryChanged, SyncedIsHeld, Held
  <2>6. QED
    BY <2>2, <2>3, <2>4, <2>5
<1>2. CASE ~MayStart
  <2>1. TypeOK'
    BY <1>2 DEF LibraryChanged, TypeOK, PassTypeOK, library, pass
  <2>2. AnswersInv' /\ BreakerInv'
    BY <1>2 DEF LibraryChanged, AnswersInv, BreakerInv, pass, Held
  <2>3. SyncedIsHeld'
    BY <1>2 DEF LibraryChanged, SyncedIsHeld, Held
  <2>4. QED
    BY <2>1, <2>2, <2>3
<1>3. QED
  BY <1>1, <1>2 DEF LibraryChanged

\* A retry keeps it: with it, auto still is at most the count that scheduled it.
LEMMA RetryFiresSafe ==
  ASSUME EngineInv, RetryFires
  PROVE  EngineInv'
<1> USE DEF EngineInv
<1>1. CASE StartPass(TRUE) /\ MayStart
  <2>1. /\ PassTypeOK'
        /\ \A w \in {"grid", "pass"} : fetch'[w].answer \in {None, fetch[w].answer}
    BY <1>1, StartPassTypes DEF RetryFires
  <2>2. TypeOK'
    BY <1>1, <2>1 DEF RetryFires, TypeOK, StartPass, library
  <2>3. AnswersInv'
    BY <1>1, <2>1 DEF RetryFires, AnswersInv, StartPass, Held
  <2>4. BreakerInv'
    BY <1>1, ThresholdAssumption DEF RetryFires, TypeOK, PassTypeOK, StartPass, BreakerInv, MayStart
  <2>5. SyncedIsHeld'
    BY <1>1 DEF RetryFires, SyncedIsHeld, Held
  <2>6. QED
    BY <2>2, <2>3, <2>4, <2>5
<1>2. CASE ~MayStart
  <2>1. TypeOK'
    BY <1>2 DEF RetryFires, TypeOK, PassTypeOK, library, pass
  <2>2. AnswersInv' /\ BreakerInv'
    BY <1>2 DEF RetryFires, AnswersInv, BreakerInv, pass, Held
  <2>3. SyncedIsHeld'
    BY <1>2 DEF RetryFires, SyncedIsHeld, Held
  <2>4. QED
    BY <2>1, <2>2, <2>3
<1>3. QED
  BY <1>1, <1>2 DEF RetryFires

\* The grid appears and asks for the manifest (GridViewModel.onAppear).
LEMMA OpenGridSafe ==
  ASSUME EngineInv, OpenGrid
  PROVE  EngineInv'
<1> USE DEF EngineInv, TypeOK, PassTypeOK
<1>1. TypeOK'
  BY DEF OpenGrid, library, pass, breaker, Steps, Fetch
<1>2. AnswersInv'
  BY DEF OpenGrid, library, pass, breaker, AnswersInv, Held
<1>3. BreakerInv'
  BY DEF OpenGrid, library, pass, breaker, BreakerInv
<1>4. SyncedIsHeld'
  BY DEF OpenGrid, library, pass, breaker, SyncedIsHeld, Held
<1>5. QED
  BY <1>1, <1>2, <1>3, <1>4

\* The manifest is read from the index.
LEMMA ServeManifestSafe ==
  ASSUME EngineInv, NEW w \in {"grid", "pass"}, ServeManifest(w)
  PROVE  EngineInv'
<1> USE DEF EngineInv, TypeOK, PassTypeOK
<1>0. fetch' = [fetch EXCEPT ![w].answer = {a \in Assets : listed[a] # None}]
  BY DEF ServeManifest
<1>a. fetch' \in [{"grid", "pass"} -> Fetch]
  BY <1>0 DEF Fetch
<1>b. \A v \in {"grid", "pass"} :
        fetch'[v].answer \in {fetch[v].answer, {a \in Assets : listed[a] # None}}
  BY <1>0 DEF Fetch
<1>1. TypeOK'
  BY <1>a DEF ServeManifest, library, pass, breaker
<1>2. AnswersInv'
  BY <1>b DEF ServeManifest, library, pass, AnswersInv, Held
<1>3. BreakerInv'
  BY DEF ServeManifest, library, pass, breaker, BreakerInv
<1>4. SyncedIsHeld'
  BY DEF ServeManifest, library, pass, breaker, SyncedIsHeld, Held
<1>5. QED
  BY <1>1, <1>2, <1>3, <1>4

\* What follows reconcile's await, for records of which every "synced" is held.
LEMMA AfterReconcileSafe ==
  ASSUME EngineInv, NEW w \in {"grid", "pass"}, Fetching(w), NEW r \in [Assets -> RecordStates],
         \A a \in Assets : r[a] = "synced" => ContentOf[a] \in Held, AfterReconcile(w, r),
         UNCHANGED <<library, listed, up, auth, notice, retry, late, mishaps, noticed, auto>>
  PROVE  EngineInv'
<1>1. CASE w = "pass"
  <2>1. step # "idle"
    BY <1>1 DEF Fetching
  <2>2. NotSynced(fetch[w].ids, r) \in SUBSET Assets
    BY DEF NotSynced, EngineInv, TypeOK, PassTypeOK, Fetch
  <2>3. Proceed(r, NotSynced(fetch[w].ids, r), 0) /\ UNCHANGED <<grid, observing>>
    BY <1>1 DEF AfterReconcile
  <2>4. QED
    BY <2>1, <2>2, <2>3, ThresholdAssumption, ProceedKeepsEngineInv DEF EngineInv, TypeOK, library
<1>2. CASE w = "grid"
  <2>1. /\ grid' = "shown" /\ observing' = TRUE /\ records' = r
        /\ fetch' = [fetch EXCEPT !["grid"] = NoFetch]
        /\ UNCHANGED <<step, todo, asset, fails, cancelled, call, failureCount>>
    BY <1>2 DEF AfterReconcile, pass
  <2>2. NoFetch \in Fetch /\ NoFetch.answer = None
    BY DEF NoFetch, Fetch
  <2>3. TypeOK'
    BY <2>1, <2>2 DEF EngineInv, TypeOK, PassTypeOK, library
  <2>4. AnswersInv' /\ BreakerInv'
    BY <2>1, <2>2 DEF EngineInv, TypeOK, PassTypeOK, AnswersInv, BreakerInv, Held
  <2>5. SyncedIsHeld'
    BY <2>1 DEF SyncedIsHeld, Held
  <2>6. QED
    BY <2>3, <2>4, <2>5 DEF EngineInv
<1>3. QED
  BY <1>1, <1>2

\* Reconciling with an answer: the assets it names are in the index, and an
\* asset's index entry is its own content.
LEMMA ReconcileSafe ==
  ASSUME EngineInv, NEW w \in {"grid", "pass"}, Reconcile(w)
  PROVE  EngineInv'
<1> DEFINE r == Marked(fetch[w].ids, fetch[w].answer)
<1>1. r \in [Assets -> RecordStates]
  BY DEF Marked, EngineInv, TypeOK, PassTypeOK, RecordStates
<1>2. ASSUME NEW a \in Assets, r[a] = "synced" PROVE ContentOf[a] \in Held
  <2>1. CASE a \in fetch[w].answer
    BY <2>1, DistinctAssumption DEF Reconcile, EngineInv, AnswersInv, Held, Contents
  <2>2. CASE a \notin fetch[w].answer
    BY <1>2, <2>2 DEF Marked, EngineInv, SyncedIsHeld
  <2>3. QED
    BY <2>1, <2>2
<1>3. Fetching(w) /\ AfterReconcile(w, r)
      /\ UNCHANGED <<library, listed, up, auth, notice, retry, late, mishaps, noticed, auto>>
  BY DEF Reconcile
<1> HIDE DEF r
<1>4. QED
  BY <1>1, <1>2, <1>3, AfterReconcileSafe

\* Without an answer the records stay.
LEMMA ReconcileFailsSafe ==
  ASSUME EngineInv, NEW w \in {"grid", "pass"}, ReconcileFails(w)
  PROVE  EngineInv'
<1>1. records \in [Assets -> RecordStates]
  BY DEF EngineInv, TypeOK, PassTypeOK
<1>2. \A a \in Assets : records[a] = "synced" => ContentOf[a] \in Held
  BY DEF EngineInv, SyncedIsHeld
<1>3. QED
  BY <1>1, <1>2, AfterReconcileSafe DEF ReconcileFails

\* A refused token signs out, and a pass goes on with the records it has.
LEMMA ReconcileUnauthorizedSafe ==
  ASSUME EngineInv, NEW w \in {"grid", "pass"}, ReconcileUnauthorized(w)
  PROVE  EngineInv'
<1>1. CASE w = "pass"
  <2>1. step # "idle" /\ Proceed(records, NotSynced(fetch[w].ids, records), 0)
        /\ UNCHANGED <<library, listed, up, notice, retry, late, mishaps, noticed, auto>>
    BY <1>1 DEF ReconcileUnauthorized, Fetching
  <2>2. NotSynced(fetch[w].ids, records) \in SUBSET Assets
    BY DEF NotSynced, EngineInv, TypeOK, PassTypeOK, Fetch
  <2>3. /\ auth' \in {"out", "good", "stale"} /\ grid' \in {"hidden", "reconciling", "shown"}
        /\ observing' \in BOOLEAN /\ late' \subseteq Assets
    BY <2>1 DEF ReconcileUnauthorized, SignedOut, EngineInv, TypeOK
  <2>4. /\ records \in [Assets -> RecordStates]
        /\ \A a \in Assets : records[a] = "synced" => ContentOf[a] \in Held
    BY DEF EngineInv, TypeOK, PassTypeOK, SyncedIsHeld
  <2>5. QED
    BY <2>1, <2>2, <2>3, <2>4, ThresholdAssumption, ProceedKeepsEngineInv DEF library
<1>2. CASE w = "grid"
  <2>1. /\ SignedOut
        /\ UNCHANGED <<records, pass, failureCount, fetch, library, listed, up, notice, retry,
                       late, mishaps, noticed, auto>>
    BY <1>2 DEF ReconcileUnauthorized
  <2>2. TypeOK'
    BY <2>1 DEF SignedOut, pass, library, EngineInv, TypeOK, PassTypeOK
  <2>3. AnswersInv' /\ BreakerInv' /\ SyncedIsHeld'
    BY <2>1 DEF pass, EngineInv, AnswersInv, BreakerInv, SyncedIsHeld, Held
  <2>4. QED
    BY <2>2, <2>3 DEF EngineInv
<1>3. QED
  BY <1>1, <1>2

\* The export of the asset under way (uploadOne).
LEMMA ExportSafe ==
  ASSUME EngineInv, Export
  PROVE  EngineInv'
<1> USE DEF EngineInv, TypeOK, PassTypeOK
<1>1. TypeOK'
  BY DEF Export, Send, library, session, breaker, Steps
<1>2. AnswersInv'
  BY DEF Export, Send, library, session, breaker, AnswersInv, Held
<1>3. BreakerInv'
  BY DEF Export, Send, library, session, breaker, BreakerInv
<1>4. SyncedIsHeld'
  BY DEF Export, Send, library, session, breaker, SyncedIsHeld, Held
<1>5. QED
  BY <1>1, <1>2, <1>3, <1>4

\* A failed export is a failed asset, and the next one follows.
LEMMA ExportFailsSafe ==
  ASSUME EngineInv, ExportFails
  PROVE  EngineInv'
<1> DEFINE r == [records EXCEPT ![asset] = "failed"]
<1>1. step # "idle" /\ asset \in Assets
  BY DEF ExportFails, EngineInv, TypeOK, PassTypeOK
<1>2. r \in [Assets -> RecordStates]
  BY <1>1 DEF EngineInv, TypeOK, PassTypeOK, RecordStates
<1>3. \A a \in Assets : r[a] = "synced" => ContentOf[a] \in Held
  BY <1>1 DEF ExportFails, EngineInv, TypeOK, PassTypeOK, SyncedIsHeld
<1>4. Proceed(r, todo, 0)
  BY DEF ExportFails
<1>5. todo \in SUBSET Assets /\ 0 \in 0 .. Threshold - 1
  BY ThresholdAssumption DEF EngineInv, TypeOK, PassTypeOK
<1>6. /\ UNCHANGED <<phone, gone, listed, up, notice, retry, mishaps, noticed, auto>>
      /\ auth' \in {"out", "good", "stale"} /\ grid' \in {"hidden", "reconciling", "shown"}
      /\ observing' \in BOOLEAN /\ late' \subseteq Assets
  BY DEF ExportFails, library, EngineInv, TypeOK
<1> HIDE DEF r
<1>7. QED
  BY <1>1, <1>2, <1>3, <1>4, <1>5, <1>6, ProceedKeepsEngineInv

\* The status query finds the content: it is held.
LEMMA StatusStoredSafe ==
  ASSUME EngineInv, StatusStored
  PROVE  EngineInv'
<1> DEFINE r == [records EXCEPT ![asset] = "synced"]
<1>1. step # "idle" /\ asset \in Assets
  BY DEF StatusStored, EngineInv, TypeOK, PassTypeOK
<1>2. r \in [Assets -> RecordStates]
  BY <1>1 DEF EngineInv, TypeOK, PassTypeOK, RecordStates
<1>3. \A a \in Assets : r[a] = "synced" => ContentOf[a] \in Held
  BY <1>1 DEF StatusStored, EngineInv, TypeOK, PassTypeOK, SyncedIsHeld
<1>4. Proceed(r, todo, 0)
  BY DEF StatusStored, Synced
<1>5. todo \in SUBSET Assets /\ 0 \in 0 .. Threshold - 1
  BY ThresholdAssumption DEF EngineInv, TypeOK, PassTypeOK
<1>6. /\ UNCHANGED <<phone, gone, listed, up, notice, retry, mishaps, noticed, auto>>
      /\ auth' \in {"out", "good", "stale"} /\ grid' \in {"hidden", "reconciling", "shown"}
      /\ observing' \in BOOLEAN /\ late' \subseteq Assets
  BY DEF StatusStored, library, EngineInv, TypeOK
<1> HIDE DEF r
<1>7. QED
  BY <1>1, <1>2, <1>3, <1>4, <1>5, <1>6, ProceedKeepsEngineInv

\* The status query does not find it: the upload is sent.
LEMMA StatusNotStoredSafe ==
  ASSUME EngineInv, StatusNotStored
  PROVE  EngineInv'
<1> USE DEF EngineInv, TypeOK, PassTypeOK
<1>1. TypeOK'
  BY DEF StatusNotStored, Send, library, session, breaker, Steps
<1>2. AnswersInv'
  BY DEF StatusNotStored, Send, library, session, breaker, AnswersInv, Held
<1>3. BreakerInv'
  BY DEF StatusNotStored, Send, library, session, breaker, BreakerInv
<1>4. SyncedIsHeld'
  BY DEF StatusNotStored, Send, library, session, breaker, SyncedIsHeld, Held
<1>5. QED
  BY <1>1, <1>2, <1>3, <1>4

\* The server takes the upload.
LEMMA ServerStoresSafe ==
  ASSUME EngineInv, ServerStores
  PROVE  EngineInv'
<1> USE DEF EngineInv, TypeOK, PassTypeOK
<1>0. asset \in Assets
  BY DEF ServerStores
<1>a. /\ listed' \in [Assets -> Contents \cup {None}]
      /\ \A b \in Assets : listed'[b] \in {None, ContentOf[b]}
      /\ \A b \in Assets : listed[b] # None => listed'[b] # None
      /\ Held \subseteq Held' /\ ContentOf[asset] \in Held'
  BY <1>0, ListedGrows DEF ServerStores
<1>1. TypeOK'
  BY <1>a DEF ServerStores, library, session, breaker
<1>2. AnswersInv'
  BY <1>a DEF ServerStores, session, AnswersInv
<1>3. BreakerInv'
  BY DEF ServerStores, library, session, breaker, BreakerInv
<1>4. SyncedIsHeld'
  BY <1>a DEF ServerStores, SyncedIsHeld
<1>5. QED
  BY <1>1, <1>2, <1>3, <1>4

\* The answer to a stored upload marks an asset whose content is held.
LEMMA UploadedSafe ==
  ASSUME EngineInv, Uploaded
  PROVE  EngineInv'
<1> DEFINE r == [records EXCEPT ![asset] = "synced"]
<1>1. step # "idle" /\ asset \in Assets
  BY DEF Uploaded, EngineInv, TypeOK, PassTypeOK
<1>2. r \in [Assets -> RecordStates]
  BY <1>1 DEF EngineInv, TypeOK, PassTypeOK, RecordStates
<1>3. \A a \in Assets : r[a] = "synced" => ContentOf[a] \in Held
  BY <1>1 DEF Uploaded, EngineInv, TypeOK, PassTypeOK, AnswersInv, SyncedIsHeld
<1>4. Proceed(r, todo, 0)
  BY DEF Uploaded, Synced
<1>5. todo \in SUBSET Assets /\ 0 \in 0 .. Threshold - 1
  BY ThresholdAssumption DEF EngineInv, TypeOK, PassTypeOK
<1>6. /\ UNCHANGED <<phone, gone, listed, up, notice, retry, mishaps, noticed, auto>>
      /\ auth' \in {"out", "good", "stale"} /\ grid' \in {"hidden", "reconciling", "shown"}
      /\ observing' \in BOOLEAN /\ late' \subseteq Assets
  BY DEF Uploaded, library, EngineInv, TypeOK
<1> HIDE DEF r
<1>7. QED
  BY <1>1, <1>2, <1>3, <1>4, <1>5, <1>6, ProceedKeepsEngineInv

\* A transport failure: the next asset, or the breaker opens; the breaker's count
\* then passes the number of retries.
LEMMA UploadFailsSafe ==
  ASSUME EngineInv, UploadFails
  PROVE  EngineInv'
<1> DEFINE r == [records EXCEPT ![asset] = "failed"]
<1>1. step # "idle" /\ asset \in Assets
  BY DEF UploadFails, EngineInv, TypeOK, PassTypeOK
<1>2. r \in [Assets -> RecordStates]
  BY <1>1 DEF EngineInv, TypeOK, PassTypeOK, RecordStates
<1>3. \A a \in Assets : r[a] = "synced" => ContentOf[a] \in Held
  BY <1>1 DEF EngineInv, TypeOK, PassTypeOK, SyncedIsHeld
<1>4. /\ UNCHANGED <<phone, gone, listed, up, auth, grid, observing, notice, mishaps, noticed,
                     auto>>
      /\ late' \subseteq Assets
  BY <1>1 DEF UploadFails, LeaveBehind, library, EngineInv, TypeOK
<1>5. CASE fails + 1 >= Threshold
  <2>1. Trip
    BY <1>5 DEF UploadFails, TransportFailure
  <2>2. EndPass /\ records' = r
    BY <2>1 DEF Trip
  <2>3. /\ failureCount' \in 0 .. MaxRetries + 1
        /\ failureCount' <= MaxRetries => failureCount' = failureCount + 1
        /\ retry' \in {"none", "sleeping"} /\ (retry' = "sleeping" => failureCount' <= MaxRetries)
    BY <2>1, ThresholdAssumption DEF Trip, EngineInv, TypeOK, PassTypeOK
  <2>4. PassTypeOK' /\ fetch'["grid"] = fetch["grid"] /\ fetch'["pass"].answer = None
    BY <1>2, <2>2, <2>3, EndPassTypes DEF EngineInv
  <2>5. TypeOK'
    BY <1>4, <2>3, <2>4 DEF EngineInv, TypeOK
  <2>6. AnswersInv'
    BY <1>4, <2>2, <2>4 DEF EngineInv, AnswersInv, EndPass
  <2>7. BreakerInv'
    BY <1>1, <1>4, <2>2, <2>3, ThresholdAssumption
    DEF EngineInv, TypeOK, PassTypeOK, BreakerInv, EndPass
  <2>8. SyncedIsHeld'
    BY <1>3, <1>4, <2>2 DEF SyncedIsHeld, Held
  <2>9. QED
    BY <2>5, <2>6, <2>7, <2>8 DEF EngineInv
<1>6. CASE ~(fails + 1 >= Threshold)
  <2>1. Proceed(r, todo, fails + 1) /\ UNCHANGED retry
    BY <1>6 DEF UploadFails, TransportFailure
  <2>2. todo \in SUBSET Assets /\ fails + 1 \in 0 .. Threshold - 1
    BY <1>6, ThresholdAssumption DEF EngineInv, TypeOK, PassTypeOK
  <2>3. /\ auth' \in {"out", "good", "stale"} /\ grid' \in {"hidden", "reconciling", "shown"}
        /\ observing' \in BOOLEAN
    BY <1>4 DEF EngineInv, TypeOK
  <2> HIDE DEF r
  <2>4. QED
    BY <1>1, <1>2, <1>3, <1>4, <2>1, <2>2, <2>3, ProceedKeepsEngineInv
<1>7. QED
  BY <1>5, <1>6

\* A 401 ends the pass and the session.
LEMMA UploadUnauthorizedSafe ==
  ASSUME EngineInv, UploadUnauthorized
  PROVE  EngineInv'
<1>1. step # "idle" /\ asset \in Assets
  BY DEF UploadUnauthorized, EngineInv, TypeOK, PassTypeOK
<1>2. EndPass /\ SignedOut /\ records' = [records EXCEPT ![asset] = "failed"]
      /\ UNCHANGED <<library, listed, up, notice, breaker, late, mishaps, noticed, auto>>
  BY DEF UploadUnauthorized
<1>3. PassTypeOK' /\ fetch'["grid"] = fetch["grid"] /\ fetch'["pass"].answer = None
  BY <1>1, <1>2, EndPassTypes DEF EngineInv, TypeOK, PassTypeOK, RecordStates, breaker
<1>4. TypeOK'
  BY <1>2, <1>3 DEF EngineInv, TypeOK, SignedOut, library, breaker
<1>5. AnswersInv' /\ BreakerInv'
  BY <1>1, <1>2, <1>3 DEF EngineInv, AnswersInv, BreakerInv, EndPass, breaker
<1>6. SyncedIsHeld'
  BY <1>1, <1>2 DEF EngineInv, TypeOK, PassTypeOK, SyncedIsHeld, Held
<1>7. QED
  BY <1>4, <1>5, <1>6 DEF EngineInv

\* An upload the phone gave up on arrives.
LEMMA LateUploadStoredSafe ==
  ASSUME EngineInv, NEW a \in Assets, LateUploadStored(a)
  PROVE  EngineInv'
<1> USE DEF EngineInv, TypeOK, PassTypeOK
<1>a. /\ listed' \in [Assets -> Contents \cup {None}]
      /\ \A b \in Assets : listed'[b] \in {None, ContentOf[b]}
      /\ \A b \in Assets : listed[b] # None => listed'[b] # None
      /\ Held \subseteq Held'
  BY ListedGrows DEF LateUploadStored
<1>1. TypeOK'
  BY <1>a DEF LateUploadStored, library, session, pass, breaker
<1>2. AnswersInv'
  BY <1>a DEF LateUploadStored, session, pass, AnswersInv
<1>3. BreakerInv'
  BY DEF LateUploadStored, library, session, pass, breaker, BreakerInv
<1>4. SyncedIsHeld'
  BY <1>a DEF LateUploadStored, SyncedIsHeld
<1>5. QED
  BY <1>1, <1>2, <1>3, <1>4

\* A photo is taken, and the observer is told.
LEMMA CaptureSafe ==
  ASSUME EngineInv, NEW a \in Assets, Capture(a)
  PROVE  EngineInv'
<1> USE DEF EngineInv, TypeOK, PassTypeOK
<1>1. TypeOK'
  BY DEF Capture, session, pass, breaker, Steps
<1>2. AnswersInv'
  BY DEF Capture, session, pass, breaker, AnswersInv, Held
<1>3. BreakerInv'
  BY DEF Capture, session, pass, breaker, BreakerInv
<1>4. SyncedIsHeld'
  BY DEF Capture, session, pass, breaker, SyncedIsHeld, Held
<1>5. QED
  BY <1>1, <1>2, <1>3, <1>4

\* A photo is deleted, and the observer is told.
LEMMA DeleteInPhotosSafe ==
  ASSUME EngineInv, NEW a \in Assets, DeleteInPhotos(a)
  PROVE  EngineInv'
<1> USE DEF EngineInv, TypeOK, PassTypeOK
<1>1. TypeOK'
  BY DEF DeleteInPhotos, session, pass, breaker, Steps
<1>2. AnswersInv'
  BY DEF DeleteInPhotos, session, pass, breaker, AnswersInv, Held
<1>3. BreakerInv'
  BY DEF DeleteInPhotos, session, pass, breaker, BreakerInv
<1>4. SyncedIsHeld'
  BY DEF DeleteInPhotos, session, pass, breaker, SyncedIsHeld, Held
<1>5. QED
  BY <1>1, <1>2, <1>3, <1>4

\* The network goes: no data changes.
LEMMA NetworkDownSafe ==
  ASSUME EngineInv, NetworkDown
  PROVE  EngineInv'
<1> USE DEF EngineInv, TypeOK, PassTypeOK
<1>0. mishaps' \in 0 .. MaxMishaps
  BY MishapsAssumption DEF NetworkDown, Mishap
<1>1. TypeOK'
  BY <1>0 DEF NetworkDown, Mishap, library, session, pass, breaker
<1>2. AnswersInv'
  BY DEF NetworkDown, Mishap, library, session, pass, breaker, AnswersInv, Held
<1>3. BreakerInv'
  BY DEF NetworkDown, Mishap, library, session, pass, breaker, BreakerInv
<1>4. SyncedIsHeld'
  BY DEF NetworkDown, Mishap, library, session, pass, breaker, SyncedIsHeld, Held
<1>5. QED
  BY <1>1, <1>2, <1>3, <1>4

\* The network is back: no data changes.
LEMMA NetworkUpSafe ==
  ASSUME EngineInv, NetworkUp
  PROVE  EngineInv'
<1> USE DEF EngineInv, TypeOK, PassTypeOK
<1>1. TypeOK'
  BY DEF NetworkUp, library, session, pass, breaker, Steps
<1>2. AnswersInv'
  BY DEF NetworkUp, library, session, pass, breaker, AnswersInv, Held
<1>3. BreakerInv'
  BY DEF NetworkUp, library, session, pass, breaker, BreakerInv
<1>4. SyncedIsHeld'
  BY DEF NetworkUp, library, session, pass, breaker, SyncedIsHeld, Held
<1>5. QED
  BY <1>1, <1>2, <1>3, <1>4

\* The user signs in (AuthService): the records stay.
LEMMA SignInSafe ==
  ASSUME EngineInv, SignIn
  PROVE  EngineInv'
<1> USE DEF EngineInv, TypeOK, PassTypeOK
<1>1. TypeOK'
  BY DEF SignIn, library, pass, breaker, Steps
<1>2. AnswersInv'
  BY DEF SignIn, library, pass, breaker, AnswersInv, Held
<1>3. BreakerInv'
  BY DEF SignIn, library, pass, breaker, BreakerInv
<1>4. SyncedIsHeld'
  BY DEF SignIn, library, pass, breaker, SyncedIsHeld, Held
<1>5. QED
  BY <1>1, <1>2, <1>3, <1>4

\* The user signs out (AuthService): the records stay.
LEMMA SignOutSafe ==
  ASSUME EngineInv, SignOut
  PROVE  EngineInv'
<1> USE DEF EngineInv, TypeOK, PassTypeOK
<1>0. mishaps' \in 0 .. MaxMishaps
  BY MishapsAssumption DEF SignOut, Mishap
<1>1. TypeOK'
  BY <1>0 DEF SignOut, Mishap, SignedOut, library, pass, breaker
<1>2. AnswersInv'
  BY DEF SignOut, Mishap, SignedOut, library, pass, breaker, AnswersInv, Held
<1>3. BreakerInv'
  BY DEF SignOut, Mishap, SignedOut, library, pass, breaker, BreakerInv
<1>4. SyncedIsHeld'
  BY DEF SignOut, Mishap, SignedOut, library, pass, breaker, SyncedIsHeld, Held
<1>5. QED
  BY <1>1, <1>2, <1>3, <1>4

\* The server stops taking the tokens: no answer and no record changes.
LEMMA TokensExpireSafe ==
  ASSUME EngineInv, TokensExpire
  PROVE  EngineInv'
<1> USE DEF EngineInv, TypeOK, PassTypeOK
<1>a. fetch' \in [{"grid", "pass"} -> Fetch]
  <2>1. \A w \in {"grid", "pass"} : [fetch[w] EXCEPT !.token = Stale(@)] \in Fetch
    BY DEF Fetch, Stale
  <2>2. QED
    BY <2>1 DEF TokensExpire
<1>b. \A w \in {"grid", "pass"} : fetch'[w].answer = fetch[w].answer
  BY DEF TokensExpire, Fetch
<1>1. TypeOK'
  BY <1>a, MishapsAssumption DEF TokensExpire, Mishap, Stale, library, pass, breaker
<1>2. AnswersInv'
  BY <1>b DEF TokensExpire, pass, AnswersInv, Held
<1>3. BreakerInv'
  BY DEF TokensExpire, Mishap, library, pass, breaker, BreakerInv
<1>4. SyncedIsHeld'
  BY DEF TokensExpire, Mishap, library, pass, breaker, SyncedIsHeld, Held
<1>5. QED
  BY <1>1, <1>2, <1>3, <1>4

\* iOS ends the app: the records stay, and so does what they say.
LEMMA KillSafe ==
  ASSUME EngineInv, Kill
  PROVE  EngineInv'
<1> USE DEF EngineInv, TypeOK, PassTypeOK
<1>a. NoFetch \in Fetch /\ NoFetch.answer = None
  BY DEF NoFetch, Fetch
<1>0. mishaps' \in 0 .. MaxMishaps
  BY MishapsAssumption DEF Kill, Mishap
<1>d. fetch' \in [{"grid", "pass"} -> Fetch]
  BY <1>a DEF Kill
<1>e. fails' \in 0 .. Threshold - 1 /\ failureCount' \in 0 .. MaxRetries + 1
  BY ThresholdAssumption DEF Kill
<1>b. PassTypeOK'
  BY <1>d, <1>e, DistinctAssumption DEF Kill, Steps
<1>c. late' \subseteq Assets
  BY DEF Kill, LeaveBehind
<1>1. TypeOK'
  BY <1>0, <1>b, <1>c DEF Kill, library
<1>2. AnswersInv'
  BY <1>a DEF Kill, AnswersInv, Held
<1>3. BreakerInv'
  BY DEF Kill, Mishap, LeaveBehind, library, BreakerInv
<1>4. SyncedIsHeld'
  BY DEF Kill, Mishap, LeaveBehind, library, SyncedIsHeld, Held
<1>5. QED
  BY <1>1, <1>2, <1>3, <1>4

\* A step of nobody changes nothing that the invariant mentions.
LEMMA StutterSafe ==
  ASSUME EngineInv, UNCHANGED vars
  PROVE  EngineInv'
  BY DEF vars, library, session, pass, breaker, EngineInv, TypeOK, PassTypeOK, AnswersInv, BreakerInv,
         SyncedIsHeld, Held

\* Every step keeps the invariant.
LEMMA StepEngineInv ==
  ASSUME EngineInv, [Next]_vars
  PROVE  EngineInv'
<1>1. ASSUME Engine PROVE EngineInv'
  BY <1>1, LibraryChangedSafe, RetryFiresSafe, OpenGridSafe, ServeManifestSafe, ReconcileSafe,
     ReconcileFailsSafe, ReconcileUnauthorizedSafe, ExportSafe, ExportFailsSafe,
     StatusStoredSafe, StatusNotStoredSafe, ServerStoresSafe, UploadedSafe, UploadFailsSafe,
     UploadUnauthorizedSafe
  DEF Engine
<1>2. ASSUME User PROVE EngineInv'
  BY <1>2, SyncNowSafe, SignInSafe, SignOutSafe, CaptureSafe, DeleteInPhotosSafe DEF User
<1>3. ASSUME World PROVE EngineInv'
  BY <1>3, NetworkDownSafe, NetworkUpSafe, LateUploadStoredSafe DEF World
<1>4. QED
  BY <1>1, <1>2, <1>3, TokensExpireSafe, KillSafe, StutterSafe DEF Next

\* The strengthened invariant: what the manifests, the answers and the breaker's
\* count mean, at every await of SyncEngine.
THEOREM InvariantHolds == Spec => []EngineInv
  BY InitEngineInv, StepEngineInv, PTL DEF Spec

\* A synced badge means that the server holds the bytes (SyncDiff.reconcile,
\* uploadOne), for every library, threshold and sequence of mishaps.
THEOREM SyncedHeld == Spec => []SyncedIsHeld
<1>1. EngineInv => SyncedIsHeld
  BY DEF EngineInv
<1>2. QED
  BY <1>1, InvariantHolds, PTL

\* At most MaxRetries passes follow a trigger on the breaker's own account
\* (CircuitBreaker.scheduleRetry).
THEOREM BreakerBounds == Spec => []RetriesBounded
<1>1. EngineInv => RetriesBounded
  BY DEF EngineInv, BreakerInv, RetriesBounded
<1>2. QED
  BY <1>1, InvariantHolds, PTL
=============================================================================
