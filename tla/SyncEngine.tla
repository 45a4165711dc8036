----------------------------- MODULE SyncEngine -----------------------------
(***************************************************************************)
(* The phone's sync engine (phone-sync-app/PhoneSync/Services/SyncEngine,  *)
(* CircuitBreaker, SyncDiff, SyncStateStore, and the triggers in           *)
(* MediaGridView, GridViewModel and AppEnvironment) against a server that  *)
(* keeps the promise of module Library: a record once made stays.          *)
(*                                                                         *)
(* Everything runs on the main actor, so an action is what happens between *)
(* two awaits.  The awaits are: the manifest fetch, the export of an asset *)
(* to a temp file, the status query of a large file, the upload (for a     *)
(* large file its chunks and complete), and the sleep before a retry.      *)
(*                                                                         *)
(* Assets are numbered in the order of their estimated sizes.  setState    *)
(* and markSynced save the records at once, so the saved ones are the      *)
(* records themselves, and a killed app finds them as they were.  No       *)
(* record is "notSynced".                                                  *)
(*                                                                         *)
(* A definition named Mut... is no part of the model: it is the plausible  *)
(* bug that the mutation runs put in the place of the definition below it. *)
(***************************************************************************)
EXTENDS Naturals

CONSTANTS
  Assets,       \* a set of naturals, smaller files first
  ContentOf,    \* asset -> hash of its primary resource
  Initial,      \* assets in the photo library at first
  Large,        \* assets over SyncTuning.chunkSize
  Unreadable,   \* assets that cannot be exported
  Refused,      \* assets whose upload the server answers with an error
  Threshold,    \* failureThreshold
  MaxRetries,   \* of the circuit breaker
  Mishaps,      \* subset of {"outage", "kill", "signOut", "expiry"}
  MaxMishaps,   \* bound on their number
  None

Contents == {ContentOf[a] : a \in Assets}

ASSUME AssetsAssumption == Assets \subseteq Nat /\ ContentOf \in [Assets -> Contents]
ASSUME KindsAssumption == Initial \subseteq Assets /\ Large \subseteq Assets
                   /\ Unreadable \subseteq Assets /\ Refused \subseteq Assets
ASSUME ThresholdAssumption == Threshold \in Nat \ {0} /\ MaxRetries \in Nat
ASSUME MishapsAssumption == MaxMishaps \in Nat
ASSUME DistinctAssumption == None \notin Contents /\ None \notin Assets

VARIABLES
  phone, gone,  \* assets in the photo library; assets that were and are not
  listed,       \* the server's index: asset -> content or None
  up,           \* the network works
  auth,         \* the session: "out", "good", or "stale" (the server says 401)
  records,      \* asset -> state of its record
  grid,         \* MediaGridView: "hidden", "reconciling" or "shown"
  observing,    \* the library observer is registered
  notice,       \* a library change is queued on the main queue
  fetch,        \* per manifest fetch ("grid", "pass"): ids asked about, token, answer
  step,         \* of the pass: "idle" unless isSyncing
  todo, asset,  \* assets left; the one under way
  fails,        \* consecutiveFailures
  cancelled,    \* the task the pass runs in has been cancelled
  call,         \* the upload call: "none", "sent", or "stored" by the server
  retry,        \* retryTask: "none" or "sleeping"
  failureCount, \* of the circuit breaker
  late,         \* uploads the phone gave up on, still on their way
  mishaps,      \* number of outages, kills, sign-outs and expiries so far
  noticed,      \* history: assets taken while the observer was registered
  auto          \* history: retry passes since the last trigger from outside

library == <<phone, gone>>
session == <<auth, grid, observing, fetch>>
pass == <<step, todo, asset, fails, cancelled, call>>
breaker == <<retry, failureCount>>
vars == <<library, listed, up, session, records, notice, pass, breaker, late, mishaps,
          noticed, auto>>

Held == {listed[a] : a \in Assets} \ {None}
NoFetch == [ids |-> {}, token |-> "out", answer |-> None]

Init ==
  /\ phone = Initial /\ gone = {}
  /\ listed = [a \in Assets |-> None]
  /\ up = TRUE
  /\ auth = "out" /\ grid = "hidden" /\ observing = FALSE
  /\ fetch = [w \in {"grid", "pass"} |-> NoFetch]
  /\ records = [a \in Assets |-> "notSynced"]
  /\ notice = FALSE
  /\ step = "idle" /\ todo = {} /\ asset = None /\ fails = 0 /\ cancelled = FALSE
  /\ call = "none"
  /\ retry = "none" /\ failureCount = 0
  /\ late = {}
  /\ mishaps = 0
  /\ noticed = {} /\ auto = 0

(***************************************************************************)
(* The course of a pass.                                                   *)
(***************************************************************************)
EndPass ==
  /\ step' = "idle" /\ todo' = {} /\ asset' = None /\ fails' = 0 /\ cancelled' = FALSE
  /\ call' = "none"
  /\ fetch' = [fetch EXCEPT !["pass"] = NoFetch]

\* On to the next asset, or past the last one: breaker.reset, whatever the
\* outcomes were.  r: the records as the last outcome leaves them.
Proceed(r, rest, n) ==
  IF rest = {}
  THEN /\ EndPass
       /\ records' = r
       /\ failureCount' = 0
  ELSE \E next \in rest :
         /\ \A a \in rest : next <= a
         /\ asset' = next
         /\ todo' = rest \ {next}
         /\ records' = [r EXCEPT ![next] = "syncing"]
         /\ fails' = n
         /\ step' = "export"
         /\ call' = "none"
         /\ UNCHANGED <<cancelled, fetch, failureCount>>

MutUncounted ==
  /\ EndPass
  /\ records' = [records EXCEPT ![asset] = "failed"]
  /\ UNCHANGED failureCount
  /\ retry' = IF failureCount <= MaxRetries THEN "sleeping" ELSE "none"

\* Three transport failures in a row: the breaker opens, the pass stops.
\* canRetry only compares the count with maxRetries, so it is capped there.
Trip ==
  /\ EndPass
  /\ records' = [records EXCEPT ![asset] = "failed"]
  /\ failureCount' = IF failureCount > MaxRetries THEN failureCount ELSE failureCount + 1
  /\ retry' = IF failureCount' <= MaxRetries THEN "sleeping" ELSE "none"

TransportFailure ==
  IF fails + 1 >= Threshold
  THEN Trip
  ELSE Proceed([records EXCEPT ![asset] = "failed"], todo, fails + 1) /\ UNCHANGED retry

\* 401: the session ends, whichever token it was that the call carried; the
\* grid gives way to the sign-in screen.  A fetch of the grid's is cancelled, and
\* its task goes on to register the observer all the same.
SignedOut ==
  /\ auth' = "out" /\ grid' = "hidden"
  /\ observing' = (observing \/ grid = "reconciling")

(***************************************************************************)
(* Triggers.                                                               *)
(***************************************************************************)
MutKeepRetry(own) ==
  /\ step' = "fetch" /\ cancelled' = own
  /\ fetch' = [fetch EXCEPT !["pass"] = [ids |-> phone, token |-> auth, answer |-> None]]
  /\ UNCHANGED <<todo, asset, fails, call, retry>>

\* syncAll up to its first await.
StartPass(own) ==
  /\ step' = "fetch" /\ cancelled' = own
  /\ fetch' = [fetch EXCEPT !["pass"] = [ids |-> phone, token |-> auth, answer |-> None]]
  /\ retry' = "none"
  /\ UNCHANGED <<todo, asset, fails, call>>

MayStart == step = "idle" /\ auth # "out"

\* The Sync now button; the background task, which nothing schedules, would
\* do the same.
SyncNow ==
  /\ grid # "hidden"
  /\ MayStart
  /\ StartPass(FALSE)
  /\ auto' = 0
  /\ UNCHANGED <<library, listed, up, auth, grid, observing, records, notice, failureCount,
                 late, mishaps, noticed>>

\* The observer's handler: a pass, unless one is running already or nobody is
\* signed in.  Changes that pile up before it runs make no difference.
LibraryChanged ==
  /\ notice
  /\ notice' = FALSE
  /\ IF MayStart
     THEN StartPass(FALSE) /\ auto' = 0
     ELSE UNCHANGED <<pass, fetch, retry, auto>>
  /\ UNCHANGED <<library, listed, up, auth, grid, observing, records, failureCount,
                 late, mishaps, noticed>>

\* The sleep is over.  syncAll begins by cancelling retryTask, which is the
\* task it is running in.
RetryFires ==
  /\ retry = "sleeping"
  /\ IF MayStart
     THEN StartPass(TRUE) /\ auto' = auto + 1
     ELSE retry' = "none" /\ UNCHANGED <<pass, fetch, auto>>
  /\ UNCHANGED <<library, listed, up, auth, grid, observing, records, notice, failureCount,
                 late, mishaps, noticed>>

(***************************************************************************)
(* The manifest.                                                           *)
(***************************************************************************)
Fetching(w) == IF w = "pass" THEN step = "fetch" ELSE grid = "reconciling"

\* A call reaches the server: the network works and its task is alive.
Reaches(w) == up /\ ~(w = "pass" /\ cancelled)

\* The grid appears and reconciles before it starts to observe.
OpenGrid ==
  /\ auth # "out" /\ grid = "hidden"
  /\ grid' = "reconciling"
  /\ fetch' = [fetch EXCEPT !["grid"] = [ids |-> phone, token |-> auth, answer |-> None]]
  /\ UNCHANGED <<library, listed, up, auth, observing, records, notice, pass, breaker, late,
                 mishaps, noticed, auto>>

ServeManifest(w) ==
  /\ Fetching(w) /\ Reaches(w)
  /\ fetch[w].answer = None /\ fetch[w].token = "good"
  /\ fetch' = [fetch EXCEPT ![w].answer = {a \in Assets : listed[a] # None}]
  /\ UNCHANGED <<library, listed, up, auth, grid, observing, records, notice, pass, breaker,
                 late, mishaps, noticed, auto>>

\* SyncDiff.reconcile.
Marked(ids, manifest) ==
  [a \in Assets |-> IF a \in ids \cap manifest THEN "synced" ELSE records[a]]

MutNeverTried(ids, r) == {a \in ids : r[a] = "notSynced"}

\* SyncDiff.notSynced.
NotSynced(ids, r) == {a \in ids : r[a] # "synced"}

\* The rest of what follows reconcile's await: the pass goes on to upload, the
\* grid starts to observe.
AfterReconcile(w, r) ==
  IF w = "pass"
  THEN Proceed(r, NotSynced(fetch[w].ids, r), 0) /\ UNCHANGED <<grid, observing>>
  ELSE /\ grid' = "shown" /\ observing' = TRUE
       /\ records' = r
       /\ fetch' = [fetch EXCEPT !["grid"] = NoFetch]
       /\ UNCHANGED <<pass, failureCount>>

Reconcile(w) ==
  /\ Fetching(w) /\ Reaches(w)
  /\ fetch[w].answer # None
  /\ AfterReconcile(w, Marked(fetch[w].ids, fetch[w].answer))
  /\ UNCHANGED <<library, listed, up, auth, notice, retry, late, mishaps, noticed, auto>>

\* The error is noted in lastError and the pass goes on.
ReconcileFails(w) ==
  /\ Fetching(w) /\ ~Reaches(w)
  /\ AfterReconcile(w, records)
  /\ UNCHANGED <<library, listed, up, auth, notice, retry, late, mishaps, noticed, auto>>

\* 401 signs out, and a pass still goes on with the token it has.
ReconcileUnauthorized(w) ==
  /\ Fetching(w) /\ Reaches(w)
  /\ fetch[w].token = "stale"
  /\ SignedOut
  /\ IF w = "pass"
     THEN Proceed(records, NotSynced(fetch[w].ids, records), 0)
     ELSE UNCHANGED <<records, pass, failureCount, fetch>>
  /\ UNCHANGED <<library, listed, up, notice, retry, late, mishaps, noticed, auto>>

(***************************************************************************)
(* uploadOne.                                                              *)
(***************************************************************************)
token == fetch["pass"].token

Send == step' = "upload" /\ call' = "sent"

MutMarkEarly ==
  /\ step = "export"
  /\ asset \in phone \ Unreadable
  /\ IF asset \in Large THEN step' = "status" /\ UNCHANGED call ELSE Send
  /\ records' = [records EXCEPT ![asset] = "synced"]
  /\ UNCHANGED <<library, listed, up, session, notice, todo, asset, fails, cancelled,
                 breaker, late, mishaps, noticed, auto>>

Export ==
  /\ step = "export"
  /\ asset \in phone \ Unreadable
  /\ IF asset \in Large THEN step' = "status" /\ UNCHANGED call ELSE Send
  /\ UNCHANGED <<library, listed, up, session, records, notice, todo, asset, fails, cancelled,
                 breaker, late, mishaps, noticed, auto>>

MutNeverResumes ==
  /\ step = "export"
  /\ asset \in Unreadable \/ (asset \in phone /\ ~up)
  /\ Proceed([records EXCEPT ![asset] = "failed"], todo, 0)
  /\ UNCHANGED <<library, listed, up, auth, grid, observing, notice, retry, late, mishaps,
                 noticed, auto>>

\* The asset is gone, or its original is in iCloud and cannot be fetched.
ExportFails ==
  /\ step = "export"
  /\ asset \in Unreadable \/ asset \notin phone \/ ~up
  /\ Proceed([records EXCEPT ![asset] = "failed"], todo, 0)
  /\ UNCHANGED <<library, listed, up, auth, grid, observing, notice, retry, late, mishaps,
                 noticed, auto>>

Synced == Proceed([records EXCEPT ![asset] = "synced"], todo, 0)

\* The server has the content already: done, without complete, so the asset
\* gets no record of its own.
StatusStored ==
  /\ step = "status" /\ Reaches("pass") /\ token = "good"
  /\ ContentOf[asset] \in Held
  /\ Synced
  /\ UNCHANGED <<library, listed, up, auth, grid, observing, notice, retry, late, mishaps,
                 noticed, auto>>

StatusNotStored ==
  /\ step = "status" /\ Reaches("pass") /\ token = "good"
  /\ ContentOf[asset] \notin Held
  /\ Send
  /\ UNCHANGED <<library, listed, up, session, records, notice, todo, asset, fails, cancelled,
                 breaker, late, mishaps, noticed, auto>>

\* The server files the content and makes the record (module MediaStore).
ServerStores ==
  /\ step = "upload" /\ call = "sent" /\ Reaches("pass") /\ token = "good"
  /\ asset \notin Refused
  /\ listed' = [listed EXCEPT ![asset] = ContentOf[asset]]
  /\ call' = "stored"
  /\ UNCHANGED <<library, up, session, records, notice, step, todo, asset, fails, cancelled,
                 breaker, late, mishaps, noticed, auto>>

Uploaded ==
  /\ step = "upload" /\ call = "stored" /\ Reaches("pass")
  /\ Synced
  /\ UNCHANGED <<library, listed, up, auth, grid, observing, notice, retry, late, mishaps,
                 noticed, auto>>

\* What the phone gives up on may still be on its way.
LeaveBehind ==
  late' = IF call = "sent" /\ ~cancelled /\ token = "good" /\ asset \notin Refused
          THEN late \cup {asset} ELSE late

\* The call fails or its answer is lost, or the server refuses.
UploadFails ==
  /\ \/ step \in {"status", "upload"} /\ ~Reaches("pass")
     \/ step = "upload" /\ call = "sent" /\ up /\ token = "good" /\ asset \in Refused
  /\ TransportFailure
  /\ LeaveBehind
  /\ UNCHANGED <<library, listed, up, auth, grid, observing, notice, mishaps, noticed, auto>>

UploadUnauthorized ==
  /\ step \in {"status", "upload"} /\ call # "stored" /\ Reaches("pass") /\ token = "stale"
  /\ records' = [records EXCEPT ![asset] = "failed"]
  /\ EndPass
  /\ SignedOut
  /\ UNCHANGED <<library, listed, up, notice, breaker, late, mishaps, noticed, auto>>

(***************************************************************************)
(* The environment: the photo library, the network, the session, iOS.      *)
(***************************************************************************)
LateUploadStored(a) ==
  /\ a \in late
  /\ late' = late \ {a}
  /\ listed' = [listed EXCEPT ![a] = ContentOf[a]]
  /\ UNCHANGED <<library, up, session, records, notice, pass, breaker, mishaps, noticed, auto>>

Capture(a) ==
  /\ a \notin phone \cup gone
  /\ phone' = phone \cup {a}
  /\ notice' = (notice \/ observing)
  /\ noticed' = IF observing THEN noticed \cup {a} ELSE noticed
  /\ UNCHANGED <<gone, listed, up, session, records, pass, breaker, late, mishaps, auto>>

\* The user deletes a photo in the Photos app.
DeleteInPhotos(a) ==
  /\ a \in phone
  /\ phone' = phone \ {a} /\ gone' = gone \cup {a}
  /\ notice' = (notice \/ observing)
  /\ UNCHANGED <<listed, up, session, records, pass, breaker, late, mishaps, noticed, auto>>

Mishap(kind) ==
  /\ kind \in Mishaps /\ mishaps < MaxMishaps
  /\ mishaps' = mishaps + 1

NetworkDown ==
  /\ up
  /\ Mishap("outage")
  /\ up' = FALSE
  /\ UNCHANGED <<library, listed, session, records, notice, pass, breaker, late, noticed, auto>>

NetworkUp ==
  /\ ~up
  /\ up' = TRUE
  /\ UNCHANGED <<library, listed, session, records, notice, pass, breaker, late, mishaps,
                 noticed, auto>>

SignIn ==
  /\ auth = "out" /\ up
  /\ auth' = "good"
  /\ UNCHANGED <<library, listed, up, grid, observing, fetch, records, notice, pass, breaker,
                 late, mishaps, noticed, auto>>

\* Sign-out in Settings, or the token's own expiry.  A running pass keeps the
\* token it started with.
SignOut ==
  /\ auth # "out"
  /\ Mishap("signOut")
  /\ SignedOut
  /\ UNCHANGED <<library, listed, up, fetch, records, notice, pass, breaker, late, noticed, auto>>

\* The server stops accepting the tokens it has given out (a new secret).
Stale(t) == IF t = "good" THEN "stale" ELSE t

TokensExpire ==
  /\ Mishap("expiry")
  /\ auth' = Stale(auth)
  /\ fetch' = [w \in {"grid", "pass"} |-> [fetch[w] EXCEPT !.token = Stale(@)]]
  /\ UNCHANGED <<library, listed, up, grid, observing, records, notice, pass, breaker, late,
                 noticed, auto>>

\* iOS ends the app: only the records and the Keychain's token stay.
Kill ==
  /\ Mishap("kill")
  /\ grid' = "hidden" /\ observing' = FALSE /\ notice' = FALSE
  /\ step' = "idle" /\ todo' = {} /\ asset' = None /\ fails' = 0 /\ cancelled' = FALSE
  /\ call' = "none"
  /\ fetch' = [w \in {"grid", "pass"} |-> NoFetch]
  /\ retry' = "none" /\ failureCount' = 0
  /\ LeaveBehind
  /\ UNCHANGED <<library, listed, up, auth, records, noticed, auto>>

Engine ==
  \/ LibraryChanged \/ RetryFires \/ OpenGrid
  \/ \E w \in {"grid", "pass"} :
       ServeManifest(w) \/ Reconcile(w) \/ ReconcileFails(w) \/ ReconcileUnauthorized(w)
  \/ Export \/ ExportFails \/ StatusStored \/ StatusNotStored
  \/ ServerStores \/ Uploaded \/ UploadFails \/ UploadUnauthorized

User == SyncNow \/ SignIn \/ SignOut \/ \E a \in Assets : Capture(a) \/ DeleteInPhotos(a)

World == NetworkDown \/ NetworkUp \/ \E a \in Assets : LateUploadStored(a)

Next == Engine \/ User \/ World \/ TokensExpire \/ Kill

Spec == Init /\ [][Next]_vars

PassStep ==
  \/ ServeManifest("pass") \/ Reconcile("pass")
  \/ ReconcileFails("pass") \/ ReconcileUnauthorized("pass")
  \/ Export \/ ExportFails \/ StatusStored \/ StatusNotStored
  \/ ServerStores \/ Uploaded \/ UploadFails \/ UploadUnauthorized

GridStep ==
  \/ OpenGrid \/ ServeManifest("grid") \/ Reconcile("grid")
  \/ ReconcileFails("grid") \/ ReconcileUnauthorized("grid")

\* The main actor runs what is ready, every call ends in an answer or a
\* timeout, timers fire, and an outage ends.
Fairness ==
  /\ WF_vars(PassStep) /\ WF_vars(GridStep)
  /\ WF_vars(LibraryChanged) /\ WF_vars(RetryFires)
  /\ WF_vars(NetworkUp)

FairSpec == Spec /\ Fairness

\* A user who signs in again and, from time to time, presses Sync now.
UserSpec == FairSpec /\ WF_vars(SignIn) /\ SF_vars(SyncNow)

(***************************************************************************)
(* Properties.                                                             *)
(***************************************************************************)
Steps == {"idle", "fetch", "export", "status", "upload"}
Fetch == [ids : SUBSET Assets, token : {"out", "good", "stale"},
          answer : (SUBSET Assets) \cup {None}]

RecordStates == {"notSynced", "syncing", "synced", "failed"}

\* What a pass moves has its type, and there is an asset under way exactly when
\* the step works on one.
PassTypeOK ==
  /\ records \in [Assets -> RecordStates]
  /\ fetch \in [{"grid", "pass"} -> Fetch]
  /\ step \in Steps
  /\ todo \subseteq Assets
  /\ asset \in Assets \cup {None}
  /\ (asset \in Assets) <=> step \in {"export", "status", "upload"}
  /\ fails \in 0 .. Threshold - 1
  /\ cancelled \in BOOLEAN
  /\ call \in {"none", "sent", "stored"}
  /\ (call # "none") <=> (step = "upload")
  /\ failureCount \in 0 .. MaxRetries + 1

\* Every variable has its type.
TypeOK ==
  /\ PassTypeOK
  /\ phone \subseteq Assets /\ gone \subseteq Assets
  /\ listed \in [Assets -> Contents \cup {None}]
  /\ up \in BOOLEAN
  /\ auth \in {"out", "good", "stale"}
  /\ grid \in {"hidden", "reconciling", "shown"}
  /\ observing \in BOOLEAN /\ notice \in BOOLEAN
  /\ retry \in {"none", "sleeping"}
  /\ late \subseteq Assets
  /\ mishaps \in 0 .. MaxMishaps
  /\ noticed \subseteq Assets
  /\ auto \in Nat

\* A synced badge means that the server holds the asset's bytes, whatever
\* manifests, answers and kills came in between.
SyncedIsHeld == \A a \in Assets : records[a] = "synced" => ContentOf[a] \in Held

\* The breaker stops an outage's retries: at most MaxRetries automatic passes
\* follow a trigger from outside.
RetriesBounded == auto <= MaxRetries

\* A pass always ends.
PassEnds == (step # "idle") ~> (step = "idle")

\* Whatever the server takes and the phone can read is backed up, after any
\* outage, kill or expired session and beside assets that always fail.
EventuallyBackedUp ==
  \A a \in Assets \ (Unreadable \cup Refused) :
    (a \in phone) ~> (records[a] = "synced" \/ a \notin phone)

\* The observer "notices new captures and uploads them" (README.md:50).
\* No run checks it: TLC refutes it, by a capture during a pass.
CapturesUploaded ==
  \A a \in Assets : (a \in noticed) ~> (listed[a] # None \/ a \notin phone)

\* Once the network is back for good, the retry that the breaker scheduled
\* uploads what the outage left (SyncEngine.swift:98-101).
RetryUploads ==
  (retry = "sleeping" /\ up /\ mishaps = MaxMishaps)
    ~> (\A a \in phone : records[a] = "synced")

(***************************************************************************)
(* The inductive invariant.                                                *)
(***************************************************************************)
\* What a manifest answered is in the index; an upload that was stored is held.
AnswersInv ==
  /\ \A w \in {"grid", "pass"} :
       fetch[w].answer # None => \A a \in fetch[w].answer : listed[a] # None
  /\ call = "stored" => ContentOf[asset] \in Held
  /\ \A a \in Assets : listed[a] \in {None, ContentOf[a]}

\* The breaker's count covers the retries since the last trigger, and a retry
\* sleeps only between passes.
BreakerInv ==
  /\ retry = "sleeping" => step = "idle" /\ failureCount <= MaxRetries /\ auto < failureCount
  /\ step # "idle" /\ auto > 0 => auto <= failureCount
  /\ auto <= MaxRetries

EngineInv == TypeOK /\ AnswersInv /\ BreakerInv /\ SyncedIsHeld
=============================================================================
