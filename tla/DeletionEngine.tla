--------------------------- MODULE DeletionEngine ---------------------------
(***************************************************************************)
(* Freeing space on the phone (phone-sync-app/PhoneSync/Services/          *)
(* DeletionEngine.swift): list what the server has, have it re-hash every  *)
(* candidate, delete what it confirms, forget the records.  It runs on the *)
(* main actor beside the sync engine, with which it shares the photo       *)
(* library, the session and the records: this module is the two together.  *)
(*                                                                         *)
(* Files may disappear from the server's media root, which other programs  *)
(* use; the server's listing goes on naming them (module MediaStoreShared).*)
(* A definition named Mut... is a bug of the mutation runs, as in          *)
(* SyncEngine.                                                             *)
(***************************************************************************)
EXTENDS SyncEngine, FiniteSets

CONSTANTS
  MaxBatch,  \* maxBatchCount; the bytes bound works the same way
  MayEdit    \* assets the user may edit in Photos

ASSUME BatchAssumption == MaxBatch \in Nat \ {0} /\ MayEdit \subseteq Assets

VARIABLES
  lost,      \* listed contents whose file is gone from the media root
  edited,    \* assets with an edited rendition besides the original
  phase,     \* "idle" unless isWorking
  key,       \* the token the run started with
  waiting,   \* candidates not yet verified
  batch,     \* the batch being verified
  answer,    \* the hashes verified in the server's answer, or None
  verified,  \* candidates to delete
  freed,     \* history: assets this engine deleted
  rehashed   \* history: hashes the server found intact since the run began

run == <<phase, key, waiting, batch, answer, verified>>
dvars == <<lost, edited, run, freed, rehashed>>
allvars == <<vars, dvars>>

DInit ==
  /\ Init
  /\ lost = {} /\ edited = {}
  /\ phase = "idle" /\ key = "out"
  /\ waiting = {} /\ batch = {} /\ answer = None /\ verified = {}
  /\ freed = {} /\ rehashed = {}

Stop ==
  /\ phase' = "idle" /\ key' = "out"
  /\ waiting' = {} /\ batch' = {} /\ answer' = None /\ verified' = {}

\* The button of FreeUpSpaceView and its confirmation.
DeleteAllBackedUp ==
  /\ phase = "idle" /\ auth # "out" /\ grid # "hidden"
  /\ phase' = "list" /\ key' = auth
  /\ rehashed' = {}
  /\ UNCHANGED <<vars, lost, edited, waiting, batch, answer, verified, freed>>

\* With nothing left to verify, iOS is asked to delete what was confirmed.
NextBatch(rest, found) ==
  IF rest # {}
  THEN /\ \E B \in SUBSET rest : /\ B # {} /\ Cardinality(B) <= MaxBatch
                                 /\ batch' = B
       /\ phase' = "verify" /\ waiting' = rest /\ verified' = found
       /\ answer' = None
       /\ UNCHANGED key
  ELSE IF found = {} THEN Stop
  ELSE /\ phase' = "prompt" /\ waiting' = {} /\ batch' = {} /\ answer' = None
       /\ verified' = found
       /\ UNCHANGED key

\* The server's listing, intersected with the assets on this device.
GatherCandidates ==
  /\ phase = "list" /\ up /\ key = "good"
  /\ NextBatch({a \in phone : listed[a] # None}, {})
  /\ UNCHANGED <<vars, lost, edited, freed, rehashed>>

\* No listing, no candidates.  A 401 here does not sign out.
GatherFails ==
  /\ phase = "list" /\ (~up \/ key = "stale")
  /\ Stop
  /\ UNCHANGED <<vars, lost, edited, freed, rehashed>>

\* verify_item on each hash of the batch, deep.
Intact == Held \ lost

MutTrustIndex ==
  /\ phase = "verify" /\ answer = None /\ up /\ key = "good"
  /\ answer' = {ContentOf[a] : a \in batch} \cap Held
  /\ rehashed' = rehashed \cup ({ContentOf[a] : a \in batch} \cap Intact)
  /\ UNCHANGED <<vars, lost, edited, phase, key, waiting, batch, verified, freed>>

ServeVerify ==
  /\ phase = "verify" /\ answer = None /\ up /\ key = "good"
  /\ answer' = {ContentOf[a] : a \in batch} \cap Intact
  /\ rehashed' = rehashed \cup answer'
  /\ UNCHANGED <<vars, lost, edited, phase, key, waiting, batch, verified, freed>>

\* plan: delete the candidates whose hash was verified, keep the others.
Plan ==
  /\ phase = "verify" /\ answer # None /\ up
  /\ NextBatch(waiting \ batch, verified \cup {a \in batch : ContentOf[a] \in answer})
  /\ UNCHANGED <<vars, lost, edited, freed, rehashed>>

MutDeleteUnconfirmed ==
  /\ phase = "verify" /\ (~up \/ key = "stale")
  /\ NextBatch(waiting \ batch, verified \cup batch)
  /\ UNCHANGED <<vars, lost, edited, freed, rehashed>>

\* Any failure keeps the whole batch.
VerifyFails ==
  /\ phase = "verify" /\ (~up \/ key = "stale")
  /\ NextBatch(waiting \ batch, verified)
  /\ UNCHANGED <<vars, lost, edited, freed, rehashed>>

\* The user agrees and Photos deletes what is still there, whose observer is
\* told; the engine's task resumes later.
PhotosDelete ==
  /\ phase = "prompt"
  /\ phone' = phone \ verified
  /\ gone' = gone \cup (verified \cap phone)
  /\ freed' = freed \cup (verified \cap phone)
  /\ notice' = (notice \/ (observing /\ verified \cap phone # {}))
  /\ phase' = "forget"
  /\ UNCHANGED <<listed, up, session, records, pass, breaker, late, mishaps, noticed, auto,
                 lost, edited, key, waiting, batch, answer, verified, rehashed>>

PromptCancelled ==
  /\ phase = "prompt"
  /\ Stop
  /\ UNCHANGED <<vars, lost, edited, freed, rehashed>>

Forget ==
  /\ phase = "forget"
  /\ records' = [a \in Assets |-> IF a \in verified THEN "notSynced" ELSE records[a]]
  /\ Stop
  /\ UNCHANGED <<library, listed, up, session, notice, pass, breaker, late, mishaps, noticed,
                 auto, lost, edited, freed, rehashed>>

\* The environment.
TakeFile(c) ==
  /\ c \in Intact
  /\ Mishap("taken")
  /\ lost' = lost \cup {c}
  /\ UNCHANGED <<library, listed, up, session, records, notice, pass, breaker, late, noticed,
                 auto, edited, run, freed, rehashed>>

Edit(a) ==
  /\ a \in (MayEdit \cap phone) \ edited
  /\ edited' = edited \cup {a}
  /\ notice' = (notice \/ observing)
  /\ UNCHANGED <<library, listed, up, session, records, pass, breaker, late, mishaps, noticed,
                 auto, lost, run, freed, rehashed>>

\* A step of the sync engine and its server.  An upload of a lost content
\* files it again; a kill ends this engine's run too.
Refiled ==
  {ContentOf[a] : a \in {b \in late : b \notin late'} \cup
                        {b \in {asset} \ {None} : call = "sent" /\ call' = "stored"}}

SyncStep ==
  /\ Engine \/ User \/ World
  /\ lost' = lost \ Refiled
  /\ UNCHANGED <<edited, run, freed, rehashed>>

DTokensExpire ==
  /\ TokensExpire
  /\ key' = Stale(key)
  /\ UNCHANGED <<lost, edited, phase, waiting, batch, answer, verified, freed, rehashed>>

DKill ==
  /\ Kill
  /\ Stop
  /\ UNCHANGED <<lost, edited, freed, rehashed>>

DeletionStep ==
  \/ DeleteAllBackedUp \/ GatherCandidates \/ GatherFails
  \/ ServeVerify \/ Plan \/ VerifyFails
  \/ PhotosDelete \/ PromptCancelled \/ Forget

DNext ==
  \/ DeletionStep \/ SyncStep \/ DTokensExpire \/ DKill
  \/ \E c \in Contents : TakeFile(c)
  \/ \E a \in Assets : Edit(a)

DSpec == DInit /\ [][DNext]_allvars

(***************************************************************************)
(* Properties.                                                             *)
(***************************************************************************)
\* Every variable of the deletion engine has its type, and each phase has the
\* data it works on.
DTypeOK ==
  /\ lost \subseteq Contents
  /\ edited \subseteq Assets
  /\ phase \in {"idle", "list", "verify", "prompt", "forget"}
  /\ key \in {"out", "good", "stale"}
  /\ batch \subseteq waiting /\ waiting \subseteq Assets
  /\ answer \in (SUBSET Contents) \cup {None}
  /\ verified \subseteq Assets
  /\ freed \subseteq gone
  /\ rehashed \subseteq Contents
  /\ (phase = "verify") <=> (batch # {})
  /\ phase \in {"idle", "list"} => waiting = {} /\ answer = None /\ verified = {}

\* The engine deletes an asset only if, in this very run, the server found its
\* bytes intact: an error, a lost answer, a missing file or an expired session
\* keeps it.
DeletesOnlyConfirmed == [][\A a \in freed' \ freed : ContentOf[a] \in rehashed]_allvars

\* Beside the deletion engine too, a synced badge means that the server has a
\* record of the bytes, and the engine's run and the breaker are as they were.
SyncStaysSound == EngineInv

\* "Only items the server confirms it holds in full - exact content and size -
\* are deleted" (FreeUpSpaceView.swift).  No run checks it: TLC refutes it, by a
\* photo that is edited on the phone after its original was uploaded.
NoEditLost == freed \cap edited = {}

\* What is confirmed so far was found intact in this run.
ConfirmedInv ==
  /\ answer # None => answer \subseteq rehashed
  /\ \A a \in verified : ContentOf[a] \in rehashed

DInv == DTypeOK /\ ConfirmedInv /\ SyncStaysSound
=============================================================================
