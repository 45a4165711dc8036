------------------------ MODULE DeletionEngineProofs ------------------------
(* Proofs about DeletionEngine, for every value of its constants. *)
EXTENDS DeletionEngine, SyncEngineProofs

\* The end of a run: nothing is left of it (DeletionEngine's defer).
LEMMA StopSound ==
  ASSUME Stop, lost' \subseteq Contents, edited' \subseteq Assets, freed' \subseteq gone',
         rehashed' \subseteq Contents
  PROVE  DTypeOK' /\ ConfirmedInv'
  BY DEF Stop, DTypeOK, ConfirmedInv

\* The next batch, the prompt or the end (verifyInBatches, deleteAllBackedUp): all
\* that goes on to the prompt is in found.
LEMMA NextBatchSound ==
  ASSUME DInv, NEW rest \in SUBSET Assets, NEW found \in SUBSET Assets,
         \A a \in found : ContentOf[a] \in rehashed, NextBatch(rest, found),
         UNCHANGED <<vars, lost, edited, freed, rehashed>>
  PROVE  DTypeOK' /\ ConfirmedInv'
<1> USE DEF DInv
<1>1. CASE rest # {}
  <2>1. PICK B \in SUBSET rest : B # {} /\ batch' = B
    BY <1>1 DEF NextBatch
  <2>2. phase' = "verify" /\ waiting' = rest /\ verified' = found /\ answer' = None /\ key' = key
    BY <1>1 DEF NextBatch
  <2>3. DTypeOK'
    BY <2>1, <2>2 DEF DTypeOK, vars, library
  <2>4. ConfirmedInv'
    BY <2>2 DEF ConfirmedInv
  <2>5. QED
    BY <2>3, <2>4
<1>2. CASE rest = {} /\ found = {}
  <2>1. Stop
    BY <1>2 DEF NextBatch
  <2>2. QED
    BY <2>1, StopSound DEF DTypeOK, vars, library
<1>3. CASE rest = {} /\ found # {}
  <2>1. /\ phase' = "prompt" /\ waiting' = {} /\ batch' = {} /\ answer' = None
        /\ verified' = found /\ key' = key
    BY <1>3 DEF NextBatch
  <2>2. DTypeOK'
    BY <2>1 DEF DTypeOK, vars, library
  <2>3. ConfirmedInv'
    BY <2>1 DEF ConfirmedInv
  <2>4. QED
    BY <2>2, <2>3
<1>4. QED
  BY <1>1, <1>2, <1>3

\* The sync engine's invariant does not mention what a step of the deletion engine
\* changes alone.
LEMMA SyncUntouched ==
  ASSUME DInv, UNCHANGED vars
  PROVE  SyncStaysSound'
  BY StutterSafe DEF DInv, SyncStaysSound

\* The run begins with nothing confirmed (deleteAllBackedUp).
LEMMA DeleteAllBackedUpSafe ==
  ASSUME DInv, DeleteAllBackedUp
  PROVE  DInv'
<1>1. auth \in {"out", "good", "stale"}
  BY DEF DInv, SyncStaysSound, EngineInv, TypeOK
<1>2. DTypeOK'
  BY <1>1 DEF DInv, DTypeOK, DeleteAllBackedUp, vars, library
<1>3. ConfirmedInv'
  BY DEF DInv, DTypeOK, ConfirmedInv, DeleteAllBackedUp
<1>4. QED
  BY <1>2, <1>3, SyncUntouched DEF DeleteAllBackedUp, DInv

\* The candidates: nothing is confirmed yet (gatherCandidates).
LEMMA GatherSafe ==
  ASSUME DInv, GatherCandidates \/ GatherFails
  PROVE  DInv'
<1>1. CASE GatherCandidates
  <2>1. {a \in phone : listed[a] # None} \in SUBSET Assets
    BY DEF DInv, SyncStaysSound, EngineInv, TypeOK
  <2>2. DTypeOK' /\ ConfirmedInv'
    BY <1>1, <2>1, NextBatchSound DEF GatherCandidates
  <2>3. QED
    BY <1>1, <2>2, SyncUntouched DEF GatherCandidates, DInv
<1>2. CASE GatherFails
  <2>1. DTypeOK' /\ ConfirmedInv'
    BY <1>2, StopSound DEF GatherFails, DInv, DTypeOK, vars, library
  <2>2. QED
    BY <1>2, <2>1, SyncUntouched DEF GatherFails, DInv
<1>3. QED
  BY <1>1, <1>2

\* The server re-hashes the batch (verify): what it answers, it found intact.
LEMMA ServeVerifySafe ==
  ASSUME DInv, ServeVerify
  PROVE  DInv'
<1>1. answer' \subseteq Contents
  BY AssetsAssumption DEF ServeVerify, Intact, Held, DInv, SyncStaysSound, EngineInv, TypeOK
<1>2. DTypeOK'
  BY <1>1 DEF DInv, DTypeOK, ServeVerify, vars, library
<1>3. ConfirmedInv'
  BY DEF DInv, ConfirmedInv, ServeVerify
<1>4. QED
  BY <1>2, <1>3, SyncUntouched DEF ServeVerify, DInv

\* The verdicts: a candidate goes on only with a confirmed hash (plan), and with none
\* of its batch when the call failed.
LEMMA VerdictSafe ==
  ASSUME DInv, Plan \/ VerifyFails
  PROVE  DInv'
<1> DEFINE found == verified \cup {a \in batch : ContentOf[a] \in answer}
<1>1. waiting \ batch \in SUBSET Assets /\ verified \in SUBSET Assets /\ found \in SUBSET Assets
  BY DEF DInv, DTypeOK
<1>2. \A a \in verified : ContentOf[a] \in rehashed
  BY DEF DInv, ConfirmedInv
<1>3. CASE Plan
  <2>1. \A a \in found : ContentOf[a] \in rehashed
    BY <1>3 DEF Plan, DInv, ConfirmedInv
  <2>2. NextBatch(waiting \ batch, found) /\ UNCHANGED <<vars, lost, edited, freed, rehashed>>
    BY <1>3 DEF Plan
  <2> HIDE DEF found
  <2>3. DTypeOK' /\ ConfirmedInv'
    BY <1>1, <2>1, <2>2, NextBatchSound
  <2>4. QED
    BY <2>2, <2>3, SyncUntouched DEF DInv
<1>4. CASE VerifyFails
  <2>1. DTypeOK' /\ ConfirmedInv'
    BY <1>1, <1>2, <1>4, NextBatchSound DEF VerifyFails
  <2>2. QED
    BY <1>4, <2>1, SyncUntouched DEF VerifyFails, DInv
<1>5. QED
  BY <1>3, <1>4

\* Photos deletes what was confirmed, and the sync engine is told.
LEMMA PhotosDeleteSafe ==
  ASSUME DInv, PhotosDelete
  PROVE  DInv'
<1>1. verified \subseteq Assets /\ phone \subseteq Assets /\ gone \subseteq Assets
  BY DEF DInv, DTypeOK, SyncStaysSound, EngineInv, TypeOK
<1>2. DTypeOK'
  BY <1>1 DEF DInv, DTypeOK, PhotosDelete
<1>3. ConfirmedInv'
  BY DEF DInv, ConfirmedInv, PhotosDelete
<1>4. notice' \in BOOLEAN
  BY DEF PhotosDelete
<1>5. PassTypeOK'
  BY DEF DInv, SyncStaysSound, EngineInv, TypeOK, PassTypeOK, PhotosDelete, session, pass, breaker
<1>6. TypeOK'
  BY <1>1, <1>4, <1>5
  DEF DInv, SyncStaysSound, EngineInv, TypeOK, PhotosDelete, session, pass, breaker
<1>7. AnswersInv' /\ BreakerInv' /\ SyncedIsHeld'
  BY DEF DInv, SyncStaysSound, EngineInv, AnswersInv, BreakerInv, SyncedIsHeld, Held, PhotosDelete,
         session, pass, breaker
<1>8. QED
  BY <1>2, <1>3, <1>6, <1>7 DEF DInv, SyncStaysSound, EngineInv

\* The user cancels (the prompt's error), and the run ends.
LEMMA PromptCancelledSafe ==
  ASSUME DInv, PromptCancelled
  PROVE  DInv'
<1>1. DTypeOK' /\ ConfirmedInv'
  BY StopSound DEF PromptCancelled, DInv, DTypeOK, vars, library
<1>2. QED
  BY <1>1, SyncUntouched DEF PromptCancelled, DInv

\* Forgetting takes badges away and gives none (SyncStateStore.remove).
LEMMA ForgetSafe ==
  ASSUME DInv, Forget
  PROVE  DInv'
<1>1. DTypeOK' /\ ConfirmedInv'
  BY StopSound DEF Forget, DInv, DTypeOK, library
<1>2. records' \in [Assets -> RecordStates]
  BY DEF Forget, DInv, SyncStaysSound, EngineInv, TypeOK, PassTypeOK, RecordStates
<1>3. PassTypeOK'
  BY <1>2 DEF Forget, DInv, SyncStaysSound, EngineInv, TypeOK, PassTypeOK, session, pass, breaker
<1>4. TypeOK'
  BY <1>3 DEF Forget, DInv, SyncStaysSound, EngineInv, TypeOK, library, session, pass, breaker
<1>5. AnswersInv' /\ BreakerInv'
  BY DEF Forget, DInv, SyncStaysSound, EngineInv, AnswersInv, BreakerInv, Held, session, pass, breaker
<1>6. SyncedIsHeld'
  BY DEF Forget, DInv, SyncStaysSound, EngineInv, SyncedIsHeld, Held
<1>7. QED
  BY <1>1, <1>4, <1>5, <1>6 DEF DInv, SyncStaysSound, EngineInv

\* A file that is taken, or an edit in Photos, keeps the invariant.
LEMMA WorldSafe ==
  ASSUME DInv, (\E c \in Contents : TakeFile(c)) \/ (\E a \in Assets : Edit(a))
  PROVE  DInv'
<1>1. ASSUME NEW c \in Contents, TakeFile(c) PROVE DInv'
  <2>1. mishaps' \in 0 .. MaxMishaps
    BY <1>1, MishapsAssumption DEF TakeFile, Mishap, DInv, SyncStaysSound, EngineInv, TypeOK
  <2>2. PassTypeOK'
    BY <1>1 DEF TakeFile, DInv, SyncStaysSound, EngineInv, TypeOK, PassTypeOK, session, pass, breaker
  <2>3. TypeOK'
    BY <1>1, <2>1, <2>2
    DEF TakeFile, DInv, SyncStaysSound, EngineInv, TypeOK, library, session, pass, breaker
  <2>4. AnswersInv' /\ BreakerInv' /\ SyncedIsHeld'
    BY <1>1 DEF TakeFile, DInv, SyncStaysSound, EngineInv, AnswersInv, BreakerInv, SyncedIsHeld, Held,
                session, pass, breaker
  <2>5. DTypeOK' /\ ConfirmedInv'
    BY <1>1 DEF TakeFile, DInv, DTypeOK, ConfirmedInv, run, library
  <2>6. QED
    BY <2>3, <2>4, <2>5 DEF DInv, SyncStaysSound, EngineInv
<1>2. ASSUME NEW a \in Assets, Edit(a) PROVE DInv'
  <2>1. notice' \in BOOLEAN
    BY <1>2 DEF Edit
  <2>2. PassTypeOK'
    BY <1>2 DEF Edit, DInv, SyncStaysSound, EngineInv, TypeOK, PassTypeOK, session, pass, breaker
  <2>3. TypeOK'
    BY <1>2, <2>1, <2>2
    DEF Edit, DInv, SyncStaysSound, EngineInv, TypeOK, library, session, pass, breaker
  <2>4. AnswersInv' /\ BreakerInv' /\ SyncedIsHeld'
    BY <1>2 DEF Edit, DInv, SyncStaysSound, EngineInv, AnswersInv, BreakerInv, SyncedIsHeld, Held,
                session, pass, breaker
  <2>5. DTypeOK' /\ ConfirmedInv'
    BY <1>2 DEF Edit, DInv, DTypeOK, ConfirmedInv, run, library
  <2>6. QED
    BY <2>3, <2>4, <2>5 DEF DInv, SyncStaysSound, EngineInv
<1>3. QED
  BY <1>1, <1>2

\* What the phone has lost, it has lost: no step of the sync engine or its
\* environment takes an asset out of gone.
LEMMA GoneGrows ==
  ASSUME Next
  PROVE  gone \subseteq gone'
<1>1. ASSUME Engine PROVE gone' = gone
  BY <1>1
  DEF Engine, LibraryChanged, RetryFires, OpenGrid, ServeManifest, Reconcile, ReconcileFails,
      ReconcileUnauthorized, Export, ExportFails, StatusStored, StatusNotStored, ServerStores,
      Uploaded, UploadFails, UploadUnauthorized, library
<1>2. ASSUME User PROVE gone \subseteq gone'
  BY <1>2 DEF User, SyncNow, SignIn, SignOut, Capture, DeleteInPhotos, library
<1>3. ASSUME World \/ TokensExpire \/ Kill PROVE gone' = gone
  BY <1>3 DEF World, NetworkDown, NetworkUp, LateUploadStored, TokensExpire, Kill, library
<1>4. QED
  BY <1>1, <1>2, <1>3 DEF Next

\* A step of the sync engine, the tokens' end and a kill keep the invariant of both.
LEMMA SyncStepSafe ==
  ASSUME DInv, SyncStep \/ DTokensExpire \/ DKill
  PROVE  DInv'
<1>1. Next
  BY DEF SyncStep, DTokensExpire, DKill, Next
<1>2. SyncStaysSound'
  BY <1>1, StepEngineInv DEF DInv, SyncStaysSound
<1>3. gone \subseteq gone'
  BY <1>1, GoneGrows
<1>4. CASE SyncStep
  BY <1>2, <1>3, <1>4 DEF SyncStep, DInv, DTypeOK, ConfirmedInv, run
<1>5. CASE DTokensExpire
  <2>1. key' \in {"out", "good", "stale"}
    BY <1>5 DEF DTokensExpire, Stale, DInv, DTypeOK
  <2>2. QED
    BY <1>2, <1>3, <1>5, <2>1 DEF DTokensExpire, DInv, DTypeOK, ConfirmedInv
<1>6. CASE DKill
  <2>1. DTypeOK' /\ ConfirmedInv'
    BY <1>3, <1>6, StopSound DEF DKill, DInv, DTypeOK
  <2>2. QED
    BY <1>2, <2>1 DEF DInv
<1>7. QED
  BY <1>4, <1>5, <1>6

\* The initial state satisfies the invariant of both engines.
LEMMA InitDInv == DInit => DInv
<1> SUFFICES ASSUME DInit PROVE DInv
  OBVIOUS
<1>1. SyncStaysSound
  BY InitEngineInv DEF DInit, SyncStaysSound
<1>2. DTypeOK /\ ConfirmedInv
  BY DEF DInit, Init, DTypeOK, ConfirmedInv
<1>3. QED
  BY <1>1, <1>2 DEF DInv

\* Every step keeps it.
LEMMA StepDInv ==
  ASSUME DInv, [DNext]_allvars
  PROVE  DInv'
<1>1. CASE UNCHANGED allvars
  <2>1. SyncStaysSound'
    BY <1>1, SyncUntouched DEF allvars
  <2>2. QED
    BY <1>1, <2>1 DEF allvars, vars, library, dvars, run, DInv, DTypeOK, ConfirmedInv
<1>2. ASSUME DeletionStep PROVE DInv'
  BY <1>2, DeleteAllBackedUpSafe, GatherSafe, ServeVerifySafe, VerdictSafe, PhotosDeleteSafe,
     PromptCancelledSafe, ForgetSafe
  DEF DeletionStep
<1>3. QED
  BY <1>1, <1>2, SyncStepSafe, WorldSafe DEF DNext

\* Two engines that share the records and the photo library: the sync engine's
\* invariant holds beside the deletion engine, and what is verified was re-hashed in
\* this run.
THEOREM DeletionInvariant == DSpec => []DInv
  BY InitDInv, StepDInv, PTL DEF DSpec

\* Nothing is deleted that the server did not find intact in this run
\* (DeletionEngine.plan and verifyInBatches), for every batch size and every
\* sequence of errors, kills, expired sessions and files taken away.
THEOREM DeletionsConfirmed == DSpec => DeletesOnlyConfirmed
<1> DEFINE Confirmed == \A a \in freed' \ freed : ContentOf[a] \in rehashed
<1>1. ASSUME DInv, [DNext]_allvars PROVE [Confirmed]_allvars
  <2>1. CASE PhotosDelete
    BY <1>1, <2>1 DEF PhotosDelete, DInv, ConfirmedInv
  <2>2. CASE ~PhotosDelete /\ DNext
    <3>1. freed' = freed
      BY <2>2
      DEF DNext, DeletionStep, DeleteAllBackedUp, GatherCandidates, GatherFails, ServeVerify, Plan,
          VerifyFails, PromptCancelled, Forget, SyncStep, DTokensExpire, DKill, TakeFile, Edit
    <3>2. QED
      BY <3>1
  <2>3. CASE UNCHANGED allvars
    BY <2>3
  <2>4. QED
    BY <1>1, <2>1, <2>2, <2>3 DEF DNext
<1>2. QED
  BY <1>1, DeletionInvariant, PTL DEF DSpec, DeletesOnlyConfirmed
=============================================================================
