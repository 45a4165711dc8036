---------------------------- MODULE MediaStore ----------------------------
(***************************************************************************)
(* The server's media library (phone-sync-server/src/storage.rs and the    *)
(* upload, chunk, complete, verify and manifest handlers): files in the    *)
(* date tree, the index in memory, the manifest on disk, the chunk staging *)
(* directories, and the request threads that work on them at once.         *)
(*                                                                         *)
(* A path is a month folder and a file name; `kind' says which candidate   *)
(* of unique_filename it is.  A content is what a sha256 identifies.  What *)
(* happens under the index mutex (insert and persist) is one step: no      *)
(* other thread sees the middle, and a crash in the middle leaves what a   *)
(* crash before it leaves, write_atomic renaming the manifest into place.  *)
(*                                                                         *)
(* A definition named Mut... is no part of the model: it is the plausible  *)
(* bug that the mutation runs put in the place of the definition below it. *)
(***************************************************************************)
EXTENDS Naturals, FiniteSets

CONSTANTS
  Assets,      \* asset ids
  Contents,    \* distinct file contents
  Names,       \* month folder and sanitised file name
  MaxStamps,   \* bound on names that carry the time
  Photos,      \* what phones may send: subset of Photo
  SizeOf,      \* byte length of each content
  NumChunks,   \* chunks of a chunked upload
  Threads,     \* request-handling threads
  Serve,       \* request kinds that arrive
  Faults,      \* I/O that may fail: subset of FaultKinds
  MaxCrashes,  \* bound on process crashes
  MaxCopies,   \* bound: no upload of a content arrives that has so many files
  Garbled,     \* bytes that no content's hash matches
  None         \* no file, record, thread, request or path

RequestKinds == {"upload", "chunk", "complete", "verify", "manifest"}
FaultKinds == {"media", "persist", "stage", "sweep"}

ChunkIdx == 0 .. NumChunks - 1
Stamps == 0 .. MaxStamps - 1
Photo == [asset : Assets, content : Contents, name : Names]
Paths == [name : Names, kind : {"plain", "sha8", "sha", "stamp"},
          of : Contents \cup Stamps \cup {None}]
Record == [sha : Contents, path : Paths]

UploadRequest == [kind : {"upload", "complete"}, asset : Assets,
                  content : Contents, name : Names]
ChunkRequest == [kind : {"chunk"}, content : Contents, chunk : ChunkIdx,
                 right : BOOLEAN]
VerifyRequest == [kind : {"verify"}, content : Contents, size : Nat,
                  deep : BOOLEAN]
Request == UploadRequest \cup ChunkRequest \cup VerifyRequest

ASSUME PhotosAssumption == Photos \subseteq Photo
ASSUME SizeAssumption == SizeOf \in [Contents -> Nat]
ASSUME BoundsAssumption ==
  /\ NumChunks \in Nat \ {0} /\ MaxStamps \in Nat
  /\ MaxCrashes \in Nat /\ MaxCopies \in Nat \ {0}
ASSUME ServeAssumption == Serve \subseteq RequestKinds /\ Faults \subseteq FaultKinds
ASSUME NoneAssumption ==
  Garbled \notin Contents /\ Garbled # None /\ None \notin Contents /\ None \notin Threads /\ None \notin Record
  /\ None \notin Paths /\ None \notin UploadRequest
  /\ None \notin ChunkRequest /\ \A c \in Contents : \A d \in BOOLEAN :
       None # [kind |-> "verify", content |-> c, size |-> SizeOf[c], deep |-> d]

VARIABLES
  files,      \* path -> content: the media tree on disk
  index,      \* asset -> record: Storage.index
  manifest,   \* asset -> record: index/manifest.json on disk
  staged,     \* content -> chunk index -> staged bytes: chunks/<sha>/<i>.part
  strays,     \* kinds of temp file abandoned in the media tree
  clock,      \* the wall clock, as far as names carry it
  writer,     \* thread holding Storage.write_lock
  pc, req, target, \* per thread: step, request, path it works on
  pos, good,  \* per thread: chunks read, and whether their bytes are the content's
  crashes,
  acked,      \* history: <<asset, content>> answered 201
  confirmed,  \* history: contents answered "ok" by verify
  listed      \* history: assets ever returned by the manifest endpoint

host == <<files, manifest, staged, strays, clock>>
history == <<acked, confirmed, listed>>
vars == <<host, index, writer, pc, req, target, pos, good, crashes, history>>

Init ==
  /\ files = [p \in Paths |-> None]
  /\ index = [a \in Assets |-> None]
  /\ manifest = [a \in Assets |-> None]
  /\ staged = [c \in Contents |-> [i \in ChunkIdx |-> "absent"]]
  /\ strays = {} /\ clock = 0
  /\ writer = None
  /\ pc = [t \in Threads |-> "idle"]
  /\ req = [t \in Threads |-> None]
  /\ target = [t \in Threads |-> None]
  /\ pos = [t \in Threads |-> 0]
  /\ good = [t \in Threads |-> TRUE]
  /\ crashes = 0
  /\ acked = {} /\ confirmed = {} /\ listed = {}

(***************************************************************************)
(* Helpers.                                                                *)
(***************************************************************************)
Goto(t, step) == pc' = [pc EXCEPT ![t] = step]

MutKeepLock(t) ==
  /\ Goto(t, "idle")
  /\ req' = [req EXCEPT ![t] = None]
  /\ target' = [target EXCEPT ![t] = None]
  /\ pos' = [pos EXCEPT ![t] = 0]
  /\ good' = [good EXCEPT ![t] = TRUE]
  /\ UNCHANGED writer

\* The handler returns: its locals go, and the write lock if it held it.
Return(t) ==
  /\ Goto(t, "idle")
  /\ req' = [req EXCEPT ![t] = None]
  /\ target' = [target EXCEPT ![t] = None]
  /\ pos' = [pos EXCEPT ![t] = 0]
  /\ good' = [good EXCEPT ![t] = TRUE]
  /\ writer' = IF writer = t THEN None ELSE writer

Candidate(n, c, k) ==
  [name |-> n, kind |-> k, of |-> IF k = "plain" THEN None ELSE c]

MutPlainName(n, c) == Candidate(n, c, "plain")

\* unique_filename's answer: the first free candidate, else the name that
\* carries the current nanosecond, for which nothing looks whether it is free.
UniqueFilename(n, c) ==
  LET free(k) == files[Candidate(n, c, k)] = None
  IN CASE free("plain") -> Candidate(n, c, "plain")
       [] ~free("plain") /\ free("sha8") -> Candidate(n, c, "sha8")
       [] ~free("plain") /\ ~free("sha8") /\ free("sha") -> Candidate(n, c, "sha")
       [] OTHER -> [name |-> n, kind |-> "stamp", of |-> clock]

\* The thread chooses its file's name.  The wall clock is taken not to be set
\* back: it has moved on when the next name carries it.
ChooseName(t) ==
  LET p == UniqueFilename(req[t].name, req[t].content)
  IN /\ target' = [target EXCEPT ![t] = p]
     /\ IF p.kind = "stamp" THEN clock < MaxStamps /\ clock' = clock + 1
                            ELSE UNCHANGED clock

\* Index records with this hash; the map's iteration order decides which one
\* get_by_id and stored_copy_of look at.
RecordsOf(c) == {index[a] : a \in {b \in Assets : index[b] # None /\ index[b].sha = c}}

Copies(c) == {p \in Paths : files[p] = c}

(***************************************************************************)
(* Requests arrive.                                                        *)
(***************************************************************************)
Receive(t, r, step) ==
  /\ pc[t] = "idle"
  /\ r.kind \in Serve
  /\ req' = [req EXCEPT ![t] = r]
  /\ Goto(t, step)
  /\ UNCHANGED <<host, index, writer, target, pos, good, crashes, history>>

ReceiveUpload(t) ==
  \E ph \in Photos, k \in {"upload", "complete"} :
    /\ Cardinality(Copies(ph.content)) < MaxCopies
    /\ Receive(t, [kind |-> k, asset |-> ph.asset, content |-> ph.content,
                   name |-> ph.name], "lock")

ReceiveChunk(t) ==
  \E c \in Contents, i \in ChunkIdx, ok \in BOOLEAN :
    Receive(t, [kind |-> "chunk", content |-> c, chunk |-> i, right |-> ok], "stage")

ReceiveVerify(t) ==
  \E c, d \in Contents, deep \in BOOLEAN :
    Receive(t, [kind |-> "verify", content |-> c, size |-> SizeOf[d],
                deep |-> deep], "lookup")

(***************************************************************************)
(* store and assemble_and_store: everything under the write lock.          *)
(***************************************************************************)
MutNoExclusion(t) ==
  /\ pc[t] = "lock"
  /\ writer' = t
  /\ Goto(t, "find")
  /\ UNCHANGED <<host, index, req, target, pos, good, crashes, history>>

AcquireWriteLock(t) ==
  /\ pc[t] = "lock"
  /\ writer = None
  /\ writer' = t
  /\ Goto(t, "find")
  /\ UNCHANGED <<host, index, req, target, pos, good, crashes, history>>

\* stored_copy_of finds a record whose file exists: no bytes are written.
ReuseStoredCopy(t) ==
  /\ pc[t] = "find"
  /\ \E r \in RecordsOf(req[t].content) :
       /\ files[r.path] # None
       /\ target' = [target EXCEPT ![t] = r.path]
  /\ Goto(t, "index")
  /\ UNCHANGED <<host, index, writer, req, pos, good, crashes, history>>

MutAlwaysWrite(t) ==
  /\ pc[t] = "find"
  /\ Goto(t, IF req[t].kind = "upload" THEN "write" ELSE "read")
  /\ UNCHANGED <<host, index, writer, req, target, pos, good, crashes, history>>

\* No record, or the one it looked at has lost its file.
NoStoredCopy(t) ==
  LET rs == RecordsOf(req[t].content)
  IN /\ pc[t] = "find"
     /\ rs = {} \/ \E r \in rs : files[r.path] = None
     /\ Goto(t, IF req[t].kind = "upload" THEN "write" ELSE "read")
     /\ UNCHANGED <<host, index, writer, req, target, pos, good, crashes, history>>

\* write_new_media up to the rename: choose the name, write the temp file.
WriteTemp(t) ==
  /\ pc[t] = "write"
  /\ ChooseName(t)
  /\ Goto(t, "rename")
  /\ UNCHANGED <<files, manifest, staged, strays, index, writer, req, pos, good,
                 crashes, history>>

\* The month folder cannot be made, or write_atomic fails before its rename
\* and leaves its temp file.
WriteTempFails(t) ==
  /\ pc[t] = "write"
  /\ "media" \in Faults
  /\ strays' \in {strays, strays \cup {"upload"}}
  /\ Return(t)
  /\ UNCHANGED <<files, manifest, staged, clock, index, crashes, history>>

\* concatenate_chunks takes and hashes the next chunk.
ReadChunk(t) ==
  LET bytes == staged[req[t].content][pos[t]]
  IN /\ pc[t] = "read"
     /\ pos[t] < NumChunks
     /\ bytes # "absent"
     /\ pos' = [pos EXCEPT ![t] = @ + 1]
     /\ good' = [good EXCEPT ![t] = @ /\ bytes = "right"]
     /\ UNCHANGED <<host, index, writer, pc, req, target, crashes, history>>

\* A chunk is missing, the hash does not match, or the temp file cannot be
\* written: it is removed, and the chunks stay.
AssemblyFails(t) ==
  /\ pc[t] = "read"
  /\ \/ pos[t] < NumChunks /\ staged[req[t].content][pos[t]] = "absent"
     \/ pos[t] = NumChunks /\ ~good[t]
     \/ "media" \in Faults
  /\ Return(t)
  /\ UNCHANGED <<host, index, crashes, history>>

MutUnchecked(t) ==
  /\ pc[t] = "read"
  /\ pos[t] = NumChunks
  /\ ChooseName(t)
  /\ Goto(t, "rename")
  /\ UNCHANGED <<files, manifest, staged, strays, index, writer, req, pos, good,
                 crashes, history>>

\* All chunks read and the hash matches: choose the name.
Assembled(t) ==
  /\ pc[t] = "read"
  /\ pos[t] = NumChunks
  /\ good[t]
  /\ ChooseName(t)
  /\ Goto(t, "rename")
  /\ UNCHANGED <<files, manifest, staged, strays, index, writer, req, pos, good,
                 crashes, history>>

PlaceFile(t) ==
  /\ pc[t] = "rename"
  /\ files' = [files EXCEPT ![target[t]] = IF good[t] THEN req[t].content ELSE Garbled]
  /\ Goto(t, "index")
  /\ UNCHANGED <<manifest, staged, strays, clock, index, writer, req, target, pos,
                 good, crashes, history>>

\* The rename fails: neither store nor assemble_and_store removes the temp.
PlaceFileFails(t) ==
  /\ pc[t] = "rename"
  /\ "media" \in Faults
  /\ strays' = strays \cup {IF req[t].kind = "upload" THEN "upload" ELSE "assembling"}
  /\ Return(t)
  /\ UNCHANGED <<files, manifest, staged, clock, index, crashes, history>>

InsertRecord(t) ==
  index' = [index EXCEPT ![req[t].asset] =
              [sha |-> req[t].content, path |-> target[t]]]

MutPersistBeforeInsert(t) ==
  /\ pc[t] = "index"
  /\ InsertRecord(t)
  /\ manifest' = index
  /\ IF req[t].kind = "upload"
     THEN Goto(t, "reply") /\ writer' = None
     ELSE Goto(t, "sweep") /\ UNCHANGED writer
  /\ UNCHANGED <<files, staged, strays, clock, req, target, pos, good, crashes, history>>

\* The index is updated and the whole of it written over the manifest.  store
\* then returns and drops the lock; assemble_and_store goes on to sweep.
IndexAndPersist(t) ==
  /\ pc[t] = "index"
  /\ InsertRecord(t)
  /\ manifest' = index'
  /\ IF req[t].kind = "upload"
     THEN Goto(t, "reply") /\ writer' = None
     ELSE Goto(t, "sweep") /\ UNCHANGED writer
  /\ UNCHANGED <<files, staged, strays, clock, req, target, pos, good, crashes, history>>

MutSwallowPersistError(t) ==
  /\ pc[t] = "index"
  /\ "persist" \in Faults
  /\ InsertRecord(t)
  /\ Goto(t, "reply")
  /\ writer' = None
  /\ UNCHANGED <<host, req, target, pos, good, crashes, history>>

\* The manifest cannot be written: the caller gets an error, the record stays
\* in memory and the chunks stay staged.
PersistFails(t) ==
  /\ pc[t] = "index"
  /\ "persist" \in Faults
  /\ InsertRecord(t)
  /\ Return(t)
  /\ UNCHANGED <<host, crashes, history>>

\* remove_dir_all on the staging directory; a chunk being written into it
\* loses its temp file.  When it fails some of the files are gone and some
\* stay, and the result is ignored.
SweepStaging(t) ==
  LET c == req[t].content
      caught == {u \in Threads : pc[u] = "staging" /\ req[u].content = c}
  IN /\ pc[t] = "sweep"
     /\ writer' = None
     /\ \E gone \in SUBSET ChunkIdx, lost \in SUBSET caught :
          /\ "sweep" \in Faults \/ (gone = ChunkIdx /\ lost = caught)
          /\ staged' = [staged EXCEPT ![c] =
                          [i \in ChunkIdx |-> IF i \in gone THEN "absent" ELSE @[i]]]
          /\ pc' = [u \in Threads |-> IF u = t THEN "reply"
                                     ELSE IF u \in lost THEN "swept" ELSE pc[u]]
     /\ UNCHANGED <<files, manifest, strays, clock, index, req, target, pos, good,
                    crashes, history>>

\* 201 goes out.
Reply(t) ==
  /\ pc[t] = "reply"
  /\ acked' = acked \cup {<<req[t].asset, req[t].content>>}
  /\ Return(t)
  /\ UNCHANGED <<host, index, crashes, confirmed, listed>>

(***************************************************************************)
(* write_chunk: no lock.                                                   *)
(***************************************************************************)
StageChunk(t) ==
  /\ pc[t] = "stage"
  /\ \/ Goto(t, "staging") /\ UNCHANGED <<req, target, pos, good, writer>>
     \/ "stage" \in Faults /\ Return(t)
  /\ UNCHANGED <<host, index, crashes, history>>

PlaceChunk(t) ==
  /\ pc[t] = "staging"
  /\ staged' = [staged EXCEPT ![req[t].content][req[t].chunk] =
                  IF req[t].right THEN "right" ELSE "wrong"]
  /\ Return(t)
  /\ UNCHANGED <<files, manifest, strays, clock, index, crashes, history>>

\* The directory went away under the temp file: the rename fails, a 500.
ChunkSwept(t) ==
  /\ pc[t] = "swept"
  /\ Return(t)
  /\ UNCHANGED <<host, index, crashes, history>>

(***************************************************************************)
(* verify_item: three reads, no lock held between them.                    *)
(***************************************************************************)
VerifyLookup(t) ==
  LET rs == RecordsOf(req[t].content)
  IN /\ pc[t] = "lookup"
     /\ \/ rs = {} /\ Return(t)
        \/ \E r \in rs :
             /\ target' = [target EXCEPT ![t] = r.path]
             /\ Goto(t, "stat")
             /\ UNCHANGED <<req, pos, good, writer>>
     /\ UNCHANGED <<host, index, crashes, history>>

\* Garbled bytes may have any length.
VerifyStat(t) ==
  LET found == files[target[t]]
      sameSize(c) == SizeOf[c] = req[t].size
      mayMatch == found # None /\ (found \in Contents => sameSize(found))
      mayDiffer == ~(found \in Contents /\ sameSize(found))
  IN /\ pc[t] = "stat"
     /\ \/ mayMatch /\ req[t].deep /\ Goto(t, "hash")
           /\ UNCHANGED <<req, target, pos, good, writer, confirmed>>
        \/ mayMatch /\ ~req[t].deep /\ Return(t)
           /\ confirmed' = confirmed \cup {req[t].content}
        \/ mayDiffer /\ Return(t) /\ UNCHANGED confirmed
     /\ UNCHANGED <<host, index, crashes, acked, listed>>

VerifyHash(t) ==
  /\ pc[t] = "hash"
  /\ confirmed' = IF files[target[t]] = req[t].content
                  THEN confirmed \cup {req[t].content} ELSE confirmed
  /\ Return(t)
  /\ UNCHANGED <<host, index, crashes, acked, listed>>

(***************************************************************************)
(* The manifest endpoint, and the process dying and being started again.   *)
(***************************************************************************)
Manifest ==
  /\ "manifest" \in Serve
  /\ listed' = listed \cup {a \in Assets : index[a] # None}
  /\ UNCHANGED <<host, index, writer, pc, req, target, pos, good, crashes, acked, confirmed>>

TempsInLibrary ==
  {IF req[t].kind = "upload" THEN "upload" ELSE "assembling" :
     t \in {u \in Threads : pc[u] \in {"rename", "read"}}}

\* The process dies: threads and the lock are gone, temp files stay.
CrashReset ==
  /\ crashes < MaxCrashes
  /\ crashes' = crashes + 1
  /\ strays' = strays \cup TempsInLibrary
  /\ writer' = None
  /\ pc' = [t \in Threads |-> "idle"]
  /\ req' = [t \in Threads |-> None]
  /\ target' = [t \in Threads |-> None]
  /\ pos' = [t \in Threads |-> 0]
  /\ good' = [t \in Threads |-> TRUE]
  /\ UNCHANGED <<files, manifest, staged, clock, history>>

\* Storage::open loads the manifest.
CrashRestart == CrashReset /\ index' = manifest

Arrive(t) == ReceiveUpload(t) \/ ReceiveChunk(t) \/ ReceiveVerify(t)

\* Everything a thread does under the write lock but acquiring it.
LockedStep(t) ==
  \/ ReuseStoredCopy(t) \/ NoStoredCopy(t) \/ WriteTemp(t) \/ WriteTempFails(t)
  \/ ReadChunk(t) \/ AssemblyFails(t) \/ Assembled(t) \/ PlaceFile(t)
  \/ PlaceFileFails(t) \/ IndexAndPersist(t) \/ PersistFails(t) \/ SweepStaging(t)

FreeStep(t) ==
  \/ Reply(t) \/ StageChunk(t) \/ PlaceChunk(t) \/ ChunkSwept(t)
  \/ VerifyLookup(t) \/ VerifyStat(t) \/ VerifyHash(t)

Next ==
  \/ \E t \in Threads : Arrive(t) \/ AcquireWriteLock(t) \/ LockedStep(t) \/ FreeStep(t)
  \/ Manifest
  \/ CrashRestart

Spec == Init /\ [][Next]_vars

\* A runtime thread keeps running its handler, and a waiter for the mutex is
\* not passed over for ever.  Arrivals, crashes and faults are not fair.
Fairness ==
  \A t \in Threads : /\ WF_vars(LockedStep(t) \/ FreeStep(t))
                     /\ SF_vars(AcquireWriteLock(t))

FairSpec == Spec /\ Fairness

(***************************************************************************)
(* Properties.                                                             *)
(***************************************************************************)
Steps == {"idle", "lock", "find", "write", "read", "rename", "index", "sweep",
          "reply", "stage", "staging", "swept", "lookup", "stat", "hash"}
LockedSteps == {"find", "write", "read", "rename", "index", "sweep"}
UploadSteps == LockedSteps \cup {"lock", "reply"}
ChunkSteps == {"stage", "staging", "swept"}
VerifySteps == {"lookup", "stat", "hash"}

\* A thread's request and path fit its step.
StepFits(t) ==
  /\ pc[t] = "idle" => req[t] = None
  /\ pc[t] \in UploadSteps => req[t] \in UploadRequest
  /\ pc[t] \in ChunkSteps => req[t] \in ChunkRequest
  /\ pc[t] \in VerifySteps => req[t] \in VerifyRequest
  /\ pc[t] \in {"rename", "index", "sweep", "stat", "hash"} => target[t] \in Paths

DataOK ==
  /\ files \in [Paths -> Contents \cup {Garbled, None}]
  /\ index \in [Assets -> Record \cup {None}]
  /\ manifest \in [Assets -> Record \cup {None}]
  /\ staged \in [Contents -> [ChunkIdx -> {"absent", "right", "wrong"}]]
  /\ strays \subseteq {"upload", "assembling"}
  /\ clock \in 0 .. MaxStamps
  /\ crashes \in 0 .. MaxCrashes
  /\ acked \subseteq Assets \X Contents
  /\ confirmed \subseteq Contents
  /\ listed \subseteq Assets

ThreadsOK ==
  /\ writer \in Threads \cup {None}
  /\ pc \in [Threads -> Steps]
  /\ req \in [Threads -> Request \cup {None}]
  /\ target \in [Threads -> Paths \cup {None}]
  /\ pos \in [Threads -> 0 .. NumChunks]
  /\ good \in [Threads -> BOOLEAN]
  /\ \A t \in Threads : StepFits(t)

\* Every variable has its type, and every thread's request fits its step.
TypeOK == DataOK /\ ThreadsOK

\* The server never overwrites, changes or removes a media file, whatever
\* crashes, fails or runs at the same time: unique_filename's answer is still
\* free when the rename comes.
LibraryOnlyGrows == [][\A p \in Paths : files[p] # None => files'[p] = files[p]]_files

\* Every record, in memory and in the manifest a restart will load, points at
\* a file that holds the record's content.
RecordsSound ==
  \A a \in Assets :
    /\ index[a] # None => files[index[a].path] = index[a].sha
    /\ manifest[a] # None => files[manifest[a].path] = manifest[a].sha

\* An upload answered 201 outlives any crash: its bytes are in a file and its
\* asset is in the manifest on disk.
AckedSurvives ==
  \A ac \in acked : /\ \E p \in Paths : files[p] = ac[2]
                    /\ manifest[ac[1]] # None

\* Once verify has answered "ok" for a content (the phone may then delete its
\* only copy) the library holds that content for ever.
ConfirmedStaysHeld == \A c \in confirmed : \E p \in Paths : files[p] = c

\* Assets whose records carry the same hash share one file: re-uploading bytes
\* an index record already has writes no second copy.
SameContentOneFile ==
  \A a, b \in Assets :
    index[a] # None /\ index[b] # None /\ index[a].sha = index[b].sha
      => index[a].path = index[b].path

\* "Returns the asset ids the server already has" (handlers.rs:44): what a phone
\* has once read in the manifest is still there after any crash.  No run checks
\* it: TLC refutes it, by an upload that is answered 500 for its manifest write
\* and stays in the index until the restart.
ListedIsDurable == \A a \in listed : manifest[a] # None

\* "Any failure below must take the half-written temp file with it"
\* (storage.rs:381-382).  No run checks it: TLC refutes it, by the rename at
\* storage.rs:392 failing, which leaves the assembled temp file.
NoFailureStrays == crashes = 0 => "assembling" \notin strays

\* Every request is answered: the lock is released on every path out of store
\* and assemble_and_store.
RequestsAnswered == \A t \in Threads : (pc[t] # "idle") ~> (pc[t] = "idle")

(***************************************************************************)
(* The inductive invariant behind the safety properties.                   *)
(***************************************************************************)
OneFilePerHash(records) ==
  \A a, b \in Assets :
    records[a] # None /\ records[b] # None /\ records[a].sha = records[b].sha
      => records[a].path = records[b].path

Held(c) == \E p \in Paths : files[p] = c

\* A name that carries the time carries a time that is over.
Past(p, now) == p.kind = "stamp" => p.of \in 0 .. now - 1

\* What a thread relies on at each of its steps.
ThreadInv(t) ==
  LET c == req[t].content
  IN /\ pc[t] \in LockedSteps => writer = t
     /\ pc[t] # "read" => good[t]
     /\ pc[t] \in {"write", "read", "rename"} =>
          \A a \in Assets : index[a] # None => index[a].sha # c
     /\ pc[t] = "rename" => files[target[t]] = None /\ Past(target[t], clock)
     /\ pc[t] = "index" =>
          /\ files[target[t]] = c
          /\ \A a \in Assets : index[a] # None /\ index[a].sha = c
               => index[a].path = target[t]
     /\ pc[t] \in {"sweep", "reply"} => Held(c) /\ manifest[req[t].asset] # None
     /\ pc[t] \in {"stat", "hash"} => files[target[t]] = c

\* What the disk, the index and the answers given have to do with each other.
DataInv ==
  /\ \A p \in Paths : files[p] # None => Past(p, clock)
  /\ RecordsSound
  /\ OneFilePerHash(index) /\ OneFilePerHash(manifest)
  /\ \A a \in Assets : manifest[a] # None => index[a] # None
  /\ AckedSurvives
  /\ ConfirmedStaysHeld

StoreInv == TypeOK /\ (\A t \in Threads : ThreadInv(t)) /\ DataInv

\* The library as its clients are promised it.
Promise == INSTANCE Library WITH
  held <- {c \in Contents : \E p \in Paths : files[p] = c},
  catalog <- [a \in Assets |-> IF manifest[a] = None THEN None ELSE manifest[a].sha]

\* The store implements the abstract library.
ImplementsLibrary == Promise!Spec
=============================================================================
