# Phone Sync in TLA+

Specifications of the Phone Sync system, written from its code: the Rust server
that keeps photos (`phone-sync-server/`) and the SwiftUI app that sends them
(`phone-sync-app/`). TLC checks small instances of every module; TLAPS proves
the main safety properties for every value of the constants. Paths below are
relative to `src/`; `S/` stands for `phone-sync-server/src/` and `A/` for
`phone-sync-app/PhoneSync/`.

The question behind all of it: *may the phone delete its only copy of a photo?*
The answer is a chain. The server keeps what it has acknowledged
(`MediaStore`, which implements `Library`); the phone's badge says "synced" only
for what the server holds (`SyncEngine`); and the deletion engine deletes only
what the server has re-hashed in the same run (`DeletionEngine`). Beside the
chain stand the published feed (`PublishStore`), the web page that shows the
library and switches the feed (`Gallery`), the pictures it shows (`Thumbnails`,
`Rendering`), the life of the process (`Startup`) and the connections everything
runs over (`Serve`).

## 1. Inventory

| Component | State it keeps | Operations | What makes it correct |
|---|---|---|---|
| **Media store** `S/storage.rs`, the upload, chunk, verify and manifest handlers of `S/handlers.rs` | the media tree, `index` (in memory, a mutex), `index/manifest.json`, `chunks/<sha>/`, `write_lock` | upload, upload_chunk, upload_complete, upload_status, verify, manifest; open | records point at their bytes; nothing is overwritten; a 201 and an "ok" outlive a crash; one file per content |
| **Published set** `S/publish.rs`, `S/publish_handlers.rs` | items behind an `RwLock`, `published/index.json`, `published/<id>/` | publish, update, remove, persist, open; public feed | what is served has its derivatives; an unpublished photo stays unpublished; the file on disk is whole and current |
| **Read side** of `S/storage.rs` and `S/handlers.rs` | thumbnails and renders on disk, a memo of dimensions | list_media, list_item, put/get_thumb, render, get_media, byte ranges; the backfill at start | pages miss nothing, dimensions match the thumbnail served, what is cached for ever does not change, ranges are what was asked for |
| **Connection server** `S/serve.rs` | a `JoinSet` of connection tasks, a byte counter each | accept, watch_for_stall, drain, shutdown | a busy connection is left alone, a dead one is dropped, tasks are joined, a shutdown ends |
| **Accounts and start-up** `S/auth.rs`, `S/config.rs`, `S/main.rs` | the JWT secret file, the bound address, the backfill's counters | resolve_jwt_secret, bind_with_retry, backfill_thumbnails, login, require_auth, stop | a token is good until it expires, restarts included; a stop ends |
| **Decoding** `S/imaging.rs`, `S/heif.rs`, `S/orientation.rs`, `S/transcode.rs` | none that outlives a call (child processes) | read, parse_orientation, render_still, render_video_frame, probe_video, transcode_rendition, render_loop_clip | bounds of the walk over a file's boxes; the photo and not a map of it, upright; a video that plays |
| **Web gallery** `S/gallery.js` | `items`, `loading`, `exhausted`, `published`, a toggle per tile | reload, loadPublished, loadNextPage, togglePublish, syncToggles; the viewer | a finished walk shows everything, a toggle tells what is published |
| **Sync engine** `A/Services/SyncEngine.swift`, `CircuitBreaker.swift`, `SyncDiff.swift`, `SyncStateStore.swift`; triggers in `MediaGridView.swift`, `GridViewModel.swift`, `AppEnvironment.swift` | records (saved), `isSyncing`, `retryTask`, breaker, the grid's and the observer's state | syncAll, reconcile, uploadOne, uploadChunked, scheduleRetry, tripBreaker, forget | a badge means held; retries are bounded; passes end; everything is backed up in the end |
| **Deletion engine** `A/Services/DeletionEngine.swift`, `FreeUpSpaceView.swift` | `isWorking` and the run's locals | gatherCandidates, planDeletions, delete, forget | only what this run confirmed is deleted |
| **Session** `A/Services/AuthService.swift`, `KeychainService.swift` | the token | signIn, signOut, handleUnauthorized | a stale token ends in a sign-in, not in a loss |
| **API client, photo library** `A/Services/ApiClient.swift`, `PhotoLibraryService.swift` | temp files | calls, exports, deletes, the change observer | their callers see every failure |
| **Background scheduler** `A/Services/BackgroundSyncScheduler.swift` | the pending `BGProcessingTask` | register, schedule, handle | see section 6 |

How they interact: the phone calls the server over HTTP (an answer may be lost
after its effect); handlers run on many threads and share the two stores by
their locks; the two engines and the views run on the main actor and interleave
at `await`s; the sync engine and the deletion engine share records, session and
photo library; `Serve` may cut a call anywhere; iOS may kill the app and the
host the server at any step; other programs may change the media root.

The hard behaviours, each at its line in `PROJECT.json` under `hazards`: two
uploads racing for a file name or a content; crashes between rename, index and
manifest; a failed manifest write; chunks resent, mixed and swept under one
another; verify's three unlocked reads; two persists and one temp file;
triggers that come during a pass; a retry that runs in the task it cancels;
tokens captured once; deletion on evidence that has aged; late watchdog samples; a
thumbnail replaced while it is rendered or measured; a secret file cut short; box
headers that lie; an ffmpeg or ffprobe that fails half way through a publish.

## 2. Modules

| Module | Models | Lines of code it stands for |
|---|---|---|
| `Library` | what the media store promises its clients: contents are kept, the catalogue names only kept contents and forgets no asset, an acknowledgement comes last | abstract |
| `MediaStore` | the media store with its request threads, faults and crashes | `S/storage.rs` but for its read side; `S/handlers.rs` 44-202 |
| `MediaStoreShared` | the same beside programs that take files away, and an unreadable manifest | `S/storage.rs` 50-66, 119-141, 429-440 |
| `PublishStore` | the published set, its `RwLock` and its files | `S/publish.rs`, `S/publish_handlers.rs` |
| `SyncEngine` | the sync engine, its triggers and session, against a server that keeps `Library`'s promise | the files of the sync engine above |
| `DeletionEngine` | extends `SyncEngine`: both engines together | `A/Services/DeletionEngine.swift` |
| `Serve` | accept loop, watchdog, shutdown | `S/serve.rs` 153-320 |
| `Startup` | the life of the process: secret, bind, login, stop, kill | `S/config.rs` 129-158, `S/main.rs` 20-58, 142-160, `S/auth.rs` 55-100 |
| `Thumbnails` | extends `Startup`: the thumbnail cache, the memo of dimensions, the backfill | `S/storage.rs` 181-240, `S/handlers.rs` 262-333, `S/main.rs` 82-125 |
| `ByteRange` | `parse_range` and `serve_file_range` | `S/handlers.rs` 372-535 |
| `Orientation` | the orientation algebra, as functions | `S/orientation.rs` 18-67, 165-176, `S/heif.rs` 119-135 |
| `BoxWalk` | extends `Orientation`: the reader of HEIC boxes and JPEG segments | `S/heif.rs` 35-189, `S/orientation.rs` 73-158 |
| `Rendering` | extends `BoxWalk`: a render, or all derivatives of a publish | `S/imaging.rs`, `S/transcode.rs`, `S/publish.rs` 395-482 |
| `Gallery` | the web page against a growing library and the publish endpoints | `S/gallery.js` 31-203, 293-352, 441-529, 725-738 |
| `...Proofs` | the theorems of the module they are named for; `MediaStoreProofs` has those of `MediaStoreShared`, `RenderingProofs` those of `BoxWalk` and `Orientation`, `ServerProofs` those of `Startup`, `Thumbnails` and `ByteRange` | |
| `MC...` | the instances TLC checks | |

`PROJECT.json` (`map`) gives for every definition the lines it was written from.
A definition called `Mut...` is not part of a model: it is a plausible bug in
the definition below it, which a mutation run puts in its place to see that the
property named for it notices.

### MediaStore
`files`, `index`, `manifest` and `staged` are the tree, the map in memory, the
manifest and the staged chunks; `writer` is `write_lock`; each thread has a step
(`pc`), its request and the path it works on. `store` is the chain
*AcquireWriteLock, ReuseStoredCopy or NoStoredCopy, WriteTemp, PlaceFile,
IndexAndPersist, Reply*; `assemble_and_store` goes *ReadChunk ... Assembled*
in between and *SweepStaging* after. Verify is *VerifyLookup, VerifyStat,
VerifyHash*, three steps with no lock. Insert and persist happen under the index
mutex and are one action; `write_atomic` is atomic by its rename, so a crash
inside it leaves what a crash before it leaves. `CrashRestart` may come at any
step. Abstracted: a path is a name and the kind of candidate
(`plain`, `sha8`, `sha`, `stamp`) `unique_filename` chose; a content is its hash,
and `Garbled` stands for bytes no known hash matches. `unique_filename` looks on the
disk for every candidate but its last resort, a name with the time, which it hands
out unseen (`S/storage.rs:657`): `UniqueFilename` does so too. `clock` is the wall
clock as far as such names carry it. That they are free rests on an assumption of
the model, which the code does not check: the clock is not set back or out of range
(`unwrap_or_default` then gives 0), it moves on between two such names, and no
client's own file name spells one.

### PublishStore
A section under the write lock is one action, enabled when no thread is inside
`persist`, which holds the read half from *OpenTmp* to *RenameTmp*. Several
persists can be inside together; they share `index.json.tmp`, so a file has a
state `Torn` while its bytes are incomplete, and a thread goes on writing to the
file it opened wherever a rename has moved it (`file` in {tmp, index, gone}).
A rename fails because another thread's took the file, or by an error of the
system's with the file in place; what a failed render leaves of its directory may
stay.

### SyncEngine
Everything is on the main actor, so an action is what runs between two awaits.
`step` says at which await the pass is (`fetch`, `export`, `status`, `upload`),
`call` whether the server has carried out the upload whose answer the phone is
waiting for. `late` holds uploads the phone gave up on and the server may still
store. `cancelled` is the cancelled flag of the task a pass runs in. A grid whose
reconcile ends in a 401 or is cancelled goes on to register the observer
(`A/Views/MediaGridView.swift:63-66`). Outages,
kills, sign-outs and changes of the server's secret are the `Mishaps`, at most
`MaxMishaps` of them. History variables: `noticed` (captured while the observer
was registered), `auto` (retry passes since the last trigger from outside).

### DeletionEngine
Extends `SyncEngine` with the run of the button: *DeleteAllBackedUp,
GatherCandidates, (ServeVerify, Plan)*, PhotosDelete, Forget*. `SyncStep` lifts
every step of the sync engine, so all interleavings are there. `lost` are
contents whose file was taken from the media root while the server's listing
still names them; `rehashed` (history) what the server found intact since the
run began.

### Serve
Ticks, timers up to `Lateness` ticks late, and per connection whether its byte
counter moved since the last sample. `silent` (history) is the true silence,
which the watchdog only estimates by counting sleeps.

### Gallery
The script is single-threaded, so an action is what runs between two awaits:
*Reload, ListArrives, LoadNextPage, PageArrives, Click, Answered* and their
failures; the server's half of each request is an action of its own (*ServePage,
ServeList, ServeFind, ServeAdd, ServeRemove*), which is where uploads and other
requests get in between. `page` is the one page request `loading` allows,
`lists` one request per `reload()`, `calls` one per click. A call whose toggle a reload
has thrown away is no longer its toggle's `own`; one whose answer was lost is
not `heard`. `raced` (history) names the overlaps that have happened; each
exception in a property is needed, TLC refutes the property without it:

| In `raced` | What happened | What it breaks |
|---|---|---|
| `page` | a reload while a page was under way: the old page lands in the new walk | the photos before it are missing until the next reload |
| `early` | the scroll observer's first call got its page before the list of the published came | the toggles of published photos stay off |
| `list` | the list was older than a publish that has finished meanwhile, or it failed | the map is behind |
| `lost` | an answer did not arrive and the server carried on | the map is behind |
| `unsaved` | `persist` failed with the item already added or taken out (`S/publish.rs:341, 383`): a 500 with the set changed | the toggle goes back to what is no longer so |
| `double` | two requests for one photograph: a twin's toggle, one redrawn by a reload, or the keyboard (the spinner's CSS stops only the pointer) | an item is added twice, or a late answer overwrites a newer one |

A reload whose list is true and finds nothing drawn, nothing under way and no
photograph up twice (`AtRest`) takes everything but `page` out of `raced` again:
the indicator is then right once more, and the properties say so.

### Startup and Thumbnails
A token is the number of the secret it was signed with. Processes come one after
another: *LoadEnv, LoadFile, CreateFile, CreateFails* or *CreateCut* (killed
between the creation of the file and its write), then *Binds, BindRetries,
BindFails*, then *Login, StopAsked*, and *Kill* at any moment. `Thumbnails` adds
what the process does: `Start` spawns the backfill, which at any moment beside the
bind takes stock of the records without a thumbnail (`TakeStock`; by record, as two
devices may each have one of an item), each worker goes *TakeNext, Render, Keep*, clients *GetThumb, PutThumbnail, Forget,
Measure, Memoize*; the cache write is one step, since every write has a temporary
name of its own. *Exit* waits for all threads, because the runtime waits for its
blocking tasks, and drops a backfill that has not begun. A picture is a render, a render that `Fallback` made of one
stream, or a client's; `seen` (history) are those served under a URL that says
`immutable`, `changed` and `raced` (history) the items for which the code gives
that promise up.

### BoxWalk, Orientation and Rendering
A file may hold anything, so each header is chosen when the walk comes to it:
`Raw` has the three forms of a size (32 bits, the escape to 64, the rest), and
every size from 0 to past the end. Offsets are in units of four bytes. `level`
says which boxes are walked (`top`, `meta`, `iprp`, `ipco`) or what is read
(`ipma`, `jpeg`). Payload bytes and the indices of an association are chosen
likewise. `meant` (history) is the picture the head's own words ask for, as the walk
has read them: `ExifMeaning` from the table of EXIF 2.3, `HeicMeaning` from what
ISO/IEC 23008-12 says of `irot` and `imir`, told of a picture's corners and with none
of the code's operators. `ShownUpright` compares it with what the code's filters
make of the picture. Left out (`meant` is then `None`) are the heads about which the
code is wrong or the standard says nothing: EXIF codes 5 and 7, a quarter turn
listed ahead of a mirror (both in section 4), and lists with two turns or two
mirrors; a correct reader passes as well. The axis of `imir` is read as in the first
edition (0 vertical, 1 horizontal), which is what the code's comment has too; later
editions and libavif exchange the two. `Rendering` follows with the calls of ffprobe
and ffmpeg, each of which works or fails anew: *Probe, Stitch, Fallback* for a
photo, *SeekFrame* for a video, and for a publish *Derive, ProbeVideo,
TranscodeLarge, TranscodeSmall, RenderLoop*. `mishap` (history) is what has
failed, and for which image.

### ByteRange
Operators without state: `ParseRange`, `Respond` and `ServeFileRange` take the
code's steps in its order, an open, a measure or a seek that fails included;
`Wanted` says what bytes a header asks for. `Server` puts it beside
`Thumbnails`.

## 3. Runs

| Run | Distinct states | Shows |
|---|---|---|
| `uploads` | 289,209 (depth 59) | two uploads at once of photos that share a name, with write, rename and manifest failures and a crash at any step: `AckedSurvives`, `SameContentOneFile`, `LibraryOnlyGrows`, the inductive `StoreInv`, and `ImplementsLibrary` (refinement) |
| `chunks` | 27,309 | resumed chunks with wrong bytes, completes, plain uploads and verify on one content, a sweep that removes only some of them: `ConfirmedStaysHeld`, `RequestsAnswered` |
| `shared_root` | 468,368 (depth 65) | a file is taken away, the manifest may be unreadable at each of three restarts, and names run out to the last resort, twice: `ServerNeverOverwrites` |
| `publish` | 49,714 | `IndexedHasDerivatives`, `RemovedStaysRemoved`, `QuietDiskIsCurrent`, `RequestsAnswered` |
| `publish_torn` | violation | `IndexNeverTorn`: two persists share a temp file |
| `sync` | 54,256 | `SyncedIsHeld`, `RetriesBounded`, `PassEnds`, `EventuallyBackedUp` |
| `sync_retry` | violation | `RetryUploads`: the retry cancels its own task |
| `deletion` | 1,877,094 | `DeletesOnlyConfirmed`, `DInv` |
| `gallery` | 5,330,116 | two assets of one photograph, two reloads and two clicks: `NothingSkipped`, `TogglesFollowMap`, `IndicatorTruthful` |
| `serve` | 70,809 | `CutOnlyIfSilent`, `SilenceBounded`, `FinishedAreReaped`, `ShutdownEnds` |
| `server` | 1,090,300 | two processes, the backfill and two clients at one item that two records name, a secret file that may fail once: `TokensSurvive`, `MemoTruthful`, `BytesStable`, `BackfillCounts`, `StopEnds`; every range on files of up to four bytes: `RangesServed` |
| `decoding` | 191,116 | every head of 18 units, then a render or a publish of eleven sources with any tool failing at any call: `ReaderInv`, `RightPicture`, `Playable`; every code, and every list of up to three properties: `ShownUpright` |

The inductive invariants (`StoreInv`, `PublishInv`, `EngineInv`, `DInv`, `ServeInv`,
`ReaderInv`) are run as invariants too (they contain the type invariants): an induction hypothesis TLC refutes is not
worth a proof. Those that live in a proof module (`GalleryInv`, `WInv`, `SpinInv`, `IndicatorInv`,
`SharedInv`, `RenderInv`) are theorems and have no run. `TypeOK` of `Gallery` and `TTypeOK` of `Thumbnails` are proved and
have no run.

### Bounds, and why they are enough
- *Threads* = 2 on the server. Every hazard listed is a race of two: the write
  lock excludes all others, and verify and chunk steps touch one content. The
  proofs are for any number.
- *Assets, contents* = 2, 1 name: the smallest library in which names clash and
  contents coincide. `MaxStamps` = 2 lets `unique_filename` take its last resort twice.
- `MaxCrashes` = 1 in `uploads`: a crash forgets threads, lock and memory, and its
  result is a start with some manifest, which a second crash changes no further.
- `MaxCopies` = 2 (guard of `ReceiveUpload`): a crash between rename and manifest makes
  another copy each time the upload is retried; the bound ends that chain.
- `shared_root` has `MaxCrashes` = 3 and `MaxCopies` = 4: a photo must be written under
  its three other names, and its record lost in between, before a fourth and a fifth
  write get names with the time, which nothing checks.
- `NumChunks` = 2 in `chunks`, one where chunks do not matter.
- `Ids` = 2 for `publish`: a photo published, unpublished and published again,
  or two publishes at once. A public id is 16 hexadecimal digits of a random UUID; the
  model never draws one twice.
- `MaxMishaps` = 1, `Threshold` = 2, `MaxRetries` = 1 in `sync`: the breaker
  opens, retries and gives up. The code has 3 and 6; only the order of events
  matters. `deletion` has `Threshold` = 1, `MaxBatch` = 1: two batches.
- `Serve`: an interval of 2 that does not divide the window of 3, one tick late;
  two places, used again and again.

- `Gallery`: two assets with one content, pages of one, two reloads, two clicks. Two
  of each are what an overlap needs, and twins are the one relation between
  toggles; all three properties are proved for any number.

- `server`: `MaxStarts` = 2, a process and the one after it; `MaxLapses` = 1, the
  secret file fails once; `Attempts` = 2 (30 in the code) and a port held for up to
  two sleeps, so that the bind works at once, late, or not at all; one item with two
  records, two workers and two clients, since every race is one of two threads at one item and
  `BackfillCounts` is proved for any number. Ranges: totals to 4, numbers past
  them, one past `MaxU64` (6), and headers that are absent, blank or garbage.
- `decoding`: a head of 18 units (1 MiB in the code) with headers of 2 and 4
  holds the deepest nesting the reader looks for with up to three properties, and a
  header of every size, wrong ones included, at each place; two entries of
  an association. Sources: a grid with its gain map and its washed-out HDR preview
  (`S/imaging.rs:8-10`) in three orders, one of them with no primary mark; a grid that
  cannot be used; a photo of one item with a gain map and a preview beside it; images
  with one stream, in colour and gray; clips with and without sound, larger, smaller, of unknown height.

`serve` checks no deadlock, since after a shutdown nothing happens; nor do
`shared_root`, whose copies are used up, `gallery`, whose reloads and clicks are used up, `server`, whose last process may
have ended, and `decoding`, where a render ends. All other runs check it.

### Fairness
- Server threads: weak fairness of what a thread does once it runs (the
  runtime schedules it), strong fairness of acquiring `write_lock` and
  of the sections under the `RwLock`'s write half. `std::sync` documents no
  fairness; that a waiter is not passed over for ever is an assumption about the
  platform, and `RequestsAnswered` rests on it.
- Phone: weak fairness of the pass's steps and the grid's, of the queued library
  notice, of the retry timer, and of the end of an outage. Every call ends: with
  an answer or with URLSession's timeout.
- The user: `EventuallyBackedUp` alone assumes that the user signs in again and
  presses *Sync now* from time to time (`SF(SyncNow)`, `WF(SignIn)`). It is an
  assumption about the environment and it is needed: the run `sync_retry` and the
  refuted `CapturesUploaded` show that the engine's own triggers do not suffice.
- `Gallery` has no liveness property and no fairness.
- `Serve`: timers fire (`WF` of `Tick`, the samples, the deadline), the runtime
  joins what has finished.
- `Thumbnails`: once main has stopped serving, weak fairness of the threads' work as
  a whole (some thread that has work gets on) and of main's return once it can. `StopEnds` needs no more: the
  queue only shrinks, and no request comes in after a stop.
- Requests, crashes, faults, kills, edits and shutdown signals are never fair.

## 4. Findings

Disagreements between the code and what its own documents say, each shown by a
run (`PROJECT.json`, `findings`, quotes the lines).

1. **`index.json` may be torn** (`publish_torn`, `S/publish.rs:487`). Two persists
   hold the read half of the lock and write one temp file; a rename by the first
   makes the second's unfinished file the index. A crash then leaves it so.
2. **The retry cancels itself** (`sync_retry`, `A/Services/SyncEngine.swift:112`).
   With `StartPass(FALSE)` for `StartPass(TRUE)` in `RetryFires`, a retry that is
   not cancelled, `RetryUploads` holds.

Further properties are stated in the modules and refuted by TLC, without a run of
their own:

- `ListedIsDurable` (`MediaStore`): `store` inserts the record in memory, and when
  the manifest write fails it answers 500 but leaves the record
  (`S/storage.rs:291`); the manifest endpoint lists it, the phone marks it synced,
  and the next restart forgets it. The theorem `ListedSurvives` shows that a
  failing manifest write is the only way to this.
- `NoEditLost` (`DeletionEngine`): an edited photo is deleted because its original
  is on the server (`A/Services/DeletionEngine.swift:56`).
- `CapturesUploaded` (`SyncEngine`): `syncAll` drops a trigger that comes during a
  pass (`A/Services/SyncEngine.swift:103`), so a photo taken then waits for a later
  trigger, where `README.md:50` says that new captures are noticed and uploaded.
- `RestartShowsAll` (`Gallery`): `reload` "throws the grid away and reloads from the
  first page" (`S/gallery.js:130`), but a page request of the old walk goes on,
  `loading` keeps the first page from being asked for, and the old page is appended
  to the empty list; the next offset counts from there.
- `ReuseFindsContent` (`MediaStoreShared`): a removed file whose name was taken by
  another photo passes `stored_copy_of`'s existence test.
- `OneItemPerRecord` (`PublishStore`): two publishes of one photo at the same time
  each add an item (`S/publish.rs:359`).

- `NoFailureStrays` (`MediaStore`): "Any failure below must take the half-written
  temp file with it" (`S/storage.rs:381-382`), but when the rename of an assembled
  file fails the `.assembling` file stays (`S/storage.rs:392`).
- `ShowsSavedState` (`Gallery`): "On means this photograph is on
  media.jasonmcaffee.com, off means it is not" (`S/gallery.js:435`), but a publish
  whose `persist` fails has already added the item (`S/publish.rs:378-383`), and an
  unpublish has already taken it out (`:335-341`): the toggle goes back on the 500 and
  tells the opposite of what is served.

Where a property of `decoding` or `server` makes an exception, the exception is needed:

- EXIF codes 5 and 7 are swapped (`ExifShownAsCoded`): the code turns and mirrors in
  an order that makes a transverse of a transpose and the reverse
  (`S/orientation.rs:165-176`). Every other code is shown as coded.
- A HEIC whose list has a quarter turn ahead of a mirror is shown mirrored the other
  way (`OrderIsKept` leaves it out): `ffmpeg_filters` mirrors first whatever the order of the list.
- A failed stitch falls back to one stream, which for a photo of tiles is one tile
  (`WholePhoto`), and `cached_render` keeps it for good, where `S/imaging.rs:196-198`
  says that "a fallback render lands on the photo".
- Bytes served as immutable do change (`BytesStable`): a client's thumbnail replaces
  a rendered one under the same URL and ETag, and a render that could not be kept is
  made anew, where `S/handlers.rs:20-21` says that "the bytes behind a given URL can
  never change".
- The memo of dimensions keeps an old measure when a replacement comes between the
  measure and its insertion (`MemoTruthful`, `S/storage.rs:187`).

Seen while modelling, with no document to contradict and no property to state:

- A crash between a media rename and the manifest write leaves a file without a
  record, and the retried upload writes a second copy. The order is right (the other
  one loses data); the copy is the price.
- After a failed `remove` (500) the item is out of memory but back after a restart.
- `syncAll` and `reconcile` capture the token once: a 401 for an old one signs a
  new session out, and uploads go on after a sign-out.
- `uploadOne` marks an asset synced when the server already has its *content*
  (`status.stored`), so the asset gets no record of its own and the manifest
  never lists it.
- The breaker is reset at the end of a pass with failed items
  (`A/Services/CircuitBreaker.swift:36` says "after a fully successful run").
- A pass that started before `forget` may write records for deleted assets.
- `BackgroundSyncScheduler.schedule` is called from its own handler only.
- The gallery's toggles do not always start "in the right position"
  (`S/gallery.js:146-147`), and one frame may have two requests (`:480`): the races
  `early` and `double` of section 2.
- `step()` at the last frame loads a page and moves on only if nobody else's page
  request is under way; a late page moves a viewer that has moved since.
- The chain at the end of `loadNextPage` stops at two window heights, the observer
  fires only when the sentinel enters 800 px: in a window lower than 800 px the sentinel
  may be inside from the start, and the paging stops until the next scroll.
- An empty `irot` box reads the byte after it, and the reads of `pitm` and `ipma` are
  bounded by the head, not by their box (`S/heif.rs:139-189`).
- `transcode_rendition` fits a clip "without ever being upscaled"
  (`S/transcode.rs:106-107`), which the scale filter it passes does not say.
- A failed `probe_video` loses a published video's sound: `has_audio` is then
  false (`S/publish.rs:433`).
- main's return waits for the backfill, which nothing tells to stop
  (`S/main.rs:56-59`); `StopEnds` holds because the backfill is finite.
- `PHONE_SYNC_CONNECTION_IDLE_CHECK_SECS=0` turns the watchdog off (the theorem
  `SilentConnectionsEnd` has the hypothesis `CheckInterval > 0`); a
  handler that works longer than the idle timeout without moving a byte loses its
  connection; idle keep-alive connections use up the whole shutdown grace.

## 5. Proofs

All theorems hold for every value of the constants that the named assumptions
allow (any number of threads, assets, contents, chunks, any bounds), checked by
`tlapm` to the last leaf. The assumptions are of two kinds: types of the
constants, and that `None`, `Garbled` and `Torn` are different from data.

**MediaStoreProofs.** `TypeCorrect`, then `InductiveInvariant` for

    StoreInv == TypeOK /\ (\A t : ThreadInv(t)) /\ DataInv

`DataInv` alone is not inductive. A record may be inserted only because the file
is already in place (`pc = "index"`), the file may be renamed only because its
name is still free (`pc = "rename"`), a second file may be written only because
no record has the content (`write`, `read`, `rename`), and all three are
true only as long as nobody else changes files or index, that is, while
`writer = t`. `ThreadInv` says exactly this, step by step. Each action has a
lemma (`...Safe`); lemma `OthersKeep` shows that a thread's steps disturb no
other thread's assertions, once for all actions. From it follow `RecordsAreSound`,
`AckedUploadsSurvive`, `ConfirmedIsKept`, `OneFile`, the action property
`NeverOverwrites`, `ListedSurvives` (under `"persist" \notin Faults`: the
refutation of `ListedIsDurable` shows that the hypothesis is needed), and `Refinement`:
`MediaStore` implements `Library`, with the files' contents as `held` and the
manifest on disk as `catalog`. *PlaceFile* maps to `Keep`, *IndexAndPersist* to
`Catalogue`, *Reply* to `Acknowledge`, all else to stuttering. *IndexAndPersist* may
bring several records at once into the catalogue (an earlier failed write left
one in memory), which is why `Catalogue` replaces it whole.

That a chosen name is free is the lemma `ChosenName`: for the three kinds that are
looked up it follows from the choice, for the last resort from `Past`, the part of
the invariant which says that no file and no chosen name carries a time that the
clock has yet to show. For `MediaStoreShared` the data part of `StoreInv` is lost, since
a record may point at nothing. `SharedInv` keeps what the lock and the clock alone
give: who is inside holds the lock, and the name chosen for the rename is still
free, because others only take files away (`NameInv`). `SharedNeverOverwrites`
follows, with an unreadable manifest as well.

**PublishStoreProofs.** `PublishInv` adds to the two properties: threads inside
`persist` all serialized the items as they are (they hold the read half, so
items cannot change), so any of their files, once whole, is current
(`PersistInv`); an id is its publisher's alone until pushed (`PendingInv`); what
`remove` has taken out stays out while it is written (`RemovingInv`). This is
why the torn file of finding 1 never brings an unpublished photo back.
`DiskIsCurrent` adds `DiskInv`, about the files: a thread whose temp file was renamed
away finds an index that is current or torn, and, while no write has failed, a torn
file is one that somebody has open and will write whole (`Rewriting`). So whoever
leaves `persist` last leaves the index current; the loser of the race for the temp
file answers 500 and has lost nothing.

**SyncEngineProofs.** `SyncedHeld` needs `AnswersInv`: what a manifest answered
is in the index when the answer is used, however much later, since the index only
grows (`ListedGrows`); a stored upload is held when its answer comes.
`BreakerBounds` needs `BreakerInv`: the breaker's count exceeds the retries made
since the last outside trigger whenever another one is scheduled.

**DeletionEngineProofs.** Reuses `SyncEngineProofs`' step lemma for every step
that is the sync engine's, and adds that every asset about to be deleted was
confirmed since the run began. `DeletionsConfirmed` is the action property.

**ServeProofs.** `WatchInv` bounds the silence from below by what the watchdog
counted, `InTime` from above; products of two variables (`stalled * (1 +
Lateness)`) are isolated in two lemmas. `BusyConnectionsLive` holds for every
interval, `SilentConnectionsEnd` for every interval but 0.

**GalleryProofs.** `TogglesAgree` needs `NoTileWhileListed`: the list of a reload
replaces the map and moves no toggle, which does no harm because there are none
while a list is under way, unless one was drawn early. The rest is one lemma per
kind of step; `AnsweredSafe`, where map and toggles move together, rests on
`OutcomeTouchesOne`.

`NothingIsSkipped` is about the listing, newest first, which grows at any place while
the page walks it by offset. An asset's place is its rank, the number of newer
ones (`Rank`); that the ranks fill the places from 0 to the size of the library is the
pigeonhole principle (`EveryPlaceIsTaken`). Uploads only raise ranks (`RankGrows`). The
invariant `WInv` says that an asset the walk has not shown has a rank the next
offset has not passed, also in the page that is under way; a page that ends the
walk therefore holds the last of them.

`IndicatorIsTruthful` has two halves. That a spinner has a request behind it
(`SpinInv`) holds always. That a quiet toggle tells the truth holds while none of
the overlaps and failures of section 2 has come since a reload last found everything
at rest (`Calm`), and rests on four facts about the site, which such a reload brings
back (`RestSite`): a content is up at most once (`UpOnce`), two requests under way are about
two photographs (`Apart`), a request finds the item it was told of (`CallInv`), and what
the map says is so unless a request about it is under way (`MapInv`). Without
`Apart` the map may be overwritten by an older answer: this is `double`.
`GalleryTypes` puts the types in `GalleryInv` and `WInv` together with the rest (`RestTypeOK`).

**ServerProofs.** `RangesExact` goes through the cases of `ParseRange`, for every
length and every number a header may hold. `ServerInvariant` adds to the types: every
token's secret is the one in the file or in the environment while no lapse has come
(`SecretInv`); a worker's step, its item and its picture fit (`ThreadsInv`); the
pictures served of an item that is neither changed nor raced are the one on disk
(`MediaInv`). `BackfillIsExact` counts with the library's cardinality theorems: a
step moves one record from the queue to a worker or from a worker to a counter.

**RenderingProofs.** `ReaderStaysInside` is an induction over the walk: a header that
`read_box` takes moves on by at least itself and not past the range
(`WellFormedMoves`), one more box is one more header (`OneMore`, the product of two
variables), and every range that is entered is that of a box found inside the head.
`RenderInvariant` adds what each step knows: at `fallback` a stitch that could have
been made has failed; at `v540` the large rendition is as `info` calls for, and
`info` is the truth or its probe has failed. `PictureIsRight` has one assumption
about data, `PhotosAssumption`, which is what `S/imaging.rs:196-198` relies on: gain
maps are gray, and where no grid is stitched the largest stream in colour is the
photo, the washed-out HDR preview of `S/imaging.rs:8-10` being smaller. A file that
marks no group as primary, or a map, is excepted (`Marked`). That
`best_image_stream` finds a stream needs a largest member of a finite set; it is
proved by least counterexample (`LeastExists`, `BoundExists`), from the
well-foundedness of the natural numbers.

`OrientationIsShown` is about three folds: the filters over a picture, the loop of
`parse_orientation` over a list of properties, and the meaning of that list. The
library's induction theorems take operators, so the argument is made by hand: a
function that computes a fold exists for every length (`FoldExists`, by least
counterexample), hence each fold takes its list one by one, and an induction over the
length follows the list with a relation between what the code holds and what the
list has meant so far. It says which turn and which mirror have been listed; with
both, that the mirror came first or the turn is a half turn (`OrderIsKept`). That
the picture is right is then algebra over corners: filters mirror, then turn; a half
turn commutes with a mirror; each filter does what the standard says of its property
although `HeicMeaning` is not built from it. So a list of any length, with properties
of other kinds and empty payloads anywhere, is shown as it means.

Every invariant and every safety action property that a run checks is a theorem.
Only model-checked: all liveness (`RequestsAnswered`, `PassEnds`,
`EventuallyBackedUp`, `FinishedAreReaped`, `ShutdownEnds`, `StopEnds`), which rests on
fairness and `ENABLED`.

## 6. What is not modelled, and why
- Wording, formats, logging, MIME types, metrics; EXIF and capture dates beyond
  the month folder they choose.
- Live Photo paired videos and edited renditions: the app uploads the primary
  resource only.
- Socket options, keepalive probes: kernel state. A connection the kernel drops is
  `Closed`.
- Pixels: scale factors, crops to the byte, encoder settings, colours and ThumbHash
  are ffmpeg's or arithmetic with no effect on control. In `PublishStore` a publish's
  renders are one step that works or fails; `Rendering` has what happens inside.
- Time limits of child processes: the code sets none.
- The background scheduler: its request is submitted only from its own handler,
  which the system calls only for a submitted request, so it never runs; its task is
  the sync engine's `SyncNow`.
- Views, data models, error texts and the wiring of the state: no state of their own.
- The router is a table; which handlers ask for a token is not modelled. Signatures,
  token expiry and password hashes belong to libraries.
- The gallery's rows, formats and detail view, which only adds a caller of
  `loadNextPage`.
- Streaming of a range's bytes: `Serve` has the connection, `ByteRange` the bounds.
- Ties of date and hash, limits and fields of the listing.
- Disk corruption under an intact record: a deep verify would notice; `TakeAway`
  models only removal.

## 7. Plan

Done, most important first: `MediaStore` with `Library`, `MediaStoreShared`,
`PublishStore`, `SyncEngine`, `DeletionEngine`, `Serve`, `Gallery`, `Startup` with
`Thumbnails`, `ByteRange`, `Orientation`, `BoxWalk`, `Rendering`, and the proofs of
section 5. Left, in this order:

1. A second refinement: that `MediaStore`'s manifest endpoint gives `SyncEngine` the
   server it assumes, from `Library`.
2. The order of the listing where date and hash tie (the order is then the map's,
   against the comment at `S/storage.rs:97-99`).
3. `Startup` composed with the phone's token in `SyncEngine` (its `expiry` mishap).
