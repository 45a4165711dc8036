---------------------------- MODULE Thumbnails ----------------------------
(***************************************************************************)
(* The thumbnails of the library (phone-sync-server/src/storage.rs,        *)
(* thumbnail_bytes, store_thumbnail and thumbnail_dimensions; handlers.rs, *)
(* get_thumb, put_thumbnail and list_item; main.rs, backfill_thumbnails):  *)
(* rendered on demand and by the backfill at start, replaced by a client,  *)
(* and measured once per process for the listing.                          *)
(*                                                                         *)
(* A file is written under a name of its own and renamed: one step.  Of a  *)
(* JPEG only its picture is kept; two pictures may differ in shape.        *)
(***************************************************************************)
EXTENDS Startup, FiniteSets

CONSTANTS
  Records, ItemOf,  \* the index; two devices may have a record of one item
  Workers, Clients, None

Items == {ItemOf[r] : r \in Records}

\* A render, a render that fell back to one tile, and a client's own thumbnail.
Pictures == {"rendered", "fallback", "client"}

ASSUME NoneAssumption == None \notin Items /\ None \notin Pictures
ASSUME FiniteAssumption == IsFiniteSet(Records) /\ IsFiniteSet(Workers)
ASSUME ThreadsAssumption == Workers # {} /\ Workers \cap Clients = {}

Threads == Workers \cup Clients

VARIABLES
  thumb,      \* the file in thumbs/
  dimensions, \* the memo, by the picture that was measured
  pc,         \* what a thread does
  item,       \* the item it is at
  holds,      \* the picture it has measured or rendered
  queue,      \* the backfill's iterator over what was pending
  generated, failed,
  total,      \* history: what was pending at the start
  seen,       \* history: pictures served under an item's URL before it is in the next two
  changed,    \* history: items with a client's thumbnail or a render not kept
  raced       \* history: items written while another thread was at them

disk == <<thumb, seen, changed, raced>>
thread == <<pc, item, holds>>
backfill == <<queue, generated, failed, total>>
vars == <<life, disk, dimensions, thread, backfill>>

Idle ==
  /\ pc' = [t \in Threads |-> IF t \in Workers THEN "over" ELSE "idle"]
  /\ item' = [t \in Threads |-> None] /\ holds' = [t \in Threads |-> None]

TInit ==
  /\ SInit
  /\ thumb = [i \in Items |-> None] /\ seen = [i \in Items |-> {}]
  /\ changed = {} /\ raced = {}
  /\ dimensions = [i \in Items |-> None]
  /\ pc = [t \in Threads |-> IF t \in Workers THEN "over" ELSE "idle"]
  /\ item = [t \in Threads |-> None] /\ holds = [t \in Threads |-> None]
  /\ queue = {} /\ generated = 0 /\ failed = 0 /\ total = 0

NoBackfill == queue' = {} /\ generated' = 0 /\ failed' = 0 /\ total' = 0

\* main: the storage opens with an empty memo, and the backfill is spawned.
Start ==
  /\ LoadEnv \/ LoadFile \/ CreateFile \/ CreateFails
  /\ dimensions' = [i \in Items |-> None]
  /\ pc' = [t \in Threads |-> IF t \in Workers THEN "spawned" ELSE "idle"]
  /\ NoBackfill /\ UNCHANGED <<disk, item, holds>>

\* The life of the process apart from its start and its end.
Life ==
  /\ CreateCut \/ Binds \/ BindRetries \/ BindFails \/ Login \/ StopAsked
  /\ UNCHANGED <<disk, dimensions, thread, backfill>>

Over ==
  /\ NoBackfill /\ Idle /\ UNCHANGED disk
  /\ dimensions' = [i \in Items |-> None]

\* taskkill /F, at any moment.
Kill == phase # "down" /\ starts < MaxStarts /\ Gone /\ Over

\* main returns; the runtime waits for the blocking threads it has started, the
\* backfill's included, and drops a backfill that has not begun.
Exit ==
  /\ phase \in {"stopping", "failed"}
  /\ \A t \in Threads : pc[t] \in {"idle", "spawned", "over"}
  /\ Gone /\ Over

Up == phase # "down"
Rests == {"idle", "spawned", "over", "next"}
At(t, i) == pc[t] \notin Rests /\ item[t] = i
Goes(t, to, i, picture) ==
  /\ pc' = [pc EXCEPT ![t] = to]
  /\ item' = [item EXCEPT ![t] = i] /\ holds' = [holds EXCEPT ![t] = picture]
\* An item that raced need not be in `changed' as well.
Races(t, i) ==
  raced' = IF \E u \in Threads \ {t} : At(u, i) THEN raced \cup {i} ELSE raced
Changes(i) == changed' = IF i \in raced' THEN changed \ {i} ELSE changed \cup {i}
Serves(t, i, picture) ==
  seen' = IF t \in Clients /\ i \notin changed' \cup raced'
          THEN [seen EXCEPT ![i] = @ \cup {picture}] ELSE seen
\* The thread is done: a worker goes on to its next record.
Done(t) == Goes(t, IF t \in Workers THEN "next" ELSE "idle", None, None)
Counted(t, ok) ==
  /\ generated' = IF t \in Workers /\ ok THEN generated + 1 ELSE generated
  /\ failed' = IF t \in Workers /\ ~ok THEN failed + 1 ELSE failed

MutAlwaysRender(t, i) ==
  /\ Goes(t, "render", i, None)
  /\ UNCHANGED <<disk, generated, failed, life, dimensions, total>>

\* cached_render: the cached file, or a render of the source to come.
Look(t, i) ==
  /\ IF thumb[i] # None
     THEN /\ UNCHANGED <<thumb, changed, raced>>
          /\ Serves(t, i, thumb[i]) /\ Done(t) /\ Counted(t, TRUE)
     ELSE Goes(t, "render", i, None) /\ UNCHANGED <<disk, generated, failed>>
  /\ UNCHANGED <<life, dimensions, total>>

MutPeek(w) ==
  /\ Up /\ pc[w] = "next"
  /\ \/ \E r \in queue : Look(w, ItemOf[r]) /\ UNCHANGED queue
     \/ /\ queue = {} /\ Goes(w, "over", None, None)
        /\ UNCHANGED <<life, disk, dimensions, backfill>>

MutNoReturn(w) ==
  /\ Up /\ pc[w] = "next"
  /\ \E r \in queue : Look(w, ItemOf[r]) /\ queue' = queue \ {r}

\* The backfill takes stock of the records without a thumbnail, at any moment
\* beside main, and puts its workers to it.
TakeStock ==
  /\ Up /\ \A w \in Workers : pc[w] = "spawned"
  /\ queue' = {r \in Records : thumb[ItemOf[r]] = None} /\ total' = Cardinality(queue')
  /\ generated' = 0 /\ failed' = 0
  /\ pc' = [t \in Threads |->
              IF t \notin Workers THEN pc[t] ELSE IF queue' = {} THEN "over" ELSE "next"]
  /\ UNCHANGED <<life, disk, dimensions, item, holds>>

\* A worker takes the next record under the lock of the iterator and looks in the
\* cache, or returns.
TakeNext(w) ==
  /\ Up /\ pc[w] = "next"
  /\ \/ \E r \in queue : Look(w, ItemOf[r]) /\ queue' = queue \ {r}
     \/ /\ queue = {} /\ Goes(w, "over", None, None)
        /\ UNCHANGED <<life, disk, dimensions, backfill>>

\* get_thumb of an item that exists; a conditional one is answered from the tag.
GetThumb(c, i) ==
  /\ phase = "serving" /\ pc[c] = "idle"
  /\ Look(c, i) /\ UNCHANGED queue

\* render_still or render_video_frame: the picture, a worse one, or none.
Render(t) ==
  /\ Up /\ pc[t] = "render"
  /\ \/ \E p \in {"rendered", "fallback"} :
          Goes(t, "keep", item[t], p) /\ UNCHANGED <<generated, failed>>
     \/ Done(t) /\ Counted(t, FALSE)
  /\ UNCHANGED <<life, disk, dimensions, queue, total>>

\* The render is cached, or cannot be, and served either way.
Keep(t) ==
  /\ Up /\ pc[t] = "keep"
  /\ \/ /\ thumb' = [thumb EXCEPT ![item[t]] = holds[t]]
        /\ Races(t, item[t]) /\ changed' = changed \ raced'
     \/ UNCHANGED <<thumb, raced>> /\ Changes(item[t])
  /\ Serves(t, item[t], holds[t]) /\ Done(t) /\ Counted(t, TRUE)
  /\ UNCHANGED <<life, dimensions, queue, total>>

\* store_thumbnail writes the client's JPEG, or the request fails, ...
PutThumbnail(c, i) ==
  /\ phase = "serving" /\ pc[c] = "idle"
  /\ thumb' = [thumb EXCEPT ![i] = "client"]
  /\ Races(c, i) /\ Changes(i)
  /\ Goes(c, "forget", i, None)
  /\ UNCHANGED <<life, seen, dimensions, backfill>>

MutKeepMemo(c) ==
  /\ Up /\ pc[c] = "forget"
  /\ Done(c)
  /\ UNCHANGED <<life, disk, dimensions, backfill>>

\* ... and then takes the old measure out of the memo.
Forget(c) ==
  /\ Up /\ pc[c] = "forget"
  /\ dimensions' = [dimensions EXCEPT ![item[c]] = None]
  /\ Done(c)
  /\ UNCHANGED <<life, disk, backfill>>

\* list_item: thumbnail_dimensions answers from the memo, or measures the file, ...
Measure(c, i) ==
  /\ phase = "serving" /\ pc[c] = "idle"
  /\ dimensions[i] = None /\ thumb[i] # None
  /\ Goes(c, "memo", i, thumb[i])
  /\ UNCHANGED <<life, disk, dimensions, backfill>>

\* ... and puts the measure into the memo.
Memoize(c) ==
  /\ Up /\ pc[c] = "memo"
  /\ dimensions' = [dimensions EXCEPT ![item[c]] = holds[c]]
  /\ Done(c)
  /\ UNCHANGED <<life, disk, backfill>>

ThreadStep(t) == Render(t) \/ Keep(t) \/ Forget(t) \/ Memoize(t)

Work == TakeStock \/ (\E t \in Threads : ThreadStep(t)) \/ (\E w \in Workers : TakeNext(w))

TNext ==
  \/ Start \/ Life \/ Kill \/ Exit \/ Work
  \/ \E c \in Clients, i \in Items : GetThumb(c, i) \/ PutThumbnail(c, i) \/ Measure(c, i)

TSpec == TInit /\ [][TNext]_vars

\* What is left for the threads to do once main has stopped serving.
LastWork == phase \in {"stopping", "failed"} /\ Work

\* Then some thread that has work gets on with it, and main returns when it can.
TFairSpec == TSpec /\ WF_vars(LastWork) /\ WF_vars(Exit)

----------------------------------------------------------------------------
TTypeOK ==
  /\ StartupTypeOK
  /\ thumb \in [Items -> Pictures \cup {None}] /\ dimensions \in [Items -> Pictures \cup {None}]
  /\ pc \in [Threads -> Rests \cup {"render", "keep", "forget", "memo"}]
  /\ item \in [Threads -> Items \cup {None}] /\ holds \in [Threads -> Pictures \cup {None}]
  /\ queue \subseteq Records /\ generated \in Nat /\ failed \in Nat /\ total \in Nat
  /\ seen \in [Items -> SUBSET Pictures] /\ changed \subseteq Items /\ raced \subseteq Items

\* With no thread at an item, what the listing says of its shape is that of its
\* thumbnail, whoever replaced it, unless a thread wrote it while another was at
\* it: "the memoized dimensions for this item are no longer trustworthy"
\* (storage.rs:197-198).
MemoTruthful ==
  \A i \in Items : (\A t \in Threads : ~At(t, i)) /\ i \notin raced =>
     dimensions[i] \in {None, thumb[i]}

\* "The bytes behind a given URL can never change" (handlers.rs:20-21): they do so
\* only if a client has replaced them, a render could not be kept, or two threads
\* rendered at once; a restart or a render that fell back changes nothing.
BytesStable ==
  \A i \in Items : Cardinality(seen[i]) > 1 => i \in changed \cup raced

\* Every record that was pending is handed to one worker and counted once.
BackfillCounts ==
  Up => total = Cardinality(queue) + generated + failed
                  + Cardinality({w \in Workers : pc[w] \in {"render", "keep"}})

\* The backfill comes to an end, and a process that is asked to stop or has found
\* no address does, unless it is killed first.
StopEnds == (phase \in {"stopping", "failed"}) ~> (phase = "down")
============================================================================
