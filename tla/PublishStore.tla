---------------------------- MODULE PublishStore ----------------------------
(***************************************************************************)
(* The published set (phone-sync-server/src/publish.rs and the /api        *)
(* handlers of publish_handlers.rs): the items in memory behind an RwLock, *)
(* published/index.json, the directories of rendered derivatives, and the  *)
(* threads that publish, edit and unpublish at once.                       *)
(*                                                                         *)
(* A section under the write lock is one action that waits until no thread *)
(* is inside persist, which holds the read lock from its first step to its *)
(* last.  Several persists may therefore run together, and they share one  *)
(* temp file, index.json.tmp.  A file is "torn" while its bytes are not    *)
(* all written; a thread keeps writing to the file it opened wherever a    *)
(* rename has moved it.                                                    *)
(*                                                                         *)
(* A definition named Mut... is no part of the model: it is the plausible  *)
(* bug that the mutation runs put in the place of the definition below it. *)
(***************************************************************************)
EXTENDS Naturals, FiniteSets

CONSTANTS
  Ids,         \* public ids new_public_id may draw; each is drawn once
  Records,     \* content hashes of library records
  Titles,      \* what the caption fields may be set to; None: not given, or empty
  Requests,    \* what the gallery may ask: subset of Request
  Threads,     \* blocking threads that run a handler
  Faults,      \* subset of {"render", "persist"}
  MaxCrashes,  \* bound on process crashes
  None,        \* no item, no request
  Torn         \* a file whose bytes are not all there

Item == [sha : Records, title : Titles \cup {None}]
ItemSet == [Ids -> Item \cup {None}]
Request == [op : {"publish"}, sha : Records, title : Titles \cup {None}]
           \cup [op : {"update"}, id : Ids, title : Titles]
           \cup [op : {"remove"}, id : Ids]

ASSUME CrashesAssumption == MaxCrashes \in Nat
ASSUME RequestsAssumption == Requests \subseteq Request
ASSUME DistinctAssumption == None \notin Item /\ None \notin Request /\ None \notin Ids
                             /\ Torn \notin ItemSet /\ None \notin ItemSet /\ Torn # None

VARIABLES
  items,     \* id -> item: PublishStore.items
  index,     \* index.json: an item set (empty when there is no file) or Torn
  tmp,       \* index.json.tmp: an item set, Torn, or None
  dir,       \* id -> "none", "partial" or "ready": published/<id>/
  drawn,     \* ids drawn so far
  pc, req,   \* per thread: step and request
  target,    \* per thread: the id it works on
  json,      \* per thread: the items it serialized
  file,      \* per thread: where the file it writes is now: "tmp", "index", "gone"
  crashes,
  removed,   \* history: ids whose unpublish was answered 204
  unsaved    \* history: a write has failed, or a restart has found index.json torn

vars == <<items, index, tmp, dir, drawn, pc, req, target, json, file, crashes, removed, unsaved>>

NoItems == [i \in Ids |-> None]

Init ==
  /\ items = NoItems /\ index = NoItems /\ tmp = None
  /\ dir = [i \in Ids |-> "none"]
  /\ drawn = {}
  /\ pc = [t \in Threads |-> "idle"]
  /\ req = [t \in Threads |-> None]
  /\ target = [t \in Threads |-> None]
  /\ json = [t \in Threads |-> None]
  /\ file = [t \in Threads |-> "gone"]
  /\ crashes = 0 /\ removed = {} /\ unsaved = FALSE

PersistSteps == {"writing", "overtaken", "rename"}

\* The write lock can be had: no thread is inside persist.
Unlocked == \A t \in Threads : pc[t] \notin PersistSteps

Goto(t, step) == pc' = [pc EXCEPT ![t] = step]

MutKeepReading(t) ==
  /\ Goto(t, "writing")
  /\ req' = [req EXCEPT ![t] = None]
  /\ target' = [target EXCEPT ![t] = None]
  /\ json' = [json EXCEPT ![t] = None]
  /\ file' = [file EXCEPT ![t] = "gone"]

Return(t) ==
  /\ Goto(t, "idle")
  /\ req' = [req EXCEPT ![t] = None]
  /\ target' = [target EXCEPT ![t] = None]
  /\ json' = [json EXCEPT ![t] = None]
  /\ file' = [file EXCEPT ![t] = "gone"]

\* Bound: an id is left for every publish under way.
IdsLeft ==
  Cardinality(drawn) + Cardinality({u \in Threads : pc[u] = "find"}) < Cardinality(Ids)

Receive(t) ==
  /\ pc[t] = "idle"
  /\ \E r \in Requests :
       /\ r.op = "publish" => IdsLeft
       /\ req' = [req EXCEPT ![t] = r]
       /\ target' = [target EXCEPT ![t] = IF r.op = "publish" THEN None ELSE r.id]
       /\ Goto(t, IF r.op = "publish" THEN "find" ELSE "change")
  /\ UNCHANGED <<items, index, tmp, dir, drawn, json, file, crashes, removed, unsaved>>

(***************************************************************************)
(* publish.                                                                *)
(***************************************************************************)
PublishedAs(sha) == {i \in Ids : items[i] # None /\ items[i].sha = sha}

\* by_sha256 finds an item: edit it instead.
FindPublished(t) ==
  /\ pc[t] = "find"
  /\ \E i \in PublishedAs(req[t].sha) : target' = [target EXCEPT ![t] = i]
  /\ Goto(t, "change")
  /\ UNCHANGED <<items, index, tmp, dir, drawn, req, json, file, crashes, removed, unsaved>>

\* Nothing is published for this hash: draw an id, make its directory.
DrawId(t) ==
  /\ pc[t] = "find"
  /\ PublishedAs(req[t].sha) = {}
  /\ \E i \in Ids \ drawn :
       /\ drawn' = drawn \cup {i}
       /\ dir' = [dir EXCEPT ![i] = "partial"]
       /\ target' = [target EXCEPT ![t] = i]
  /\ Goto(t, "render")
  /\ UNCHANGED <<items, index, tmp, req, json, file, crashes, removed, unsaved>>

Render(t) ==
  /\ pc[t] = "render"
  /\ dir' = [dir EXCEPT ![target[t]] = "ready"]
  /\ Goto(t, "push")
  /\ UNCHANGED <<items, index, tmp, drawn, req, target, json, file, crashes, removed, unsaved>>

\* A derivative cannot be made: the directory is removed again, if it can be.
RenderFails(t) ==
  /\ pc[t] = "render"
  /\ "render" \in Faults
  /\ dir' \in {dir, [dir EXCEPT ![target[t]] = "none"]}
  /\ Return(t)
  /\ UNCHANGED <<items, index, tmp, drawn, crashes, removed, unsaved>>

MutPushUnlocked(t) ==
  /\ pc[t] = "push"
  /\ items' = [items EXCEPT ![target[t]] = [sha |-> req[t].sha, title |-> req[t].title]]
  /\ Goto(t, "persist")
  /\ UNCHANGED <<index, tmp, dir, drawn, req, target, json, file, crashes, removed, unsaved>>

Push(t) ==
  /\ pc[t] = "push"
  /\ Unlocked
  /\ items' = [items EXCEPT ![target[t]] = [sha |-> req[t].sha, title |-> req[t].title]]
  /\ Goto(t, "persist")
  /\ UNCHANGED <<index, tmp, dir, drawn, req, target, json, file, crashes, removed, unsaved>>

(***************************************************************************)
(* update and remove.                                                      *)
(***************************************************************************)
\* The item is not there (any more): 404, or for publish the entry it found.
NoSuchItem(t) ==
  /\ pc[t] = "change"
  /\ Unlocked
  /\ items[target[t]] = None
  /\ Return(t)
  /\ UNCHANGED <<items, index, tmp, dir, drawn, crashes, removed, unsaved>>

Update(t) ==
  /\ pc[t] = "change"
  /\ req[t].op # "remove"
  /\ Unlocked
  /\ items[target[t]] # None
  /\ items' = [items EXCEPT ![target[t]].title =
                  IF req[t].title = None THEN @ ELSE req[t].title]
  /\ Goto(t, "persist")
  /\ UNCHANGED <<index, tmp, dir, drawn, req, target, json, file, crashes, removed, unsaved>>

MutRetainUnlocked(t) ==
  /\ pc[t] = "change"
  /\ req[t].op = "remove"
  /\ items[target[t]] # None
  /\ items' = [items EXCEPT ![target[t]] = None]
  /\ Goto(t, "persist")
  /\ UNCHANGED <<index, tmp, dir, drawn, req, target, json, file, crashes, removed, unsaved>>

MutRemoveDirFirst(t) ==
  /\ pc[t] = "change"
  /\ req[t].op = "remove"
  /\ Unlocked
  /\ items[target[t]] # None
  /\ items' = [items EXCEPT ![target[t]] = None]
  /\ dir' = [dir EXCEPT ![target[t]] = "none"]
  /\ Goto(t, "persist")
  /\ UNCHANGED <<index, tmp, drawn, req, target, json, file, crashes, removed, unsaved>>

Retain(t) ==
  /\ pc[t] = "change"
  /\ req[t].op = "remove"
  /\ Unlocked
  /\ items[target[t]] # None
  /\ items' = [items EXCEPT ![target[t]] = None]
  /\ Goto(t, "persist")
  /\ UNCHANGED <<index, tmp, dir, drawn, req, target, json, file, crashes, removed, unsaved>>

\* remove deletes the derivatives last, and ignores the result.
RemoveDir(t) ==
  /\ pc[t] = "rmdir"
  /\ dir' \in {dir, [dir EXCEPT ![target[t]] = "none"]}
  /\ removed' = removed \cup {target[t]}
  /\ Return(t)
  /\ UNCHANGED <<items, index, tmp, drawn, crashes, unsaved>>

(***************************************************************************)
(* persist: under the read lock from the first step to the last.           *)
(***************************************************************************)
\* fs::write creates the temp file, or empties the one another thread is
\* still writing.
OpenTmp(t) ==
  /\ pc[t] = "persist"
  /\ json' = [json EXCEPT ![t] = items]
  /\ tmp' = Torn
  /\ file' = [file EXCEPT ![t] = "tmp"]
  /\ pc' = [u \in Threads |->
              IF u = t THEN "writing"
              ELSE IF pc[u] = "writing" /\ file[u] = "tmp" THEN "overtaken" ELSE pc[u]]
  /\ UNCHANGED <<items, index, dir, drawn, req, target, crashes, removed, unsaved>>

\* What a file may hold once t has written all its bytes: a thread whose file
\* was emptied under it may leave a gap for the other to fill.
Written(t, before) ==
  CASE pc[t] = "writing" -> {json[t]}
    [] pc[t] = "overtaken" /\ before = Torn -> {json[t], Torn}
    [] OTHER -> {before, json[t]}

WriteTmp(t) ==
  /\ pc[t] \in {"writing", "overtaken"}
  /\ tmp' \in IF file[t] = "tmp" THEN Written(t, tmp) ELSE {tmp}
  /\ index' \in IF file[t] = "index" THEN Written(t, index) ELSE {index}
  /\ Goto(t, "rename")
  /\ UNCHANGED <<items, dir, drawn, req, target, json, file, crashes, removed, unsaved>>

\* The write fails part of the way; the file stays as it is.
WriteFails(t) ==
  /\ pc[t] \in {"persist", "writing", "overtaken"}
  /\ "persist" \in Faults
  /\ unsaved' = TRUE
  /\ Return(t)
  /\ UNCHANGED <<items, index, tmp, dir, drawn, crashes, removed>>

\* The temp file, whoever wrote it last, becomes index.json; threads still
\* writing it now write index.json.
RenameTmp(t) ==
  /\ pc[t] = "rename"
  /\ tmp # None
  /\ index' = tmp
  /\ tmp' = None
  /\ file' = [u \in Threads |-> IF u # t /\ file[u] = "tmp" THEN "index" ELSE "gone"]
  /\ IF req[t].op = "remove"
     THEN Goto(t, "rmdir") /\ UNCHANGED <<req, target, json>>
     ELSE /\ Goto(t, "idle")
          /\ req' = [req EXCEPT ![t] = None]
          /\ target' = [target EXCEPT ![t] = None]
          /\ json' = [json EXCEPT ![t] = None]
  /\ UNCHANGED <<items, dir, drawn, crashes, removed, unsaved>>

MutAwaitTmp(t) ==
  /\ pc[t] = "rename"
  /\ tmp = None
  /\ UNCHANGED vars

\* A 500: another thread has renamed the temp file away, or it is there and the
\* system does not rename it.
RenameFails(t) ==
  /\ pc[t] = "rename"
  /\ \/ tmp = None /\ UNCHANGED unsaved
     \/ tmp # None /\ "persist" \in Faults /\ unsaved' = TRUE
  /\ Return(t)
  /\ UNCHANGED <<items, index, tmp, dir, drawn, crashes, removed>>

(***************************************************************************)
(* The process dies at any step and open reads the index again: one that   *)
(* does not parse yields the empty set.                                    *)
(***************************************************************************)
CrashRestart ==
  /\ crashes < MaxCrashes
  /\ crashes' = crashes + 1
  /\ items' = IF index = Torn THEN NoItems ELSE index
  /\ unsaved' = (unsaved \/ index = Torn)
  /\ pc' = [t \in Threads |-> "idle"]
  /\ req' = [t \in Threads |-> None]
  /\ target' = [t \in Threads |-> None]
  /\ json' = [t \in Threads |-> None]
  /\ file' = [t \in Threads |-> "gone"]
  /\ UNCHANGED <<index, tmp, dir, drawn, removed>>

ThreadStep(t) ==
  \/ FindPublished(t) \/ DrawId(t) \/ Render(t) \/ RenderFails(t) \/ Push(t)
  \/ NoSuchItem(t) \/ Update(t) \/ Retain(t) \/ RemoveDir(t)
  \/ OpenTmp(t) \/ WriteTmp(t) \/ WriteFails(t) \/ RenameTmp(t) \/ RenameFails(t)

Next == (\E t \in Threads : Receive(t) \/ ThreadStep(t)) \/ CrashRestart

Spec == Init /\ [][Next]_vars

\* A blocking thread keeps running, and the RwLock passes no writer over for
\* ever.  Requests, crashes and faults are not fair.
Fairness ==
  \A t \in Threads : /\ WF_vars(ThreadStep(t))
                     /\ SF_vars(Push(t) \/ NoSuchItem(t) \/ Update(t) \/ Retain(t))

FairSpec == Spec /\ Fairness

(***************************************************************************)
(* Properties.                                                             *)
(***************************************************************************)
Steps == {"idle", "find", "render", "push", "change", "persist", "rmdir"} \cup PersistSteps

StepFits(t) ==
  /\ pc[t] # "idle" => req[t] \in Request
  /\ pc[t] \in {"find", "render", "push"} => req[t].op = "publish"
  /\ pc[t] = "rmdir" => req[t].op = "remove"
  /\ pc[t] \in Steps \ {"idle", "find"} => target[t] \in Ids
  /\ pc[t] \in PersistSteps => json[t] \in ItemSet

\* Every variable has its type, and every thread's request fits its step.
TypeOK ==
  /\ items \in ItemSet
  /\ index \in ItemSet \cup {Torn}
  /\ tmp \in ItemSet \cup {Torn, None}
  /\ dir \in [Ids -> {"none", "partial", "ready"}]
  /\ drawn \subseteq Ids
  /\ pc \in [Threads -> Steps]
  /\ req \in [Threads -> Request \cup {None}]
  /\ target \in [Threads -> Ids \cup {None}]
  /\ json \in [Threads -> ItemSet \cup {None}]
  /\ file \in [Threads -> {"tmp", "index", "gone"}]
  /\ crashes \in 0 .. MaxCrashes
  /\ removed \subseteq Ids
  /\ unsaved \in BOOLEAN
  /\ \A t \in Threads : StepFits(t)

\* An item the feed serves, now or after a restart, has its derivatives: a
\* crash between the steps of publish or unpublish leaves an unused directory
\* behind, never an item without one.
IndexedHasDerivatives ==
  \A i \in Ids :
    /\ items[i] # None => dir[i] = "ready"
    /\ index # Torn /\ index[i] # None => dir[i] = "ready"

\* Once an unpublish was answered 204 the item is in no index a restart could
\* load: no other thread's write, older or later, brings it back.
RemovedStaysRemoved ==
  \A i \in removed : items[i] = None /\ (index # Torn => index[i] = None)

\* When nobody is changing or writing the set and no write has failed, the
\* file holds exactly what is served: a thread that lost the race for the temp
\* file, and answered 500, lost no change.
QuietDiskIsCurrent ==
  (\A t \in Threads : pc[t] \notin PersistSteps \cup {"persist"}) /\ ~unsaved
    => index = items

\* Every request is answered, whatever the others hold.
RequestsAnswered == \A t \in Threads : (pc[t] # "idle") ~> (pc[t] = "idle")

\* "A crash midway cannot leave a truncated index behind" (publish.rs:484-485).
IndexNeverTorn == index # Torn

\* Publishing what is published already makes no second copy
\* (publish.rs:352-353).
OneItemPerRecord == \A r \in Records : Cardinality(PublishedAs(r)) <= 1

(***************************************************************************)
(* The inductive invariant: SetInv is behind IndexedHasDerivatives and     *)
(* RemovedStaysRemoved, DiskInv behind QuietDiskIsCurrent.                 *)
(***************************************************************************)
Off(i) == items[i] = None /\ (index # Torn => index[i] = None)

\* Threads inside persist all write the items as they are, and so do the
\* files they write.
PersistInv ==
  \A t \in Threads : pc[t] \in PersistSteps =>
    /\ json[t] = items
    /\ tmp \in {None, Torn, items}
    /\ file[t] = "index" => index \in {Torn, items}

\* An id is its publisher's alone until it is pushed.
Pending(t) == pc[t] \in {"render", "push"}

PendingInv ==
  \A t \in Threads : Pending(t) =>
    /\ target[t] \in drawn \ removed
    /\ Off(target[t])
    /\ pc[t] = "push" => dir[target[t]] = "ready"
    /\ \A u \in Threads \ {t} : Pending(u) => target[u] # target[t]

\* What unpublish has taken out of the set stays out while it is written.
Removing(t) == pc[t] \in PersistSteps \cup {"persist", "rmdir"} /\ req[t].op = "remove"

RemovingInv ==
  \A t \in Threads : Removing(t) =>
    /\ target[t] \in drawn
    /\ items[target[t]] = None
    /\ pc[t] = "rmdir" => Off(target[t])
    /\ \A u \in Threads : Pending(u) => target[u] # target[t]

\* Only drawn ids are in the set, on disk or in memory.
DrawnInv ==
  /\ removed \subseteq drawn
  /\ \A i \in Ids : ~Off(i) => i \in drawn

SetInv ==
  /\ TypeOK /\ PersistInv /\ PendingInv /\ RemovingInv /\ DrawnInv
  /\ IndexedHasDerivatives /\ RemovedStaysRemoved

\* Somebody has the file open and will write the whole of it again.
Rewriting(name) == \E t \in Threads : pc[t] = "writing" /\ file[t] = name

\* A thread inside persist whose temp file was renamed away finds an index that
\* is current or being rewritten, and as long as no write has failed a file
\* that is torn has a writer that was not overtaken: so whoever leaves persist
\* last leaves the index current.
DiskInv ==
  /\ \A t \in Threads : pc[t] \in PersistSteps =>
       IF file[t] = "tmp" THEN tmp # None ELSE index \in {items, Torn}
  /\ ~unsaved =>
       /\ tmp = Torn /\ ~Unlocked => Rewriting("tmp")
       /\ index = Torn => Rewriting("index")
       /\ QuietDiskIsCurrent

PublishInv == SetInv /\ DiskInv
=============================================================================
