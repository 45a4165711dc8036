-------------------------- MODULE MediaStoreShared --------------------------
(***************************************************************************)
(* The media store beside what it does not control: the media root is a    *)
(* folder other programs and people use, so a file may be taken away       *)
(* (verify_item answers "missing_file" for it), and the manifest may be    *)
(* unreadable when the process starts, in which case load_index yields     *)
(* nothing and the index starts empty.                                     *)
(***************************************************************************)
EXTENDS MediaStore

CONSTANT MaxRemovals  \* bound on files taken away

ASSUME RemovalsAssumption == MaxRemovals \in Nat

VARIABLE removals

sharedVars == <<vars, removals>>

SharedInit == Init /\ removals = 0

TakeAway(p) ==
  /\ files[p] # None
  /\ removals < MaxRemovals
  /\ files' = [files EXCEPT ![p] = None]
  /\ removals' = removals + 1
  /\ UNCHANGED <<manifest, staged, strays, clock, index, writer, pc, req, target, pos,
                 good, crashes, history>>

\* load_index fails: unwrap_or_default starts the process with no records, and
\* the next upload writes that over the manifest.
UnreadableRestart ==
  /\ CrashReset
  /\ index' = [a \in Assets |-> None]
  /\ UNCHANGED removals

SharedNext ==
  \/ Next /\ UNCHANGED removals
  \/ \E p \in Paths : TakeAway(p)
  \/ UnreadableRestart

SharedSpec == SharedInit /\ [][SharedNext]_sharedVars

\* Even when it has forgotten the files it wrote, or lost some, the server
\* itself never overwrites or removes one that is there.
ServerNeverOverwrites ==
  [][removals' = removals =>
       \A p \in Paths : files[p] # None => files'[p] = files[p]]_sharedVars

\* stored_copy_of "finds an indexed record whose bytes are already on disk
\* with the same content hash" (storage.rs:426): an upload that writes nothing
\* finds its bytes in the file its record will point at.
ReuseFindsContent ==
  [][\A t \in Threads : pc[t] = "find" /\ pc'[t] = "index"
       => files[target'[t]] = req[t].content]_sharedVars
=============================================================================
