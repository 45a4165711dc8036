------------------------- MODULE PublishStoreProofs -------------------------
(* Proofs about PublishStore, for every value of its constants. *)
EXTENDS PublishStore, TLAPS

\* The initial state has the types.
LEMMA InitTypeOK == Init => TypeOK
<1>1. NoItems \in ItemSet
  BY DEF NoItems, ItemSet
<1>2. Init => \A t \in Threads : StepFits(t)
  BY DEF Init, StepFits, Steps, PersistSteps
<1>3. Init => /\ pc \in [Threads -> Steps] /\ req \in [Threads -> Request \cup {None}]
              /\ target \in [Threads -> Ids \cup {None}]
              /\ json \in [Threads -> ItemSet \cup {None}]
              /\ file \in [Threads -> {"tmp", "index", "gone"}]
              /\ dir \in [Ids -> {"none", "partial", "ready"}]
  BY DEF Init, Steps
<1>4. Init => /\ items \in ItemSet /\ index \in ItemSet \cup {Torn}
              /\ tmp \in ItemSet \cup {Torn, None}
              /\ crashes \in 0 .. MaxCrashes
  BY <1>1, CrashesAssumption DEF Init
<1>5. QED
  BY <1>2, <1>3, <1>4 DEF Init, TypeOK

\* Every step keeps the types, and each thread's request fits its step
\* (publish, update, remove and persist).
LEMMA StepTypeOK ==
  ASSUME TypeOK, [Next]_vars
  PROVE  TypeOK'
<1> USE DEF TypeOK, Goto

<1>1. ASSUME NEW t \in Threads, Receive(t) PROVE TypeOK'
  <2>0. PICK r \in Request :
          /\ req' = [req EXCEPT ![t] = r]
          /\ target' = [target EXCEPT ![t] = IF r.op = "publish" THEN None ELSE r.id]
          /\ pc' = [pc EXCEPT ![t] = IF r.op = "publish" THEN "find" ELSE "change"]
          /\ UNCHANGED json
    BY <1>1, RequestsAssumption DEF Receive
  <2>a. r.op \in {"publish", "update", "remove"} /\ (r.op # "publish" => r.id \in Ids)
    BY DEF Request
  <2>1. ASSUME NEW u \in Threads PROVE StepFits(u)'
    BY <2>0, <2>a DEF StepFits, Steps, PersistSteps
  <2>2. QED
    BY <1>1, <2>1, RequestsAssumption DEF Receive, StepFits, Steps, PersistSteps, Request, Item

<1>2. ASSUME NEW t \in Threads, FindPublished(t) PROVE TypeOK'
  <2>1. \A u \in Threads : StepFits(u)'
    BY <1>2 DEF FindPublished, PublishedAs, StepFits, Steps, PersistSteps
  <2>2. QED
    BY <1>2, <2>1 DEF FindPublished, StepFits, Steps, PersistSteps, PublishedAs

<1>3. ASSUME NEW t \in Threads, DrawId(t) PROVE TypeOK'
  <2>1. \A u \in Threads : StepFits(u)'
    BY <1>3 DEF DrawId, StepFits, Steps, PersistSteps
  <2>2. QED
    BY <1>3, <2>1 DEF DrawId, StepFits, Steps, PersistSteps

<1>4. ASSUME NEW t \in Threads, Render(t) PROVE TypeOK'
  <2>1. \A u \in Threads : StepFits(u)'
    BY <1>4 DEF Render, StepFits, Steps, PersistSteps
  <2>2. QED
    BY <1>4, <2>1 DEF Render, StepFits, Steps, PersistSteps

<1>5. ASSUME NEW t \in Threads, RenderFails(t) PROVE TypeOK'
  <2>1. \A u \in Threads : StepFits(u)'
    BY <1>5 DEF RenderFails, Return, StepFits, Steps, PersistSteps
  <2>2. QED
    BY <1>5, <2>1 DEF RenderFails, Return, StepFits, Steps, PersistSteps

<1>6. ASSUME NEW t \in Threads, Push(t) PROVE TypeOK'
  <2>1. \A u \in Threads : StepFits(u)'
    BY <1>6 DEF Push, StepFits, Steps, PersistSteps, Request
  <2>2. QED
    BY <1>6, <2>1 DEF Push, StepFits, Steps, PersistSteps, Request, ItemSet, Item

<1>7. ASSUME NEW t \in Threads, NoSuchItem(t) PROVE TypeOK'
  <2>1. \A u \in Threads : StepFits(u)'
    BY <1>7 DEF NoSuchItem, Return, StepFits, Steps, PersistSteps
  <2>2. QED
    BY <1>7, <2>1 DEF NoSuchItem, Return, StepFits, Steps, PersistSteps

<1>8. ASSUME NEW t \in Threads, Update(t) PROVE TypeOK'
  <2>1. \A u \in Threads : StepFits(u)'
    BY <1>8 DEF Update, StepFits, Steps, PersistSteps, Request
  <2>2. QED
    BY <1>8, <2>1 DEF Update, StepFits, Steps, PersistSteps, Request, ItemSet, Item

<1>9. ASSUME NEW t \in Threads, Retain(t) PROVE TypeOK'
  <2>1. \A u \in Threads : StepFits(u)'
    BY <1>9 DEF Retain, StepFits, Steps, PersistSteps, Request
  <2>2. QED
    BY <1>9, <2>1 DEF Retain, StepFits, Steps, PersistSteps, Request, ItemSet, Item

<1>10. ASSUME NEW t \in Threads, RemoveDir(t) PROVE TypeOK'
  <2>1. \A u \in Threads : StepFits(u)'
    BY <1>10 DEF RemoveDir, Return, StepFits, Steps, PersistSteps
  <2>2. QED
    BY <1>10, <2>1 DEF RemoveDir, Return, StepFits, Steps, PersistSteps

<1>11. ASSUME NEW t \in Threads, OpenTmp(t) PROVE TypeOK'
  <2>1. \A u \in Threads : StepFits(u)'
    BY <1>11 DEF OpenTmp, StepFits, Steps, PersistSteps
  <2>2. QED
    BY <1>11, <2>1 DEF OpenTmp, StepFits, Steps, PersistSteps, ItemSet

<1>12. ASSUME NEW t \in Threads, WriteTmp(t) PROVE TypeOK'
  <2>1. \A u \in Threads : StepFits(u)'
    BY <1>12 DEF WriteTmp, StepFits, Steps, PersistSteps, Written
  <2>2. QED
    BY <1>12, <2>1 DEF WriteTmp, StepFits, Steps, PersistSteps, ItemSet, Written

<1>13. ASSUME NEW t \in Threads, WriteFails(t) PROVE TypeOK'
  <2>1. \A u \in Threads : StepFits(u)'
    BY <1>13 DEF WriteFails, Return, StepFits, Steps, PersistSteps
  <2>2. QED
    BY <1>13, <2>1 DEF WriteFails, Return, StepFits, Steps, PersistSteps

<1>14. ASSUME NEW t \in Threads, RenameTmp(t) PROVE TypeOK'
  <2>1. \A u \in Threads : StepFits(u)'
    BY <1>14 DEF RenameTmp, StepFits, Steps, PersistSteps
  <2>2. QED
    BY <1>14, <2>1 DEF RenameTmp, Steps, PersistSteps

<1>15. ASSUME NEW t \in Threads, RenameFails(t) PROVE TypeOK'
  <2>1. \A u \in Threads : StepFits(u)'
    BY <1>15 DEF RenameFails, Return, StepFits, Steps, PersistSteps
  <2>2. QED
    BY <1>15, <2>1 DEF RenameFails, Return, StepFits, Steps, PersistSteps

<1>16. CASE CrashRestart
  BY <1>16, CrashesAssumption, DistinctAssumption DEF CrashRestart, StepFits, Steps, PersistSteps, NoItems, ItemSet
<1>17. CASE UNCHANGED vars
  BY <1>17 DEF vars, StepFits
<1>18. QED
  BY <1>1, <1>2, <1>3, <1>4, <1>5, <1>6, <1>7, <1>8, <1>9, <1>10, <1>11, <1>12, <1>13, <1>14, <1>15, <1>16, <1>17 DEF Next, ThreadStep
\* An empty published set satisfies SetInv.
LEMMA InitSetInv == Init => SetInv
  BY InitTypeOK
  DEF Init, SetInv, PersistInv, PendingInv, Pending, RemovingInv, Removing, DrawnInv, Off, NoItems,
      IndexedHasDerivatives, RemovedStaysRemoved, PersistSteps

\* A request that arrives changes nothing.
LEMMA ReceiveSafe ==
  ASSUME SetInv, TypeOK', NEW t \in Threads, Receive(t)
  PROVE  SetInv'
<1> USE DEF SetInv, TypeOK, Receive, Goto, PersistSteps

<1>1. PersistInv'
  BY DEF PersistInv, Unlocked
<1>2. PendingInv'
  BY DEF PendingInv, Pending, Off, DrawnInv, RemovedStaysRemoved
<1>3. RemovingInv'
  BY DEF RemovingInv, Removing, PendingInv, Pending, Off
<1>4. DrawnInv'
  BY DEF DrawnInv, Off
<1>5. IndexedHasDerivatives'
  BY DEF IndexedHasDerivatives, RemovedStaysRemoved, Off
<1>6. RemovedStaysRemoved'
  BY DEF RemovedStaysRemoved, Off
<1>7. QED
  BY <1>1, <1>2, <1>3, <1>4, <1>5, <1>6

\* An item found by its hash is not one a thread has still to push.
LEMMA FindPublishedSafe ==
  ASSUME SetInv, TypeOK', NEW t \in Threads, FindPublished(t)
  PROVE  SetInv'
<1> USE DEF SetInv, TypeOK, FindPublished, Goto, PersistSteps

<1>1. PersistInv'
  BY DEF PersistInv, Unlocked
<1>2. PendingInv'
  BY DEF PendingInv, Pending, Off, DrawnInv, RemovedStaysRemoved
<1>3. RemovingInv'
  BY DEF RemovingInv, Removing, PendingInv, Pending, Off
<1>4. DrawnInv'
  BY DEF DrawnInv, Off
<1>5. IndexedHasDerivatives'
  BY DEF IndexedHasDerivatives, RemovedStaysRemoved, Off
<1>6. RemovedStaysRemoved'
  BY DEF RemovedStaysRemoved, Off
<1>7. QED
  BY <1>1, <1>2, <1>3, <1>4, <1>5, <1>6

\* A drawn id is nobody else's, in no index and never was removed.
LEMMA DrawIdSafe ==
  ASSUME SetInv, TypeOK', NEW t \in Threads, DrawId(t)
  PROVE  SetInv'
<1> USE DEF SetInv, TypeOK, DrawId, Goto, PersistSteps

<1>1. PersistInv'
  BY DEF PersistInv, Unlocked
<1>2. PendingInv'
  BY DEF PendingInv, Pending, Off, DrawnInv, RemovedStaysRemoved
<1>3. RemovingInv'
  BY DEF RemovingInv, Removing, PendingInv, Pending, Off, DrawnInv
<1>4. DrawnInv'
  BY DEF DrawnInv, Off
<1>5. IndexedHasDerivatives'
  BY DEF IndexedHasDerivatives, RemovedStaysRemoved, Off, PendingInv, Pending, DrawnInv
<1>6. RemovedStaysRemoved'
  BY DEF RemovedStaysRemoved, Off
<1>7. QED
  BY <1>1, <1>2, <1>3, <1>4, <1>5, <1>6

\* Rendering completes a directory that no index names yet.
LEMMA RenderSafe ==
  ASSUME SetInv, TypeOK', NEW t \in Threads, Render(t)
  PROVE  SetInv'
<1> USE DEF SetInv, TypeOK, Render, Goto, PersistSteps

<1>1. PersistInv'
  BY DEF PersistInv, Unlocked
<1>2. PendingInv'
  BY DEF PendingInv, Pending, Off, DrawnInv, RemovedStaysRemoved
<1>3. RemovingInv'
  BY DEF RemovingInv, Removing, PendingInv, Pending, Off
<1>4. DrawnInv'
  BY DEF DrawnInv, Off
<1>5. IndexedHasDerivatives'
  BY DEF IndexedHasDerivatives, RemovedStaysRemoved, Off, PendingInv, Pending, DrawnInv
<1>6. RemovedStaysRemoved'
  BY DEF RemovedStaysRemoved, Off
<1>7. QED
  BY <1>1, <1>2, <1>3, <1>4, <1>5, <1>6

\* A failed render touches only a directory that no index names.
LEMMA RenderFailsSafe ==
  ASSUME SetInv, TypeOK', NEW t \in Threads, RenderFails(t)
  PROVE  SetInv'
<1> USE DEF SetInv, TypeOK, RenderFails, Return, Goto, PersistSteps

<1>1. PersistInv'
  BY DEF PersistInv, Unlocked
<1>2. PendingInv'
  BY DEF PendingInv, Pending, Off, DrawnInv, RemovedStaysRemoved
<1>3. RemovingInv'
  BY DEF RemovingInv, Removing, PendingInv, Pending, Off
<1>4. DrawnInv'
  BY DEF DrawnInv, Off
<1>5. IndexedHasDerivatives'
  BY DEF IndexedHasDerivatives, RemovedStaysRemoved, Off, PendingInv, Pending, DrawnInv
<1>6. RemovedStaysRemoved'
  BY DEF RemovedStaysRemoved, Off
<1>7. QED
  BY <1>1, <1>2, <1>3, <1>4, <1>5, <1>6

\* The write lock keeps every persist out while an item is added.
LEMMA PushSafe ==
  ASSUME SetInv, TypeOK', NEW t \in Threads, Push(t)
  PROVE  SetInv'
<1> USE DEF SetInv, TypeOK, Push, Goto, PersistSteps

<1>1. PersistInv'
  BY DEF PersistInv, Unlocked
<1>2. PendingInv'
  BY DEF PendingInv, Pending, Off, DrawnInv, RemovedStaysRemoved
<1>3. RemovingInv'
  BY DEF RemovingInv, Removing, PendingInv, Pending, Off, StepFits, Steps
<1>4. DrawnInv'
  BY DEF DrawnInv, Off, PendingInv, Pending
<1>5. IndexedHasDerivatives'
  BY DEF IndexedHasDerivatives, RemovedStaysRemoved, Off, PendingInv, Pending, DrawnInv
<1>6. RemovedStaysRemoved'
  BY DEF RemovedStaysRemoved, Off, PendingInv, Pending
<1>7. QED
  BY <1>1, <1>2, <1>3, <1>4, <1>5, <1>6

\* A 404 changes nothing.
LEMMA NoSuchItemSafe ==
  ASSUME SetInv, TypeOK', NEW t \in Threads, NoSuchItem(t)
  PROVE  SetInv'
<1> USE DEF SetInv, TypeOK, NoSuchItem, Return, Goto, PersistSteps

<1>1. PersistInv'
  BY DEF PersistInv, Unlocked
<1>2. PendingInv'
  BY DEF PendingInv, Pending, Off, DrawnInv, RemovedStaysRemoved
<1>3. RemovingInv'
  BY DEF RemovingInv, Removing, PendingInv, Pending, Off
<1>4. DrawnInv'
  BY DEF DrawnInv, Off
<1>5. IndexedHasDerivatives'
  BY DEF IndexedHasDerivatives, RemovedStaysRemoved, Off
<1>6. RemovedStaysRemoved'
  BY DEF RemovedStaysRemoved, Off
<1>7. QED
  BY <1>1, <1>2, <1>3, <1>4, <1>5, <1>6

\* The write lock keeps every persist out while an item is edited.
LEMMA UpdateSafe ==
  ASSUME SetInv, TypeOK', NEW t \in Threads, Update(t)
  PROVE  SetInv'
<1> USE DEF SetInv, TypeOK, Update, Goto, PersistSteps

<1>1. PersistInv'
  BY DEF PersistInv, Unlocked
<1>2. PendingInv'
  BY DEF PendingInv, Pending, Off, DrawnInv, RemovedStaysRemoved
<1>3. RemovingInv'
  BY DEF RemovingInv, Removing, PendingInv, Pending, Off
<1>4. DrawnInv'
  BY DEF DrawnInv, Off
<1>5. IndexedHasDerivatives'
  BY DEF IndexedHasDerivatives, RemovedStaysRemoved, Off
<1>6. RemovedStaysRemoved'
  BY DEF RemovedStaysRemoved, Off
<1>7. QED
  BY <1>1, <1>2, <1>3, <1>4, <1>5, <1>6

\* Unpublish takes the item out while nobody is inside persist.
LEMMA RetainSafe ==
  ASSUME SetInv, TypeOK', NEW t \in Threads, Retain(t)
  PROVE  SetInv'
<1> USE DEF SetInv, TypeOK, Retain, Goto, PersistSteps

<1>1. PersistInv'
  BY DEF PersistInv, Unlocked
<1>2. PendingInv'
  BY DEF PendingInv, Pending, Off, DrawnInv, RemovedStaysRemoved
<1>3. RemovingInv'
  <2>1. target[t] \in Ids /\ target[t] \in drawn
    BY DEF StepFits, Steps, DrawnInv, Off
  <2>2. ASSUME NEW u \in Threads, Pending(u)' PROVE target[u] # target[t] /\ Pending(u)
    BY <2>2 DEF PendingInv, Pending, Off
  <2>3. ASSUME NEW u \in Threads, Removing(u)', u # t
        PROVE  /\ target[u] \in drawn /\ items'[target[u]] = None
               /\ pc[u] = "rmdir" => Off(target[u])'
               /\ \A w \in Threads : Pending(w)' => target[w] # target[u]
    BY <2>1, <2>2, <2>3 DEF RemovingInv, Removing, Off, StepFits, Steps
  <2>4. pc'[t] = "persist" /\ items'[target[t]] = None
    BY <2>1 DEF ItemSet
  <2>5. UNCHANGED <<target, drawn>>
    OBVIOUS
  <2>6. QED
    BY <2>1, <2>2, <2>3, <2>4, <2>5 DEF RemovingInv
<1>4. DrawnInv'
  BY DEF DrawnInv, Off
<1>5. IndexedHasDerivatives'
  BY DEF IndexedHasDerivatives, RemovedStaysRemoved, Off
<1>6. RemovedStaysRemoved'
  BY DEF RemovedStaysRemoved, Off
<1>7. QED
  BY <1>1, <1>2, <1>3, <1>4, <1>5, <1>6

\* The directory goes only once no index names it.
LEMMA RemoveDirSafe ==
  ASSUME SetInv, TypeOK', NEW t \in Threads, RemoveDir(t)
  PROVE  SetInv'
<1> USE DEF SetInv, TypeOK, RemoveDir, Return, Goto, PersistSteps

<1>1. PersistInv'
  BY DEF PersistInv, Unlocked, StepFits, Steps
<1>2. PendingInv'
  BY DEF PendingInv, Pending, Off, DrawnInv, RemovedStaysRemoved, RemovingInv, Removing, StepFits, Steps
<1>3. RemovingInv'
  BY DEF RemovingInv, Removing, PendingInv, Pending, Off, StepFits, Steps
<1>4. DrawnInv'
  BY DEF DrawnInv, Off, RemovingInv, Removing, StepFits, Steps
<1>5. IndexedHasDerivatives'
  BY DEF IndexedHasDerivatives, RemovedStaysRemoved, Off, RemovingInv, Removing, StepFits, Steps
<1>6. RemovedStaysRemoved'
  BY DEF RemovedStaysRemoved, Off, RemovingInv, Removing, StepFits, Steps
<1>7. QED
  BY <1>1, <1>2, <1>3, <1>4, <1>5, <1>6

\* What a thread serializes is the set as it is.
LEMMA OpenTmpSafe ==
  ASSUME SetInv, TypeOK', NEW t \in Threads, OpenTmp(t)
  PROVE  SetInv'
<1> USE DEF SetInv, TypeOK, OpenTmp, Goto, PersistSteps

<1>1. PersistInv'
  BY DEF PersistInv, Unlocked
<1>2. PendingInv'
  BY DEF PendingInv, Pending, Off, DrawnInv, RemovedStaysRemoved
<1>3. RemovingInv'
  BY DEF RemovingInv, Removing, PendingInv, Pending, Off
<1>4. DrawnInv'
  BY DEF DrawnInv, Off
<1>5. IndexedHasDerivatives'
  BY DEF IndexedHasDerivatives, RemovedStaysRemoved, Off
<1>6. RemovedStaysRemoved'
  BY DEF RemovedStaysRemoved, Off
<1>7. QED
  BY <1>1, <1>2, <1>3, <1>4, <1>5, <1>6

\* A thread writes only the set as it is, to whichever file it has open.
LEMMA WriteTmpSafe ==
  ASSUME SetInv, TypeOK', NEW t \in Threads, WriteTmp(t)
  PROVE  SetInv'
<1> USE DEF SetInv, TypeOK, WriteTmp, Goto, PersistSteps

<1>1. PersistInv'
  BY DEF PersistInv, Unlocked, Written
<1>2. PendingInv'
  BY DEF PendingInv, Pending, Off, DrawnInv, RemovedStaysRemoved, Written, PersistInv
<1>3. RemovingInv'
  BY DEF RemovingInv, Removing, PendingInv, Pending, Off, Written, PersistInv
<1>4. DrawnInv'
  BY DEF DrawnInv, Off, Written, PersistInv
<1>5. IndexedHasDerivatives'
  BY DEF IndexedHasDerivatives, RemovedStaysRemoved, Off, Written, PersistInv
<1>6. RemovedStaysRemoved'
  BY DEF RemovedStaysRemoved, Off, Written, PersistInv
<1>7. QED
  BY <1>1, <1>2, <1>3, <1>4, <1>5, <1>6

\* A failed write leaves a torn file at worst.
LEMMA WriteFailsSafe ==
  ASSUME SetInv, TypeOK', NEW t \in Threads, WriteFails(t)
  PROVE  SetInv'
<1> USE DEF SetInv, TypeOK, WriteFails, Return, Goto, PersistSteps

<1>1. PersistInv'
  BY DEF PersistInv, Unlocked
<1>2. PendingInv'
  BY DEF PendingInv, Pending, Off, DrawnInv, RemovedStaysRemoved
<1>3. RemovingInv'
  BY DEF RemovingInv, Removing, PendingInv, Pending, Off
<1>4. DrawnInv'
  BY DEF DrawnInv, Off
<1>5. IndexedHasDerivatives'
  BY DEF IndexedHasDerivatives, RemovedStaysRemoved, Off
<1>6. RemovedStaysRemoved'
  BY DEF RemovedStaysRemoved, Off
<1>7. QED
  BY <1>1, <1>2, <1>3, <1>4, <1>5, <1>6

\* The file that becomes index.json is torn or holds the set as it is.
LEMMA RenameTmpSafe ==
  ASSUME SetInv, TypeOK', NEW t \in Threads, RenameTmp(t)
  PROVE  SetInv'
<1> USE DEF SetInv, TypeOK, RenameTmp, Goto, PersistSteps

<1>1. PersistInv'
  BY DEF PersistInv, Unlocked
<1>2. PendingInv'
  BY DEF PendingInv, Pending, Off, DrawnInv, RemovedStaysRemoved, PersistInv
<1>3. RemovingInv'
  BY DEF RemovingInv, Removing, PendingInv, Pending, Off, PersistInv
<1>4. DrawnInv'
  BY DEF DrawnInv, Off, PersistInv
<1>5. IndexedHasDerivatives'
  BY DEF IndexedHasDerivatives, RemovedStaysRemoved, Off, PersistInv
<1>6. RemovedStaysRemoved'
  BY DEF RemovedStaysRemoved, Off, PersistInv
<1>7. QED
  BY <1>1, <1>2, <1>3, <1>4, <1>5, <1>6

\* A thread whose rename fails changes no file.
LEMMA RenameFailsSafe ==
  ASSUME SetInv, TypeOK', NEW t \in Threads, RenameFails(t)
  PROVE  SetInv'
<1> USE DEF SetInv, TypeOK, RenameFails, Return, Goto, PersistSteps

<1>1. PersistInv'
  BY DEF PersistInv, Unlocked
<1>2. PendingInv'
  BY DEF PendingInv, Pending, Off, DrawnInv, RemovedStaysRemoved
<1>3. RemovingInv'
  BY DEF RemovingInv, Removing, PendingInv, Pending, Off
<1>4. DrawnInv'
  BY DEF DrawnInv, Off
<1>5. IndexedHasDerivatives'
  BY DEF IndexedHasDerivatives, RemovedStaysRemoved, Off
<1>6. RemovedStaysRemoved'
  BY DEF RemovedStaysRemoved, Off
<1>7. QED
  BY <1>1, <1>2, <1>3, <1>4, <1>5, <1>6

\* open reads back an index whose items have their derivatives.
LEMMA CrashSafe ==
  ASSUME SetInv, TypeOK', CrashRestart
  PROVE  SetInv'
  BY DEF SetInv, TypeOK, CrashRestart, PersistInv, PendingInv, Pending, RemovingInv, Removing,
         DrawnInv, Off, NoItems, ItemSet, IndexedHasDerivatives, RemovedStaysRemoved, PersistSteps

\* Nothing changes.
LEMMA StutterSafe ==
  ASSUME SetInv, UNCHANGED vars
  PROVE  SetInv'
  BY DEF vars, SetInv, TypeOK, StepFits, PersistInv, PendingInv, Pending, RemovingInv, Removing,
         DrawnInv, Off, IndexedHasDerivatives, RemovedStaysRemoved

\* Every step keeps SetInv.
LEMMA StepSetInv == ASSUME SetInv, [Next]_vars PROVE SetInv'
<1>1. TypeOK'
  BY StepTypeOK DEF SetInv
<1>2. ASSUME NEW t \in Threads, Receive(t) \/ ThreadStep(t)
      PROVE  SetInv'
  BY <1>1, <1>2, ReceiveSafe, FindPublishedSafe, DrawIdSafe, RenderSafe, RenderFailsSafe, PushSafe, NoSuchItemSafe, UpdateSafe, RetainSafe, RemoveDirSafe, OpenTmpSafe, WriteTmpSafe, WriteFailsSafe, RenameTmpSafe, RenameFailsSafe
  DEF ThreadStep
<1>3. QED
  BY <1>1, <1>2, CrashSafe, StutterSafe DEF Next

(***************************************************************************)
(* The file on disk.                                                       *)
(***************************************************************************)
Quiet == \A t \in Threads : pc[t] \notin PersistSteps \cup {"persist"}

\* Whatever neither enters nor leaves persist, and changes neither the set nor
\* its files, keeps what is known of them.
LEMMA ElsewhereKeeps ==
  ASSUME DiskInv, UNCHANGED <<items, index, tmp, unsaved>>,
         \A t \in Threads : (pc'[t] = pc[t] /\ file'[t] = file[t])
                            \/ {pc[t], pc'[t]} \cap (PersistSteps \cup {"persist"}) = {}
  PROVE  DiskInv'
<1>1. \A t \in Threads : pc'[t] \in PersistSteps <=> pc[t] \in PersistSteps
  OBVIOUS
<1>2. \A t \in Threads : pc[t] \in PersistSteps => file'[t] = file[t]
  OBVIOUS
<1>3. Unlocked' <=> Unlocked
  BY <1>1 DEF Unlocked
<1>4. Quiet' <=> Quiet
  BY DEF Quiet
<1>5. \A name : Rewriting(name)' <=> Rewriting(name)
  BY DEF Rewriting, PersistSteps
<1>6. QuietDiskIsCurrent => QuietDiskIsCurrent'
  BY <1>4 DEF QuietDiskIsCurrent, Quiet
<1>7. \A t \in Threads : pc'[t] \in PersistSteps =>
        IF file'[t] = "tmp" THEN tmp' # None ELSE index' \in {items', Torn}
  BY <1>1, <1>2 DEF DiskInv
<1>. QED
  BY <1>3, <1>5, <1>6, <1>7 DEF DiskInv

\* Push, Update and Retain change the set while nobody is inside persist, and
\* leave a thread that will write it.
LEMMA ChangeKeepsDisk ==
  ASSUME SetInv, DiskInv, NEW t \in Threads, Push(t) \/ Update(t) \/ Retain(t)
  PROVE  DiskInv'
<1>1. /\ Unlocked /\ Goto(t, "persist") /\ pc[t] \in {"push", "change"}
      /\ UNCHANGED <<index, tmp, file, unsaved>>
  BY DEF Push, Update, Retain
<1>2. pc'[t] = "persist" /\ \A u \in Threads : pc'[u] \notin PersistSteps
  BY <1>1 DEF Unlocked, Goto, SetInv, TypeOK, PersistSteps
<1>3. Unlocked' /\ ~Quiet'
  BY <1>2 DEF Unlocked, Quiet
<1>4. ~unsaved => index # Torn
  BY <1>1 DEF DiskInv, Rewriting, Unlocked, PersistSteps
<1>. QED
  BY <1>1, <1>2, <1>3, <1>4 DEF DiskInv, QuietDiskIsCurrent, Quiet

\* The thread that opens the temp file last is the one that completes it.
LEMMA OpenKeepsDisk ==
  ASSUME SetInv, DiskInv, NEW t \in Threads, OpenTmp(t)
  PROVE  DiskInv'
<1>1. /\ pc[t] = "persist" /\ pc'[t] = "writing" /\ file'[t] = "tmp" /\ tmp' = Torn
      /\ UNCHANGED <<items, index, unsaved>>
      /\ \A u \in Threads \ {t} :
           /\ file'[u] = file[u]
           /\ pc'[u] \in PersistSteps <=> pc[u] \in PersistSteps
           /\ file[u] # "tmp" => pc'[u] = pc[u]
  BY DEF OpenTmp, SetInv, TypeOK, PersistSteps
<1>2. Rewriting("tmp")' /\ ~Quiet'
  BY <1>1 DEF Rewriting, Quiet, PersistSteps
<1>3. Rewriting("index") => Rewriting("index")'
  BY <1>1 DEF Rewriting
<1>4. \A u \in Threads : pc'[u] \in PersistSteps =>
        IF file'[u] = "tmp" THEN tmp' # None ELSE index' \in {items', Torn}
  BY <1>1, DistinctAssumption DEF DiskInv
<1>. QED
  BY <1>1, <1>2, <1>3, <1>4 DEF DiskInv, QuietDiskIsCurrent, Quiet

\* A thread that was not overtaken makes its file whole; one that was cannot
\* spoil a file that is whole, both writing the same bytes.
LEMMA WriteKeepsDisk ==
  ASSUME SetInv, DiskInv, NEW t \in Threads, WriteTmp(t)
  PROVE  DiskInv'
<1>1. /\ pc[t] \in {"writing", "overtaken"} /\ pc'[t] = "rename"
      /\ \A u \in Threads \ {t} : pc'[u] = pc[u]
      /\ UNCHANGED <<items, file, unsaved>>
      /\ file[t] # "tmp" => tmp' = tmp
      /\ file[t] # "index" => index' = index
  BY DEF WriteTmp, Goto, SetInv, TypeOK
<1>2. /\ json[t] = items /\ tmp \in {None, Torn, items} /\ items \in ItemSet
      /\ file[t] = "index" => index \in {Torn, items}
  BY <1>1 DEF SetInv, TypeOK, PersistInv, PersistSteps
<1>3. items # None /\ items # Torn
  BY <1>2, DistinctAssumption
<1>4. file[t] = "tmp" => /\ tmp' \in {items, Torn}
                         /\ tmp' = Torn => tmp = Torn /\ pc[t] = "overtaken"
  <2>1. file[t] = "tmp" => tmp \in {Torn, items} /\ tmp' \in Written(t, tmp)
    BY <1>1, <1>2 DEF DiskInv, PersistSteps, WriteTmp
  <2>. QED
    BY <1>1, <1>2, <1>3, <2>1 DEF Written
<1>5. file[t] = "index" => /\ index' \in {items, Torn}
                           /\ index' = Torn => index = Torn /\ pc[t] = "overtaken"
  <2>1. file[t] = "index" => index' \in Written(t, index)
    BY DEF WriteTmp
  <2>. QED
    BY <1>1, <1>2, <1>3, <2>1 DEF Written
<1>6. \A u \in Threads : pc'[u] \in PersistSteps =>
        IF file'[u] = "tmp" THEN tmp' # None ELSE index' \in {items', Torn}
  <2>1. \A u \in Threads : pc'[u] \in PersistSteps => pc[u] \in PersistSteps
    BY <1>1 DEF PersistSteps
  <2>2. tmp # None => tmp' # None
    BY <1>1, <1>3, <1>4, DistinctAssumption
  <2>3. index \in {items, Torn} => index' \in {items, Torn}
    BY <1>1, <1>5
  <2>. QED
    BY <1>1, <2>1, <2>2, <2>3 DEF DiskInv
<1>7. ~unsaved /\ tmp' = Torn => Rewriting("tmp")'
  <2>1. ~unsaved /\ tmp' = Torn => tmp = Torn /\ (file[t] = "tmp" => pc[t] = "overtaken")
    BY <1>1, <1>4
  <2>2. ~Unlocked
    BY <1>1 DEF Unlocked, PersistSteps
  <2>3. ~unsaved /\ tmp' = Torn => \E u \in Threads : pc[u] = "writing" /\ file[u] = "tmp"
    BY <2>1, <2>2 DEF DiskInv, Rewriting
  <2>. QED
    BY <1>1, <2>1, <2>3 DEF Rewriting
<1>8. ~unsaved /\ index' = Torn => Rewriting("index")'
  <2>1. ~unsaved /\ index' = Torn => index = Torn /\ (file[t] = "index" => pc[t] = "overtaken")
    BY <1>1, <1>5
  <2>2. ~unsaved /\ index' = Torn => \E u \in Threads : pc[u] = "writing" /\ file[u] = "index"
    BY <2>1 DEF DiskInv, Rewriting
  <2>. QED
    BY <1>1, <2>1, <2>2 DEF Rewriting
<1>9. ~Quiet'
  BY <1>1 DEF Quiet, PersistSteps
<1>. QED
  BY <1>1, <1>6, <1>7, <1>8, <1>9 DEF DiskInv, QuietDiskIsCurrent, Quiet

\* The file that becomes the index is current, or its writer comes with it.
LEMMA RenameKeepsDisk ==
  ASSUME SetInv, DiskInv, NEW t \in Threads, RenameTmp(t)
  PROVE  DiskInv'
<1>1. /\ pc[t] = "rename" /\ tmp # None /\ index' = tmp /\ tmp' = None
      /\ UNCHANGED <<items, unsaved>>
      /\ pc'[t] \in {"rmdir", "idle"}
      /\ \A u \in Threads \ {t} :
           /\ pc'[u] = pc[u]
           /\ file'[u] = IF file[u] = "tmp" THEN "index" ELSE "gone"
      /\ file'[t] = "gone"
  BY DEF RenameTmp, Goto, SetInv, TypeOK
<1>2. tmp \in {Torn, items} /\ items \in ItemSet
  BY <1>1 DEF SetInv, TypeOK, PersistInv, PersistSteps
<1>3. \A u \in Threads : file'[u] # "tmp"
  BY <1>1
<1>4. ~unsaved /\ index' = Torn => \E u \in Threads : pc[u] = "writing" /\ file[u] = "tmp"
  BY <1>1 DEF DiskInv, Unlocked, Rewriting, PersistSteps
<1>5. ~unsaved /\ index' = Torn => Rewriting("index")'
  BY <1>1, <1>4 DEF Rewriting
<1>6. Rewriting("index")' => ~Quiet'
  BY DEF Rewriting, Quiet, PersistSteps
<1>. QED
  BY <1>1, <1>2, <1>3, <1>5, <1>6, DistinctAssumption DEF DiskInv, QuietDiskIsCurrent, Quiet

\* A thread that lost its temp file leaves an index that another has made
\* current, or is rewriting; one the system let down is remembered.
LEMMA RenameFailsKeepsDisk ==
  ASSUME SetInv, DiskInv, NEW t \in Threads, RenameFails(t)
  PROVE  DiskInv'
<1>1. /\ pc[t] = "rename" /\ pc'[t] = "idle"
      /\ UNCHANGED <<items, index, tmp>>
      /\ (tmp = None /\ unsaved' = unsaved) \/ unsaved'
      /\ \A u \in Threads \ {t} : pc'[u] = pc[u] /\ file'[u] = file[u]
  BY DEF RenameFails, Return, Goto, SetInv, TypeOK
<1>2. tmp = None => index \in {items, Torn}
  BY <1>1 DEF DiskInv, PersistSteps
<1>3. Rewriting("index") => Rewriting("index")' /\ ~Quiet'
  BY <1>1 DEF Rewriting, Quiet, PersistSteps
<1>4. \A u \in Threads : pc'[u] \in PersistSteps =>
        IF file'[u] = "tmp" THEN tmp' # None ELSE index' \in {items', Torn}
  BY <1>1 DEF DiskInv, PersistSteps
<1>. QED
  BY <1>1, <1>2, <1>3, <1>4, DistinctAssumption DEF DiskInv, QuietDiskIsCurrent, Quiet

\* A write that fails is remembered.
LEMMA WriteFailsKeepsDisk ==
  ASSUME SetInv, DiskInv, NEW t \in Threads, WriteFails(t)
  PROVE  DiskInv'
<1>1. /\ unsaved' /\ pc'[t] = "idle" /\ UNCHANGED <<items, index, tmp>>
      /\ \A u \in Threads \ {t} : pc'[u] = pc[u] /\ file'[u] = file[u]
  BY DEF WriteFails, Return, Goto, SetInv, TypeOK
<1>. QED
  BY <1>1 DEF DiskInv, PersistSteps

\* A restart serves what it found on disk, or found it torn.
LEMMA CrashKeepsDisk == ASSUME CrashRestart PROVE DiskInv'
<1>1. \A t \in Threads : pc'[t] = "idle"
  BY DEF CrashRestart
<1>2. Unlocked' /\ (~unsaved' => index' # Torn /\ index' = items')
  BY <1>1 DEF CrashRestart, Unlocked, PersistSteps
<1>. QED
  BY <1>1, <1>2 DEF DiskInv, QuietDiskIsCurrent, PersistSteps

\* Every step keeps the inductive invariant.
LEMMA StepPublishInv == PublishInv /\ [Next]_vars => PublishInv'
<1> SUFFICES ASSUME SetInv, DiskInv, [Next]_vars PROVE DiskInv'
  BY StepSetInv DEF PublishInv
<1>1. ASSUME NEW t \in Threads,
             \/ Receive(t) \/ FindPublished(t) \/ DrawId(t) \/ Render(t) \/ RenderFails(t)
             \/ NoSuchItem(t) \/ RemoveDir(t)
      PROVE  DiskInv'
  <2>1. /\ UNCHANGED <<items, index, tmp, unsaved>>
        /\ {pc[t], pc'[t]} \cap (PersistSteps \cup {"persist"}) = {}
        /\ \A u \in Threads \ {t} : pc'[u] = pc[u] /\ file'[u] = file[u]
    BY <1>1 DEF Receive, FindPublished, DrawId, Render, RenderFails, NoSuchItem, RemoveDir,
                Return, Goto, SetInv, TypeOK, PersistSteps
  <2>. QED
    BY <2>1, ElsewhereKeeps
<1>2. ASSUME NEW t \in Threads, ThreadStep(t) PROVE DiskInv'
  BY <1>1, <1>2, ChangeKeepsDisk, OpenKeepsDisk, WriteKeepsDisk, WriteFailsKeepsDisk,
     RenameKeepsDisk, RenameFailsKeepsDisk
  DEF ThreadStep
<1>3. CASE UNCHANGED vars
  BY <1>3, ElsewhereKeeps DEF vars
<1>. QED
  BY <1>1, <1>2, <1>3, CrashKeepsDisk DEF Next

\* The initial state.
LEMMA InitPublishInv == Init => PublishInv
<1>1. Init => DiskInv
  <2>1. NoItems \in ItemSet
    BY DEF NoItems, ItemSet
  <2>. QED
    BY <2>1, DistinctAssumption DEF Init, DiskInv, Unlocked, QuietDiskIsCurrent, PersistSteps
<1>. QED
  BY <1>1, InitSetInv DEF PublishInv

\* The inductive invariant.
THEOREM InductiveInvariant == Spec => []PublishInv
<1>1. QED
  BY InitPublishInv, StepPublishInv, PTL DEF Spec

\* Whatever is published, in memory or on disk, has its derivatives.
THEOREM PublishedHaveDerivatives == Spec => []IndexedHasDerivatives
<1>1. PublishInv => IndexedHasDerivatives
  BY DEF PublishInv, SetInv
<1>2. QED
  BY <1>1, InductiveInvariant, PTL

\* What an unpublish removed and answered 204 for never comes back.
THEOREM UnpublishIsFinal == Spec => []RemovedStaysRemoved
<1>1. PublishInv => RemovedStaysRemoved
  BY DEF PublishInv, SetInv
<1>2. QED
  BY <1>1, InductiveInvariant, PTL

\* However many threads overwrite each other's temp file, when the last has left
\* persist and no write has failed index.json holds what is served
\* (publish.rs, persist).
THEOREM DiskIsCurrent == Spec => []QuietDiskIsCurrent
<1>1. PublishInv => QuietDiskIsCurrent
  BY DEF PublishInv, DiskInv, QuietDiskIsCurrent
<1>2. QED
  BY <1>1, InductiveInvariant, PTL
=============================================================================
