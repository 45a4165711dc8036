--------------------------- MODULE GalleryProofs ---------------------------
(***************************************************************************)
(* The gallery, for every library, page size and number of clicks and      *)
(* reloads: its toggles and the map they are drawn from, the walk through  *)
(* the pages, the spinners, and the map beside the media site.             *)
(*                                                                         *)
(* TogglesFollowMap is not inductive: the list of a reload replaces the    *)
(* map and touches no toggle.  It does no harm because, as long as a list  *)
(* is under way and no tile was drawn early, there are no toggles.         *)
(***************************************************************************)
EXTENDS Gallery, SequenceTheorems, FiniteSetTheorems, TLAPS

ToggleTypeOK ==
  /\ media \in [Ids -> Contents \cup {None}]
  /\ lists \in Seq(ListRequest \cup {None}) /\ published \in Map
  /\ toggle \in [Assets -> BOOLEAN \cup {None}]
  /\ calls \in Seq(Call \cup {None}) /\ Len(calls) <= MaxClicks

NoTileWhileListed ==
  "early" \notin raced /\ Listed # {} => \A a \in Assets : toggle[a] = None

GalleryInv == ToggleTypeOK /\ NoTileWhileListed /\ TogglesFollowMap

\* A sequence whose elements are replaced in place stays one, and as long.
LEMMA ReplacedInPlace ==
  ASSUME NEW S, NEW s \in Seq(S), NEW t, t = [i \in DOMAIN s |-> t[i]],
         \A i \in DOMAIN s : t[i] \in S
  PROVE  t \in Seq(S) /\ Len(t) = Len(s)
<1>1. DOMAIN s = 1 .. Len(s) /\ Len(s) \in Nat
  OBVIOUS
<1>2. t \in [1 .. Len(s) -> S]
  BY <1>1
<1>3. t \in Seq(S)
  BY <1>1, <1>2, SeqDef
<1>. QED
  BY <1>1, <1>2, <1>3

\* The answer to a click records a public id or its absence, for the content
\* of the clicked asset alone.
LEMMA OutcomeTouchesOne ==
  ASSUME ToggleTypeOK, NEW n \in Open
  PROVE  /\ Outcome(n) \in Map
         /\ \A c \in Contents : c # ContentOn(n) => Outcome(n)[c] = published[c]
<1>1. calls[n] \in Call
  BY DEF ToggleTypeOK, Open
<1>2. ContentOn(n) \in Contents
  BY <1>1 DEF ContentOn, Contents, Call
<1>3. calls[n].id \in Ids \cup {None}
  BY <1>1 DEF Call
<1>. QED
  BY <1>2, <1>3 DEF Outcome, ToggleTypeOK, Map

\* The initial state: no toggles.
LEMMA InitInv == Init => GalleryInv
<1>. SUFFICES ASSUME Init PROVE GalleryInv
  OBVIOUS
<1>1. ToggleTypeOK
  BY BoundsAssumption DEF Init, ToggleTypeOK, Map, NothingUp, Ids
<1>2. NoTileWhileListed /\ TogglesFollowMap
  BY DEF Init, NoTileWhileListed, TogglesFollowMap
<1>. QED
  BY <1>1, <1>2 DEF GalleryInv

\* Whatever leaves the toggles, the map and the lists alone keeps what they say.
LEMMA UntouchedKeeps ==
  ASSUME GalleryInv, ToggleTypeOK', UNCHANGED <<lists, published, toggle>>, raced \subseteq raced'
  PROVE  GalleryInv'
BY DEF GalleryInv, NoTileWhileListed, TogglesFollowMap, Listed

\* A reload leaves no toggles.
LEMMA ReloadSafe == ASSUME GalleryInv, Reload PROVE GalleryInv'
<1>1. [stage |-> "asked", got |-> NothingUp] \in ListRequest
  BY DEF ListRequest, Map, NothingUp
<1>2. lists' \in Seq(ListRequest \cup {None})
  BY <1>1 DEF Reload, GalleryInv, ToggleTypeOK
<1>3. calls' \in Seq(Call \cup {None}) /\ Len(calls') = Len(calls)
  <2>1. \A r \in Call : [r EXCEPT !.own = FALSE] \in Call
    BY DEF Call
  <2>2. \A i \in DOMAIN calls : calls'[i] \in Call \cup {None}
    BY <2>1 DEF Reload, GalleryInv, ToggleTypeOK
  <2>3. calls' = [i \in DOMAIN calls |-> calls'[i]]
    BY DEF Reload
  <2>. QED
    BY <2>2, <2>3, ReplacedInPlace DEF GalleryInv, ToggleTypeOK
<1>4. ToggleTypeOK'
  BY <1>2, <1>3 DEF Reload, GalleryInv, ToggleTypeOK, server
<1>. QED
  BY <1>4 DEF Reload, GalleryInv, NoTileWhileListed, TogglesFollowMap

\* A page draws its toggles from the map, or is an early one.
LEMMA PageArrivesSafe == ASSUME GalleryInv, PageArrives PROVE GalleryInv'
<1>1. ToggleTypeOK'
  BY DEF PageArrives, Drawn, GalleryInv, ToggleTypeOK, server
<1>2. CASE Listed = {}
  BY <1>1, <1>2 DEF PageArrives, Drawn, GalleryInv, ToggleTypeOK, NoTileWhileListed, TogglesFollowMap, Listed
<1>3. CASE Listed # {} /\ toggle' = toggle
  BY <1>1, <1>3, UntouchedKeeps DEF PageArrives
<1>4. CASE Listed # {} /\ toggle' # toggle
  BY <1>1, <1>4 DEF PageArrives, GalleryInv, NoTileWhileListed, TogglesFollowMap
<1>. QED
  BY <1>2, <1>3, <1>4

\* A list replaces the map while there are no toggles.
LEMMA ListEndsSafe ==
  ASSUME GalleryInv, NEW n \in Listed, NEW map \in Map, NEW past, ListEnds(n, map, past),
         raced \subseteq past \/ \A a \in Assets : toggle[a] = None
  PROVE  GalleryInv'
<1>1. lists' \in Seq(ListRequest \cup {None})
  BY ExceptSeq DEF ListEnds, GalleryInv, ToggleTypeOK, Listed
<1>2. ToggleTypeOK'
  BY <1>1 DEF ListEnds, GalleryInv, ToggleTypeOK, server, tiles
<1>3. "early" \notin raced' => \A a \in Assets : toggle'[a] = None
  BY DEF ListEnds, GalleryInv, NoTileWhileListed, tiles
<1>. QED
  BY <1>2, <1>3 DEF GalleryInv, NoTileWhileListed, TogglesFollowMap

\* The server's answer to a list.
LEMMA ServeListSafe == ASSUME GalleryInv, NEW n \in Listed, ServeList(n) PROVE GalleryInv'
<1>1. PICK f \in MapsOf(media) : lists' = [lists EXCEPT ![n] = [stage |-> "answered", got |-> f]]
  BY DEF ServeList
<1>2. [stage |-> "answered", got |-> f] \in ListRequest
  BY DEF MapsOf, ListRequest, Map
<1>3. lists' \in Seq(ListRequest \cup {None})
  BY <1>1, <1>2, ExceptSeq DEF GalleryInv, ToggleTypeOK, Listed
<1>4. ToggleTypeOK'
  BY <1>3 DEF ServeList, GalleryInv, ToggleTypeOK, server, tiles
<1>. QED
  BY <1>4 DEF ServeList, GalleryInv, NoTileWhileListed, TogglesFollowMap, tiles

\* All toggles of the photograph move with the map.
LEMMA AnsweredSafe == ASSUME GalleryInv, NEW n \in Open, Answered(n) PROVE GalleryInv'
<1>1. calls' \in Seq(Call \cup {None}) /\ Len(calls') = Len(calls)
  BY ExceptSeq DEF Answered, GalleryInv, ToggleTypeOK, Open
<1>2. published' \in Map
  BY OutcomeTouchesOne DEF Answered, GalleryInv
<1>3. toggle' = [a \in Assets |->
                   IF toggle[a] # None /\ ContentOf[a] = ContentOn(n)
                   THEN published'[ContentOf[a]] # None ELSE toggle[a]]
  BY DEF Answered, Synced
<1>4. ToggleTypeOK'
  BY <1>1, <1>2, <1>3 DEF Answered, GalleryInv, ToggleTypeOK, server
<1>5. NoTileWhileListed'
  BY <1>3 DEF Answered, GalleryInv, NoTileWhileListed, Listed
<1>6. TogglesFollowMap'
  <2>1. \A a \in Assets : ContentOf[a] # ContentOn(n) =>
                             published'[ContentOf[a]] = published[ContentOf[a]]
    BY OutcomeTouchesOne DEF Answered, GalleryInv, Contents
  <2>. QED
    BY <1>3, <2>1 DEF Answered, GalleryInv, TogglesFollowMap
<1>. QED
  BY <1>4, <1>5, <1>6 DEF GalleryInv

\* The same with the map as it was.
LEMMA CallLostSafe == ASSUME GalleryInv, NEW n \in Open, CallLost(n) PROVE GalleryInv'
<1>1. calls[n] \in Call
  BY DEF GalleryInv, ToggleTypeOK, Open
<1>2. calls' \in Seq(Call \cup {None}) /\ Len(calls') = Len(calls)
  <2>. DEFINE r == [calls[n] EXCEPT !.heard = FALSE, !.own = FALSE]
  <2>1. r \in Call
    BY <1>1 DEF Call
  <2>2. calls' = [calls EXCEPT ![n] = r]
    BY <1>1 DEF CallLost, Open
  <2>. QED
    BY <2>1, <2>2, ExceptSeq DEF GalleryInv, ToggleTypeOK, Open
<1>3. ToggleTypeOK'
  BY <1>2 DEF CallLost, Synced, GalleryInv, ToggleTypeOK, server
<1>. QED
  BY <1>3 DEF CallLost, Synced, GalleryInv, ToggleTypeOK, NoTileWhileListed, TogglesFollowMap, Listed

\* What the server does for a call replaces the call, and may change what is
\* up; it moves no toggle.
LEMMA CallMoves ==
  ASSUME GalleryInv, NEW n \in Open, NEW r \in Call \cup {None}, calls' = [calls EXCEPT ![n] = r],
         media' \in [Ids -> Contents \cup {None}],
         UNCHANGED <<lists, published, toggle>>, raced \subseteq raced'
  PROVE  GalleryInv'
<1>1. calls' \in Seq(Call \cup {None}) /\ Len(calls') = Len(calls)
  BY ExceptSeq DEF GalleryInv, ToggleTypeOK, Open
<1>2. ToggleTypeOK'
  BY <1>1 DEF GalleryInv, ToggleTypeOK
<1>. QED
  BY <1>2, UntouchedKeeps

\* What the server does for a call leaves its asset, its purpose and its
\* toggle as they are.
LEMMA CallGoesOn ==
  ASSUME NEW n \in Open, calls[n] \in Call, n \in Ids,
         ServeFind(n) \/ ServeAdd(n) \/ ServeRemove(n) \/ ServeRefuses(n)
  PROVE  \E r \in Call :
           /\ calls' = [calls EXCEPT ![n] = r]
           /\ r.asset = calls[n].asset /\ r.publishing = calls[n].publishing
           /\ r.own = calls[n].own /\ r.heard = calls[n].heard
<1>. DEFINE At(stage) == [calls[n] EXCEPT !.stage = stage]
            Done(id) == [calls[n] EXCEPT !.stage = "done", !.id = id]
            Same(r) == /\ r.asset = calls[n].asset /\ r.publishing = calls[n].publishing
                       /\ r.own = calls[n].own /\ r.heard = calls[n].heard
<1>1. \A stage \in {"rendering", "done", "refused"} : At(stage) \in Call /\ Same(At(stage))
  BY DEF Call
<1>2. \A id \in Ids : Done(id) \in Call /\ Same(Done(id))
  BY DEF Call
<1>3. CASE ServeFind(n)
  <2>1. CASE \E i \in Ids : calls' = [calls EXCEPT ![n].stage = "done", ![n].id = i]
    <3>1. PICK i \in Ids : calls' = [calls EXCEPT ![n].stage = "done", ![n].id = i]
      BY <2>1
    <3>2. calls' = [calls EXCEPT ![n] = Done(i)]
      BY <3>1 DEF Open
    <3>. QED
      BY <1>2, <3>2
  <2>2. CASE calls' = [calls EXCEPT ![n].stage = "rendering"]
    <3>1. calls' = [calls EXCEPT ![n] = At("rendering")]
      BY <2>2
    <3>. QED
      BY <1>1, <3>1
  <2>. QED
    BY <1>3, <2>1, <2>2 DEF ServeFind
<1>4. CASE ServeAdd(n)
  <2>1. calls' = [calls EXCEPT ![n] = Done(n)] \/ calls' = [calls EXCEPT ![n] = At("refused")]
    BY <1>4 DEF ServeAdd, ChangedUnsaved, Open
  <2>. QED
    BY <1>1, <1>2, <2>1
<1>5. CASE ServeRemove(n) \/ ServeRefuses(n)
  <2>1. \E stage \in {"done", "refused"} : calls' = [calls EXCEPT ![n] = At(stage)]
    BY <1>5 DEF ServeRemove, ServeRefuses, ChangedUnsaved
  <2>. QED
    BY <1>1, <2>1
<1>. QED
  BY <1>3, <1>4, <1>5

\* No step of the server moves a toggle or the map.
LEMMA ServerSafe ==
  ASSUME GalleryInv, NEW n \in Open,
         ServeFind(n) \/ ServeAdd(n) \/ ServeRemove(n) \/ ServeRefuses(n) \/ NobodyHears(n)
  PROVE  GalleryInv'
<1>1. calls[n] \in Call /\ n \in Ids
  BY BoundsAssumption DEF GalleryInv, ToggleTypeOK, Open, Ids
<1>2. \E r \in Call \cup {None} : calls' = [calls EXCEPT ![n] = r]
  BY <1>1, CallGoesOn DEF NobodyHears
<1>3. ContentOn(n) \in Contents /\ media \in [Ids -> Contents \cup {None}]
  BY <1>1 DEF GalleryInv, ToggleTypeOK, Call, ContentOn, Contents
<1>4. media' \in [Ids -> Contents \cup {None}] /\ UNCHANGED <<lists, published, toggle>>
  BY <1>3 DEF ServeFind, ServeAdd, ServeRemove, ServeRefuses, NobodyHears, server, tiles
<1>5. raced \subseteq raced'
  BY DEF ServeFind, ServeAdd, ServeRemove, ServeRefuses, ChangedUnsaved, NobodyHears
<1>. QED
  BY <1>2, <1>4, <1>5, CallMoves

\* A click puts a request under way and moves no toggle.
LEMMA ClickSafe == ASSUME GalleryInv, NEW a \in Assets, Click(a) PROVE GalleryInv'
<1>1. published[ContentOf[a]] \in Ids \cup {None}
  BY DEF GalleryInv, ToggleTypeOK, Map, Contents
<1>2. ToggleTypeOK'
  BY <1>1, BoundsAssumption DEF Click, GalleryInv, ToggleTypeOK, Call, server
<1>. QED
  BY <1>2, UntouchedKeeps DEF Click

\* Every other step leaves toggles, map, lists and calls alone.
LEMMA OtherSafe ==
  ASSUME GalleryInv,
         \/ Logout \/ LoadNextPage \/ ServePage \/ PageFails \/ PageUnauthorized
         \/ \E a \in Assets : Upload(a)
         \/ UNCHANGED vars
  PROVE  GalleryInv'
<1>1. UNCHANGED <<media, lists, published, toggle, calls, raced>>
  BY DEF Logout, LoadNextPage, ServePage, PageFails, PageUnauthorized, Upload, vars, server, tiles
<1>2. ToggleTypeOK'
  BY <1>1 DEF GalleryInv, ToggleTypeOK
<1>. QED
  BY <1>1, <1>2, UntouchedKeeps

\* Every step keeps the toggles in step with the map.
LEMMA StepInv == GalleryInv /\ [Next]_vars => GalleryInv'
<1> SUFFICES ASSUME GalleryInv, [Next]_vars PROVE GalleryInv'
  OBVIOUS
<1>1. CASE SignIn \/ Refresh
  BY <1>1, ReloadSafe DEF SignIn, Refresh
<1>2. CASE PageArrives
  BY <1>2, PageArrivesSafe
<1>3. ASSUME NEW n \in Listed, ServeList(n) PROVE GalleryInv'
  BY <1>3, ServeListSafe
<1>4. ASSUME NEW n \in Listed, ListArrives(n) \/ ListFails(n) PROVE GalleryInv'
  <2>1. lists[n].got \in Map /\ published \in Map
    BY DEF GalleryInv, ToggleTypeOK, Listed, ListRequest
  <2>2. PICK map, past :
          map \in Map /\ ListEnds(n, map, past)
          /\ (raced \subseteq past \/ \A a \in Assets : toggle[a] = None)
    BY <1>4, <2>1 DEF ListArrives, ListFails, AtRest
  <2>. QED
    BY <2>2, ListEndsSafe
<1>5. ASSUME NEW n \in Open, Answered(n) PROVE GalleryInv'
  BY <1>5, AnsweredSafe
<1>6. ASSUME NEW n \in Open, CallLost(n) PROVE GalleryInv'
  BY <1>6, CallLostSafe
<1>7. ASSUME NEW a \in Assets, Click(a) PROVE GalleryInv'
  BY <1>7, ClickSafe
<1>8. ASSUME NEW n \in Open,
             \/ ServeFind(n) \/ ServeAdd(n) \/ ServeRemove(n) \/ ServeRefuses(n)
             \/ NobodyHears(n)
      PROVE  GalleryInv'
  BY <1>8, ServerSafe
<1>9. CASE \/ Logout \/ LoadNextPage \/ ServePage \/ PageFails \/ PageUnauthorized
           \/ \E a \in Assets : Upload(a)
           \/ UNCHANGED vars
  BY <1>9, OtherSafe
<1>. QED
  BY <1>1, <1>2, <1>3, <1>4, <1>5, <1>6, <1>7, <1>8, <1>9 DEF Next

\* Toggles, map and lists are always consistent.
THEOREM ToggleInvariant == Spec => []GalleryInv
  BY InitInv, StepInv, PTL DEF Spec

\* The toggles of a photograph agree with the map in every behaviour, for any
\* number of assets, contents, pages, clicks and reloads (TogglesFollowMap).
THEOREM TogglesAgree == Spec => []TogglesFollowMap
<1>1. GalleryInv => TogglesFollowMap
  BY DEF GalleryInv
<1>. QED
  BY ToggleInvariant, <1>1, PTL

----------------------------------------------------------------------------
\* The listing.

\* How many assets of the library come before a.
Rank(a) == Cardinality(Newer(a))

\* A library that has only grown has moved nothing forward.
LEMMA RankGrows ==
  ASSUME IsFiniteSet(library'), library \subseteq library', NEW a
  PROVE  Rank(a) \in Nat /\ Rank(a)' \in Nat /\ Rank(a) <= Rank(a)'
<1>. DEFINE old == {b \in library : b < a}
            new == {b \in library' : b < a}
<1>1. new \in SUBSET library' /\ old \in SUBSET new
  OBVIOUS
<1>2. IsFiniteSet(new) /\ IsFiniteSet(old) /\ Cardinality(old) <= Cardinality(new)
  BY <1>1, FS_Subset
<1>3. Cardinality(old) \in Nat /\ Cardinality(new) \in Nat
  BY <1>2, FS_CardinalityType
<1>. QED
  BY <1>2, <1>3 DEF Rank, Newer

\* Assets have different ranks, each below the size of the library.
LEMMA RankOrders ==
  ASSUME IsFiniteSet(library), library \subseteq Nat, NEW a \in library
  PROVE  /\ Rank(a) \in 0 .. (Cardinality(library) - 1)
         /\ \A b \in library : Rank(a) = Rank(b) => a = b
<1>1. ASSUME NEW x \in library, NEW S \in SUBSET library, Newer(x) \subseteq S, x \in S
      PROVE  Rank(x) \in Nat /\ Cardinality(S) \in Nat /\ Rank(x) < Cardinality(S)
  <2>1. IsFiniteSet(S) /\ IsFiniteSet(Newer(x))
    BY <1>1, FS_Subset DEF Newer
  <2>2. x \notin Newer(x)
    BY DEF Newer
  <2>3. Cardinality(Newer(x) \cup {x}) = Rank(x) + 1
    BY <2>1, <2>2, FS_AddElement DEF Rank
  <2>4. Cardinality(Newer(x) \cup {x}) <= Cardinality(S)
    BY <1>1, <2>1, FS_Subset
  <2>5. Rank(x) \in Nat /\ Cardinality(S) \in Nat
    BY <2>1, FS_CardinalityType DEF Rank
  <2>. QED
    BY <2>3, <2>4, <2>5
<1>2. Newer(a) \subseteq library
  BY DEF Newer
<1>3. Rank(a) \in Nat /\ Cardinality(library) \in Nat /\ Rank(a) < Cardinality(library)
  BY <1>1, <1>2
<1>4. ASSUME NEW x \in library, NEW y \in library, x < y
      PROVE  Rank(x) \in Nat /\ Rank(y) \in Nat /\ Rank(x) < Rank(y)
  <2>1. \A b \in library : b < x => b < y
    BY <1>4
  <2>2. Newer(x) \subseteq Newer(y) /\ x \in Newer(y) /\ Newer(y) \in SUBSET library
    BY <1>4, <2>1 DEF Newer
  <2>. QED
    BY <1>1, <2>2 DEF Rank
<1>5. ASSUME NEW b \in library, Rank(a) = Rank(b) PROVE a = b
  <2>1. a < b \/ b < a \/ a = b
    OBVIOUS
  <2>. QED
    BY <1>4, <1>5, <2>1
<1>. QED
  BY <1>3, <1>5

\* Every place of the listing is taken: were one free, the ranks would squeeze
\* the library into fewer places than it has assets.
LEMMA EveryPlaceIsTaken ==
  ASSUME IsFiniteSet(library), library \subseteq Nat, NEW i \in 1 .. Cardinality(library)
  PROVE  \E a \in library : Rank(a) = i - 1
<1>. SUFFICES ASSUME \A a \in library : Rank(a) # i - 1 PROVE FALSE
  OBVIOUS
<1>. DEFINE n == Cardinality(library)
            places == (0 .. (n - 1)) \ {i - 1}
            place == [a \in library |-> Rank(a)]
<1>1. n \in Nat
  BY FS_CardinalityType
<1>2. IsFiniteSet(0 .. (n - 1)) /\ Cardinality(0 .. (n - 1)) = n
  <2>. HIDE DEF n
  <2>1. n - 1 \in Int /\ 0 \in Int /\ (0 > n - 1 => n = 0) /\ ((n - 1) - 0) + 1 = n
    BY <1>1
  <2>. QED
    BY <2>1, FS_Interval
<1>3. i - 1 \in 0 .. (n - 1)
  BY <1>1
<1>4. IsFiniteSet(places) /\ Cardinality(places) = n - 1
  <2>. HIDE DEF n
  <2>. QED
    BY <1>2, <1>3, FS_RemoveElement
<1>5. place \in [library -> places]
  BY RankOrders
<1>6. \E x, y \in library : x # y /\ place[x] = place[y]
  <2>1. Cardinality(places) < Cardinality(library)
    BY <1>1, <1>4
  <2>. HIDE DEF places, place
  <2>. QED
    BY <1>4, <1>5, <2>1, FS_PigeonHole
<1>. QED
  BY <1>6, RankOrders

\* The listing is a sequence of the assets of the library, each at its rank.
LEMMA ListingIsByRank ==
  ASSUME IsFiniteSet(library), library \subseteq Nat
  PROVE  /\ Listing \in Seq(library) /\ Len(Listing) = Cardinality(library)
         /\ Cardinality(library) \in Nat
         /\ \A a \in library : Listing[Rank(a) + 1] = a
<1>1. Cardinality(library) \in Nat
  BY FS_CardinalityType
<1>2. \A i \in 1 .. Cardinality(library) : Listing[i] \in library /\ Rank(Listing[i]) = i - 1
  BY EveryPlaceIsTaken DEF Listing, Rank
<1>3. Listing \in [1 .. Cardinality(library) -> library]
  BY <1>2 DEF Listing
<1>4. Listing \in Seq(library) /\ Len(Listing) = Cardinality(library)
  BY <1>1, <1>3, SeqDef
<1>5. ASSUME NEW a \in library PROVE Listing[Rank(a) + 1] = a
  <2>1. Rank(a) \in 0 .. (Cardinality(library) - 1)
    BY RankOrders
  <2>2. Rank(a) + 1 \in 1 .. Cardinality(library) /\ (Rank(a) + 1) - 1 = Rank(a)
    BY <1>1, <2>1
  <2>. QED
    BY <1>2, <2>2, RankOrders
<1>. QED
  BY <1>1, <1>4, <1>5

\* The smaller of two numbers.
LEMMA MinOfTwo ==
  ASSUME NEW x \in Nat, NEW y \in Nat
  PROVE  Min({x, y}) = IF x <= y THEN x ELSE y
  BY DEF Min

\* The elements of two sequences, one after the other.
LEMMA ToSetConcat ==
  ASSUME NEW S, NEW s \in Seq(S), NEW t \in Seq(S)
  PROVE  ToSet(s) \cup ToSet(t) \subseteq ToSet(s \o t)
<1>1. \A i \in DOMAIN s : i \in DOMAIN (s \o t) /\ (s \o t)[i] = s[i]
  BY ConcatProperties, LenProperties
<1>2. \A i \in DOMAIN t : Len(s) + i \in DOMAIN (s \o t) /\ (s \o t)[Len(s) + i] = t[i]
  BY ConcatProperties, LenProperties
<1>. QED
  BY <1>1, <1>2 DEF ToSet

----------------------------------------------------------------------------
\* The walk through the pages.
\*
\* NothingSkipped speaks of the end of the walk only.  On the way, what is
\* loaded holds everything that was there at the start and comes before the
\* next offset; an upload moves assets away from the start, never towards it,
\* so an offset that was enough goes on being enough.

WalkTypeOK ==
  /\ library \subseteq Assets /\ IsFiniteSet(library) /\ walked \subseteq library
  /\ items \in Seq(Assets)
  /\ page = None \/ page \in PageRequest

\* What s holds of the assets the walk began with.
Reaches(s) == \A a \in walked : Rank(a) < Len(s) => a \in ToSet(s)

\* Where the walk stands, and what a page that has been answered will add.
WalkInv ==
  "page" \notin raced =>
    /\ Reaches(items)
    /\ exhausted => walked \subseteq ToSet(items)
    /\ loading => page.offset = Len(items)
    /\ loading /\ page.answered =>
         LET shown == items \o page.got
         IN  Reaches(shown) /\ (Ends(Len(shown), page.count, page.got)
                                  => walked \subseteq ToSet(shown))

WInv == WalkTypeOK /\ WalkInv

\* Before the first reload there is nothing to have walked.
LEMMA InitWalk == Init => WInv
<1>. SUFFICES ASSUME Init PROVE WInv
  OBVIOUS
<1>1. WalkTypeOK
  BY DEF Init, WalkTypeOK
<1>. QED
  BY <1>1 DEF Init, WInv, WalkInv, Reaches, loading

\* A library that grows, while the walk stands still.
LEMMA GrowthKeepsWalk ==
  ASSUME WInv, library \subseteq library', library' \subseteq Assets, IsFiniteSet(library'),
         UNCHANGED walk, "page" \in raced => "page" \in raced'
  PROVE  WInv'
<1>1. WalkTypeOK'
  BY DEF WInv, WalkTypeOK, walk
<1>2. \A a : Rank(a) \in Nat /\ Rank(a)' \in Nat /\ Rank(a) <= Rank(a)'
  BY RankGrows
<1>3. ASSUME NEW s \in Seq(Assets), Reaches(s) PROVE Reaches(s)'
  <2>1. Len(s) \in Nat
    BY LenProperties
  <2>. QED
    BY <1>2, <1>3, <2>1 DEF Reaches, walk
<1>4. ASSUME "page" \notin raced' PROVE WalkInv'
  <2>1. "page" \notin raced /\ UNCHANGED <<items, exhausted, page, walked>>
    BY <1>4 DEF walk
  <2>2. items \in Seq(Assets) /\ (loading => page.got \in Seq(Assets))
    BY DEF WInv, WalkTypeOK, loading, PageRequest
  <2>3. Reaches(items)'
    BY <1>3, <2>1, <2>2 DEF WInv, WalkInv, Reaches
  <2>4. CASE ~loading \/ ~page.answered
    BY <2>1, <2>3, <2>4 DEF WInv, WalkInv, loading
  <2>5. CASE loading /\ page.answered
    <3>. DEFINE shown == items \o page.got
    <3>1. shown \in Seq(Assets)
      BY <2>2, <2>5, ConcatProperties
    <3>2. /\ Reaches(shown)
          /\ Ends(Len(shown), page.count, page.got) => walked \subseteq ToSet(shown)
          /\ page.offset = Len(items) /\ (exhausted => walked \subseteq ToSet(items))
      BY <2>1, <2>5 DEF WInv, WalkInv
    <3>3. shown' = shown
      BY <2>1
    <3>4. Reaches(shown)'
      <4>. HIDE DEF shown
      <4>. QED
        BY <1>3, <3>1, <3>2, <3>3 DEF Reaches
    <3>. QED
      BY <2>1, <2>3, <3>2, <3>3, <3>4 DEF WalkInv, loading
  <2>. QED
    BY <2>4, <2>5
<1>. QED
  BY <1>1, <1>4 DEF WInv, WalkInv

\* A reload starts a walk with nothing loaded, or with the page request of the
\* walk before, which raced records.
LEMMA ReloadKeepsWalk == ASSUME WInv, Reload PROVE WInv'
<1>1. WalkTypeOK'
  BY DEF Reload, WInv, WalkTypeOK, server
<1>2. \A a \in library : Rank(a)' \in Nat
  BY RankGrows DEF Reload, WInv, WalkTypeOK, server
<1>3. Reaches(items)' /\ ("page" \notin raced' => ~loading /\ ~loading')
  BY <1>2 DEF Reload, Reaches, loading
<1>4. WalkInv'
  BY <1>3 DEF Reload, WalkInv
<1>. QED
  BY <1>1, <1>4 DEF WInv

\* A page is asked for at the offset of what is loaded.
LEMMA AskKeepsWalk ==
  ASSUME WInv, page' = Request(Len(items)), UNCHANGED <<library, items, exhausted, walked>>,
         "page" \in raced => "page" \in raced'
  PROVE  WInv'
<1>1. Request(Len(items)) \in PageRequest
  BY DEF Request, PageRequest, WInv, WalkTypeOK
<1>2. WalkTypeOK'
  BY <1>1 DEF WInv, WalkTypeOK
<1>3. page'.offset = Len(items') /\ ~page'.answered
  BY DEF Request
<1>4. "page" \notin raced' => Reaches(items)' /\ (exhausted' => walked' \subseteq ToSet(items'))
  BY DEF WInv, WalkInv, Reaches, Rank, Newer
<1>. QED
  BY <1>2, <1>3, <1>4 DEF WInv, WalkInv

\* A page request that comes to nothing.
LEMMA DropKeepsWalk ==
  ASSUME WInv, page' = None, UNCHANGED <<library, items, exhausted, walked, raced>>
  PROVE  WInv'
<1>1. WalkTypeOK'
  BY DEF WInv, WalkTypeOK
<1>2. ~loading' /\ (Reaches(items)' <=> Reaches(items))
  BY DEF loading, Reaches, Rank, Newer
<1>. QED
  BY <1>1, <1>2 DEF WInv, WalkInv

\* The server's page takes up where the loaded items end: what ranks before
\* its own end is loaded or on it, and a page that ends the walk has the rest.
LEMMA ServePageKeepsWalk == ASSUME WInv, ServePage PROVE WInv'
<1>. DEFINE n == Cardinality(library)
            from == page.offset + 1
            to == Min({page.offset + PageSize, Len(Listing)})
            got == SubSeq(Listing, from, to)
            shown == items \o got
<1>. HIDE DEF n, from, to, got
<1>1. /\ Listing \in Seq(library) /\ Len(Listing) = n /\ n \in Nat
      /\ \A a \in library : Listing[Rank(a) + 1] = a
      /\ \A a \in library : Rank(a) \in 0 .. (n - 1)
  BY ListingIsByRank, RankOrders, AssetsAssumption DEF WInv, WalkTypeOK, n
<1>2. page \in PageRequest /\ page.offset \in Nat /\ ~page.answered
  BY DEF ServePage, WInv, WalkTypeOK, loading, PageRequest
<1>3. to \in Nat /\ to = IF page.offset + PageSize <= n THEN page.offset + PageSize ELSE n
  <2>1. page.offset + PageSize \in Nat
    BY <1>2, BoundsAssumption
  <2>. QED
    BY <1>1, <2>1, MinOfTwo DEF to
<1>4. /\ got \in Seq(Assets)
      /\ Len(got) = IF from <= to THEN to - page.offset ELSE 0
      /\ \A i \in 1 .. (to - page.offset) : got[i] = Listing[page.offset + i]
  <2>1. \A i \in from .. to : Listing[i] \in Assets
    BY <1>1, <1>2, <1>3, LenProperties DEF WInv, WalkTypeOK, from
  <2>2. from = page.offset + 1 /\ from \in Int /\ to \in Int
    BY <1>2, <1>3 DEF from
  <2>3. /\ got \in Seq(Assets)
        /\ Len(got) = IF from <= to THEN to - from + 1 ELSE 0
        /\ \A i \in 1 .. (to - from + 1) : got[i] = Listing[from + i - 1]
    BY <2>1, <2>2, SubSeqProperties DEF got
  <2>4. to - from + 1 = to - page.offset /\ \A i \in Int : from + i - 1 = page.offset + i
    BY <1>2, <1>3, <2>2
  <2>5. 1 .. (to - page.offset) \subseteq Int
    BY <1>2, <1>3
  <2>. QED
    BY <2>3, <2>4, <2>5
<1>5. page' = [page EXCEPT !.answered = TRUE, !.got = got, !.count = n]
  BY <1>1 DEF ServePage, got, from, to, n
<1>6. WalkTypeOK'
  <2>1. page' \in PageRequest
    BY <1>1, <1>2, <1>4, <1>5 DEF PageRequest
  <2>. QED
    BY <2>1 DEF ServePage, WInv, WalkTypeOK, server
<1>7. ASSUME "page" \notin raced PROVE WalkInv'
  <2>1. /\ Reaches(items) /\ (exhausted => walked \subseteq ToSet(items))
        /\ page.offset = Len(items)
    BY <1>7 DEF WInv, WalkInv, ServePage
  <2>2. /\ shown \in Seq(Assets) /\ Len(shown) = Len(items) + Len(got)
        /\ ToSet(items) \subseteq ToSet(shown) /\ ToSet(got) \subseteq ToSet(shown)
    <3>1. items \in Seq(Assets)
      BY DEF WInv, WalkTypeOK
    <3>. QED
      BY <1>4, <3>1, ConcatProperties, ToSetConcat
  <2>3. ASSUME NEW a \in walked, Rank(a) < Len(items) + Len(got)
        PROVE  a \in ToSet(shown)
    <3>1. a \in library /\ Rank(a) \in Nat /\ Len(items) \in Nat
      BY <1>1, LenProperties DEF WInv, WalkTypeOK
    <3>2. CASE Rank(a) < Len(items)
      BY <2>1, <2>2, <2>3, <3>2 DEF Reaches
    <3>3. CASE Rank(a) >= Len(items)
      <4>. DEFINE i == Rank(a) + 1 - page.offset
      <4>. HIDE DEF i
      <4>1. i \in 1 .. Len(got) /\ i \in 1 .. (to - page.offset)
        BY <1>2, <1>3, <1>4, <2>1, <2>3, <3>1, <3>3 DEF from, i
      <4>2. page.offset + i = Rank(a) + 1
        BY <1>2, <3>1 DEF i
      <4>3. got[i] = a
        BY <1>1, <1>4, <3>1, <4>1, <4>2
      <4>4. i \in DOMAIN got
        BY <1>4, <4>1, LenProperties
      <4>. QED
        BY <2>2, <4>3, <4>4 DEF ToSet
    <3>. QED
      BY <3>1, <3>2, <3>3
  <2>4. ASSUME Ends(Len(shown), n, got), NEW a \in walked
        PROVE  a \in ToSet(shown)
    <3>1. Rank(a) \in 0 .. (n - 1)
      BY <1>1 DEF WInv, WalkTypeOK
    <3>2. got = <<>> => Len(got) = 0
      BY EmptySeq
    <3>3. Len(items) + Len(got) >= n
      <4>1. Len(items) \in Nat /\ Len(got) \in Nat
        BY <1>4, LenProperties DEF WInv, WalkTypeOK
      <4>2. CASE got = <<>>
        BY <1>1, <1>2, <1>3, <1>4, <2>1, <3>2, <4>1, <4>2, BoundsAssumption DEF from
      <4>3. CASE Len(shown) >= n
        BY <2>2, <4>3
      <4>. QED
        BY <2>4, <4>2, <4>3 DEF Ends
    <3>4. Rank(a) < Len(items) + Len(got)
      BY <1>1, <1>4, <3>1, <3>3, LenProperties DEF WInv, WalkTypeOK
    <3>. QED
      BY <2>3, <3>4
  <2>5. /\ UNCHANGED <<items, exhausted, walked>> /\ page'.offset = page.offset
        /\ page'.got = got /\ page'.count = n
    BY <1>2, <1>5 DEF ServePage, PageRequest
  <2>6. \A a : Rank(a)' = Rank(a)
    BY DEF ServePage, server, Rank, Newer
  <2>7. Reaches(items)' /\ (items \o page.got)' = shown
    BY <2>1, <2>5, <2>6 DEF Reaches
  <2>8. Reaches(items \o page.got)'
    BY <2>2, <2>3, <2>5, <2>6 DEF Reaches
  <2>. QED
    BY <2>1, <2>4, <2>5, <2>7, <2>8 DEF WalkInv
<1>. QED
  BY <1>6, <1>7 DEF WInv, WalkInv, ServePage

\* The page is added to the items, and with it what it was to add.
LEMMA PageArrivesKeepsWalk == ASSUME WInv, PageArrives PROVE WInv'
<1>1. page \in PageRequest /\ page.got \in Seq(Assets) /\ items \in Seq(Assets)
  BY DEF PageArrives, WInv, WalkTypeOK, loading, PageRequest
<1>2. items' = items \o page.got /\ items' \in Seq(Assets)
  BY <1>1, ConcatProperties DEF PageArrives
<1>3. WalkTypeOK'
  BY <1>2 DEF PageArrives, WInv, WalkTypeOK, server
<1>4. ASSUME "page" \notin raced' PROVE WalkInv'
  <2>1. "page" \notin raced
    BY <1>4 DEF PageArrives
  <2>2. /\ Reaches(items \o page.got)
        /\ Ends(Len(items \o page.got), page.count, page.got)
             => walked \subseteq ToSet(items \o page.got)
    BY <2>1 DEF PageArrives, WInv, WalkInv
  <2>3. exhausted' = Ends(Len(items \o page.got), page.count, page.got)
        /\ walked' = walked /\ ~loading'
    BY <1>2 DEF PageArrives, loading
  <2>4. Reaches(items)'
    BY <1>2, <2>2, <2>3 DEF Reaches, Rank, Newer, PageArrives, server
  <2>. QED
    BY <1>2, <2>2, <2>3, <2>4 DEF WalkInv
<1>. QED
  BY <1>3, <1>4 DEF WInv, WalkInv

\* The end of a list asks for a page when none is under way.
LEMMA ListEndsKeepsWalk ==
  ASSUME WInv, NEW n \in Listed, NEW map, NEW past, ListEnds(n, map, past),
         "page" \in raced => "page" \in past
  PROVE  WInv'
<1>1. CASE page' = page
  BY <1>1, GrowthKeepsWalk DEF ListEnds, server, walk, WInv, WalkTypeOK
<1>2. CASE page' = Request(Len(items))
  BY <1>2, AskKeepsWalk DEF ListEnds, server
<1>. QED
  BY <1>1, <1>2 DEF ListEnds

\* Every step keeps the walk in order.
LEMMA StepWalk == WInv /\ [Next]_vars => WInv'
<1> SUFFICES ASSUME WInv, [Next]_vars PROVE WInv'
  OBVIOUS
<1>1. CASE SignIn \/ Refresh
  BY <1>1, ReloadKeepsWalk DEF SignIn, Refresh
<1>2. CASE LoadNextPage
  BY <1>2, AskKeepsWalk DEF LoadNextPage, server
<1>3. CASE ServePage \/ PageArrives
  BY <1>3, ServePageKeepsWalk, PageArrivesKeepsWalk
<1>4. CASE PageFails \/ PageUnauthorized
  BY <1>4, DropKeepsWalk DEF PageFails, PageUnauthorized, server
<1>5. ASSUME NEW n \in Listed, ListArrives(n) \/ ListFails(n) PROVE WInv'
  <2>1. PICK map, past : ListEnds(n, map, past) /\ ("page" \in raced => "page" \in past)
    BY <1>5 DEF ListArrives, ListFails
  <2>. QED
    BY <2>1, ListEndsKeepsWalk
<1>6. ASSUME NEW a \in Assets, Upload(a) PROVE WInv'
  <2>1. IsFiniteSet(library \cup {a})
    BY FS_AddElement DEF WInv, WalkTypeOK
  <2>. QED
    BY <1>6, <2>1, GrowthKeepsWalk DEF Upload, WInv, WalkTypeOK
<1>7. ASSUME UNCHANGED <<library, walk>>, "page" \in raced => "page" \in raced' PROVE WInv'
  BY <1>7, GrowthKeepsWalk DEF WInv, WalkTypeOK
<1>8. ASSUME NEW n \in Listed, ServeList(n) PROVE WInv'
  BY <1>7, <1>8 DEF ServeList, server
<1>9. ASSUME NEW n \in Open,
             \/ ServeFind(n) \/ ServeAdd(n) \/ ServeRemove(n) \/ ServeRefuses(n)
             \/ Answered(n) \/ CallLost(n) \/ NobodyHears(n)
      PROVE  WInv'
  BY <1>7, <1>9
  DEF ServeFind, ServeAdd, ServeRemove, ServeRefuses, ChangedUnsaved, Answered, CallLost,
      NobodyHears, server
<1>10. ASSUME NEW a \in Assets, Click(a) PROVE WInv'
  BY <1>7, <1>10 DEF Click, server
<1>11. CASE Logout \/ UNCHANGED vars
  BY <1>7, <1>11 DEF Logout, vars, server
<1>. QED
  BY <1>1, <1>2, <1>3, <1>4, <1>5, <1>6, <1>8, <1>9, <1>10, <1>11 DEF Next

\* A gallery that says it has everything has every photo that was there when
\* its walk began, for any library, page size and order of uploads.
THEOREM NothingIsSkipped == Spec => []NothingSkipped
<1>1. WInv => NothingSkipped
  BY DEF WInv, WalkInv, NothingSkipped
<1>. QED
  BY InitWalk, StepWalk, <1>1, PTL DEF Spec

----------------------------------------------------------------------------
\* The spinners.

\* A spinner has its request, and only a request somebody waits for has one.
SpinInv ==
  /\ \A a \in working : toggle[a] # None /\ \E n \in Open : calls[n].asset = a /\ calls[n].own
  /\ \A n \in Open : calls[n].own => calls[n].heard

\* The position of a switch is not the absence of a tile.
LEMMA PositionIsTile == ASSUME NEW p \in BOOLEAN PROVE p # None
  BY NoneAssumption

\* Before the first click nothing spins.
LEMMA InitSpin == Init => SpinInv
  BY DEF Init, SpinInv, Open

\* A reload throws the spinners away, and its calls with them.
LEMMA ReloadSpin == ASSUME GalleryInv, SpinInv, Reload PROVE SpinInv'
<1>1. \A n \in Open' : n \in DOMAIN calls /\ calls[n] \in Call
                      /\ calls'[n] = [calls[n] EXCEPT !.own = FALSE]
  BY DEF Reload, Open, GalleryInv, ToggleTypeOK
<1>2. \A n \in Open' : ~calls'[n].own
  BY <1>1 DEF Call
<1>3. working' = {}
  BY DEF Reload
<1>. QED
  BY <1>2, <1>3 DEF SpinInv

\* Tiles that appear, and whatever does not concern the calls.
LEMMA TilesSpin ==
  ASSUME SpinInv, UNCHANGED <<working, calls>>, working \subseteq Assets,
         \A a \in Assets : toggle[a] # None => toggle'[a] # None
  PROVE  SpinInv'
  BY DEF SpinInv, Open

\* A click puts a request behind the spinner it shows.
LEMMA ClickSpin == ASSUME GalleryInv, SpinInv, NEW a \in Assets, Click(a) PROVE SpinInv'
<1>. DEFINE n == Len(calls) + 1
<1>1. /\ n \in DOMAIN calls' /\ \A m \in DOMAIN calls : m \in DOMAIN calls' /\ calls'[m] = calls[m]
      /\ \A m \in DOMAIN calls' : m \in DOMAIN calls \/ m = n
  BY DEF Click, GalleryInv, ToggleTypeOK
<1>2. calls'[n].asset = a /\ calls'[n].own /\ calls'[n].heard /\ calls'[n] \in Call
  BY DEF Click, GalleryInv, ToggleTypeOK, Map, Contents, Call
<1>3. n \in Open' /\ Open \subseteq Open' /\ Open' \subseteq Open \cup {n}
  BY <1>1, <1>2, NoRequestAssumption DEF Open
<1>4. \A m \in Open : calls'[m] = calls[m]
  BY <1>1 DEF Open
<1>. HIDE DEF n
<1>5. working' = working \cup {a} /\ toggle' = toggle /\ toggle[a] # None
  BY DEF Click
<1>6. ASSUME NEW b \in working' PROVE \E m \in Open' : calls'[m].asset = b /\ calls'[m].own
  BY <1>2, <1>3, <1>4, <1>5, <1>6 DEF SpinInv
<1>7. \A m \in Open' : calls'[m].own => calls'[m].heard
  BY <1>2, <1>3, <1>4 DEF SpinInv
<1>. QED
  BY <1>5, <1>6, <1>7 DEF SpinInv

\* A call that goes on belongs to the toggle it belonged to; one that ends, or
\* is given up, takes its toggle's spinner away.
LEMMA CallSpin ==
  ASSUME GalleryInv, SpinInv, NEW n \in Open, NEW r \in Call \cup {None},
         calls' = [calls EXCEPT ![n] = r],
         \A a \in working' : a \in Assets /\ a \in working /\ toggle'[a] # None,
         r \in Call => (r.own => r.heard),
         \/ r \in Call /\ r.asset = calls[n].asset /\ r.own = calls[n].own
         \/ calls[n].own => calls[n].asset \notin working'
  PROVE  SpinInv'
<1>1. \A m \in Open : m # n => m \in Open' /\ calls'[m] = calls[m]
  BY DEF Open
<1>2. \A m \in Open' : m \in Open
  BY DEF Open
<1>3. n \in Open' => calls'[n] = r /\ r \in Call
  BY DEF Open
<1>4. r \in Call => n \in Open' /\ calls'[n] = r
  BY NoRequestAssumption DEF Open
<1>5. ASSUME NEW a \in working' PROVE \E m \in Open' : calls'[m].asset = a /\ calls'[m].own
  <2>1. PICK m \in Open : calls[m].asset = a /\ calls[m].own
    BY <1>5 DEF SpinInv
  <2>2. CASE m # n
    BY <1>1, <2>1, <2>2
  <2>3. CASE m = n
    BY <1>4, <1>5, <2>1, <2>3
  <2>. QED
    BY <2>2, <2>3
<1>6. \A m \in Open' : calls'[m].own => calls'[m].heard
  BY <1>1, <1>2, <1>3 DEF SpinInv
<1>. QED
  BY <1>5, <1>6 DEF SpinInv

\* Every step leaves each spinner its request.
LEMMA StepSpin ==
  ASSUME GalleryInv, SpinInv, working \subseteq Assets, [Next]_vars
  PROVE  SpinInv'
<1>1. CASE SignIn \/ Refresh
  BY <1>1, ReloadSpin DEF SignIn, Refresh
<1>2. ASSUME UNCHANGED <<working, toggle, calls>> PROVE SpinInv'
  BY <1>2, TilesSpin
<1>3. CASE PageArrives
  <2>1. \A a \in Assets : toggle[a] # None => toggle'[a] # None
    BY <1>3 DEF PageArrives, Drawn, GalleryInv, ToggleTypeOK
  <2>. QED
    BY <1>3, <2>1, TilesSpin DEF PageArrives
<1>4. CASE \/ Logout \/ LoadNextPage \/ ServePage \/ PageFails \/ PageUnauthorized
           \/ UNCHANGED vars
  BY <1>2, <1>4 DEF Logout, LoadNextPage, ServePage, PageFails, PageUnauthorized, vars, tiles
<1>5. ASSUME NEW a \in Assets, Upload(a) PROVE SpinInv'
  BY <1>2, <1>5 DEF Upload, tiles
<1>6. ASSUME NEW n \in Listed, ServeList(n) \/ ListArrives(n) \/ ListFails(n) PROVE SpinInv'
  BY <1>2, <1>6 DEF ServeList, ListArrives, ListFails, ListEnds, tiles
<1>7. ASSUME NEW a \in Assets, Click(a) PROVE SpinInv'
  BY <1>7, ClickSpin
<1>8. ASSUME NEW n \in Open, Answered(n) \/ CallLost(n) PROVE SpinInv'
  <2>1. calls[n] \in Call
    BY DEF GalleryInv, ToggleTypeOK, Open
  <2>2. PICK r \in Call \cup {None} :
          calls' = [calls EXCEPT ![n] = r] /\ (r \in Call => ~r.own)
    <3>. DEFINE lost == [calls[n] EXCEPT !.heard = FALSE, !.own = FALSE]
    <3>1. lost \in Call /\ ~lost.own
      BY <2>1 DEF Call
    <3>2. calls' = [calls EXCEPT ![n] = lost] \/ calls' = [calls EXCEPT ![n] = None]
      BY <1>8 DEF Answered, CallLost, Open
    <3>. QED
      BY <3>1, <3>2, NoRequestAssumption
  <2>3. working' = Idle(n)
    BY <1>8 DEF Answered, CallLost
  <2>4. \A a \in Assets : toggle[a] # None => toggle'[a] # None
    BY <1>8, PositionIsTile DEF Answered, CallLost, Synced
  <2>5. \A a \in working' : a \in Assets /\ a \in working /\ toggle'[a] # None
    BY <2>3, <2>4 DEF Idle, SpinInv
  <2>6. calls[n].own => calls[n].asset \notin working'
    BY <2>3 DEF Idle
  <2>. QED
    BY <2>2, <2>5, <2>6, CallSpin
<1>9. ASSUME NEW n \in Open,
             ServeFind(n) \/ ServeAdd(n) \/ ServeRemove(n) \/ ServeRefuses(n)
      PROVE  SpinInv'
  <2>1. calls[n] \in Call /\ n \in Ids
    BY BoundsAssumption DEF GalleryInv, ToggleTypeOK, Open, Ids
  <2>2. PICK r \in Call :
          /\ calls' = [calls EXCEPT ![n] = r]
          /\ r.asset = calls[n].asset /\ r.own = calls[n].own /\ r.heard = calls[n].heard
    BY <1>9, <2>1, CallGoesOn
  <2>3. UNCHANGED <<working, toggle>>
    BY <1>9 DEF ServeFind, ServeAdd, ServeRemove, ServeRefuses, tiles
  <2>4. \A a \in working' : a \in Assets /\ a \in working /\ toggle'[a] # None
    BY <2>3 DEF SpinInv
  <2>5. r.own => r.heard
    BY <2>2 DEF SpinInv
  <2>. QED
    BY <2>2, <2>4, <2>5, CallSpin
<1>10. ASSUME NEW n \in Open, NobodyHears(n) PROVE SpinInv'
  <2>1. UNCHANGED <<working, toggle>> /\ calls' = [calls EXCEPT ![n] = None] /\ ~calls[n].own
    BY <1>10 DEF NobodyHears, SpinInv, tiles
  <2>2. \A a \in working' : a \in Assets /\ a \in working /\ toggle'[a] # None
    BY <2>1 DEF SpinInv
  <2>. QED
    BY <2>1, <2>2, NoRequestAssumption, CallSpin
<1>. QED
  BY <1>1, <1>3, <1>4, <1>5, <1>6, <1>7, <1>8, <1>9, <1>10 DEF Next

----------------------------------------------------------------------------
\* The indicator and the media site.
\*
\* IndicatorTruthful compares the map with the site when nothing is in flight.
\* In between, the map is right about every photograph but those with a call
\* the server has finished and the script has not heard of; that the others
\* are right rests on what each call has found, and on no two open calls being
\* about one photograph.

\* No overlap has happened that the indicator does not survive.
Calm == raced \subseteq {"page"}

Up(c) == \E i \in Ids : media[i] = c

\* What the map says of a content is so.
Truth(c) == IF published[c] = None THEN ~Up(c) ELSE media[published[c]] = c

Pending(c) == \E n \in Open : ContentOn(n) = c /\ calls[n].stage = "done"

\* Some list of the published has been heard.
Known == \E n \in DOMAIN lists : lists[n] = None

\* Before that there is nothing to click.
StartInv ==
  /\ lists = <<>> => ~loading /\ ~signedIn
  /\ ~Known => calls = <<>> /\ \A a \in Assets : toggle[a] = None

\* What is up is up under an id some click has been given.
Fresh == \A n \in Ids : n # 0 /\ n \notin DOMAIN calls => media[n] = None

\* Each content is up once.
UpOnce ==
  /\ \A i, j \in Ids : media[i] # None /\ media[i] = media[j] => i = j
  /\ Fresh

\* What an open call relies on, or has brought about.
CallInv(n) ==
  LET c == ContentOn(n)
      stage == calls[n].stage
      publishing == calls[n].publishing
  IN  /\ calls[n].heard
      /\ stage # "done" => media[n] = None
      /\ stage = "rendering" => publishing
      /\ publishing /\ stage \in {"asked", "rendering"} => ~Up(c)
      /\ publishing /\ stage = "done" => calls[n].id # None /\ media[calls[n].id] = c
      /\ ~publishing /\ stage = "asked" => calls[n].id # None /\ media[calls[n].id] = c
      /\ ~publishing /\ stage = "done" => ~Up(c)

Apart == \A m, n \in Open : ContentOn(m) = ContentOn(n) => m = n

MapInv == Known => \A c \in Contents : Truth(c) \/ Pending(c)

SiteInv == UpOnce /\ Apart /\ (\A n \in Open : CallInv(n)) /\ MapInv

IndicatorInv == Fresh /\ (Calm => StartInv /\ SiteInv)

\* An open call is a call, about a content, under an id.
LEMMA OpenIsCall ==
  ASSUME GalleryInv, NEW n \in Open
  PROVE  /\ calls[n] \in Call /\ n \in DOMAIN calls /\ n \in Ids /\ n # 0
         /\ ContentOn(n) \in Contents
  BY BoundsAssumption DEF GalleryInv, ToggleTypeOK, Open, Ids, Call, ContentOn, Contents

\* At the start at most one item is up, and no list has been asked for.
LEMMA InitIndicator == Init => IndicatorInv
<1>. SUFFICES ASSUME Init PROVE StartInv /\ SiteInv
  BY DEF IndicatorInv, SiteInv, UpOnce
<1>1. StartInv
  BY DEF Init, StartInv, loading
<1>2. UpOnce
  BY DEF Init, UpOnce, Fresh
<1>3. Open = {} /\ ~Known
  BY DEF Init, Open, Known
<1>. QED
  BY <1>1, <1>2, <1>3 DEF SiteInv, Apart, MapInv

\* A step of the server for call n touches no content but its own.
LEMMA SiteStep ==
  ASSUME GalleryInv, StartInv, SiteInv, NEW n \in Open,
         NEW r \in Call, calls' = [calls EXCEPT ![n] = r], r.asset = calls[n].asset,
         media' \in [Ids -> Contents \cup {None}],
         \A i \in Ids : \/ media'[i] = media[i]
                        \/ {media[i], media'[i]} \subseteq {ContentOn(n), None},
         \A i \in Ids : i # n /\ media[i] = None => media'[i] = None,
         UpOnce', CallInv(n)',
         Known => Truth(ContentOn(n))' \/ r.stage = "done",
         UNCHANGED <<published, lists>>
  PROVE  SiteInv'
<1>. DEFINE c == ContentOn(n)
<1>1. /\ Open' = Open /\ calls'[n] = r
      /\ \A m \in Open : m # n => calls'[m] = calls[m]
  BY OpenIsCall, NoRequestAssumption DEF Open
<1>2. \A m \in Open : ContentOn(m)' = ContentOn(m)
  BY <1>1 DEF ContentOn
<1>3. Apart'
  BY <1>1, <1>2 DEF SiteInv, Apart
<1>4. ASSUME NEW d \in Contents, d # c
      PROVE  (\A i \in Ids : media'[i] = d <=> media[i] = d) /\ (Up(d)' <=> Up(d))
  BY <1>4, NoneAssumption DEF Up
<1>5. ASSUME NEW m \in Open, m # n PROVE CallInv(m)'
  <2>1. CallInv(m) /\ ContentOn(m) \in Contents /\ ContentOn(m) # c /\ calls[m] \in Call /\ m \in Ids
    BY <1>5, OpenIsCall DEF SiteInv, Apart
  <2>2. calls'[m] = calls[m] /\ ContentOn(m)' = ContentOn(m)
    BY <1>1, <1>2, <1>5
  <2>3. media[m] = None => media'[m] = None
    BY <1>5, <2>1
  <2>4. calls[m].id # None => calls[m].id \in Ids
    BY <2>1 DEF Call
  <2>. QED
    BY <1>4, <2>1, <2>2, <2>3, <2>4 DEF CallInv
<1>6. MapInv'
  <2>. SUFFICES ASSUME Known, NEW d \in Contents PROVE Truth(d)' \/ Pending(d)'
    BY DEF MapInv, Known
  <2>1. CASE d = c
    BY <1>1, <1>2, <2>1 DEF Pending
  <2>2. CASE d # c
    <3>1. CASE Pending(d)
      <4>1. PICK m \in Open : ContentOn(m) = d /\ calls[m].stage = "done"
        BY <3>1 DEF Pending
      <4>. QED
        BY <1>1, <1>2, <2>2, <4>1 DEF Pending
    <3>2. CASE Truth(d)
      <4>1. published[d] # None => published[d] \in Ids
        BY DEF GalleryInv, ToggleTypeOK, Map
      <4>. QED
        BY <1>4, <2>2, <3>2, <4>1 DEF Truth
    <3>. QED
      BY <3>1, <3>2 DEF SiteInv, MapInv
  <2>. QED
    BY <2>1, <2>2
<1>. QED
  BY <1>1, <1>3, <1>5, <1>6 DEF SiteInv

\* The map is right about the photograph of a call the server has not
\* finished, which no other call is about.
LEMMA UnfinishedIsKnown ==
  ASSUME GalleryInv, SiteInv, Known, NEW n \in Open, calls[n].stage # "done"
  PROVE  Truth(ContentOn(n))
<1>1. ContentOn(n) \in Contents
  BY OpenIsCall
<1>2. ~Pending(ContentOn(n))
  BY DEF Pending, SiteInv, Apart
<1>. QED
  BY <1>1, <1>2 DEF SiteInv, MapInv

\* publish_media does not find the content, and goes on to render it.
LEMMA ServeFindSite ==
  ASSUME GalleryInv, StartInv, SiteInv, NEW n \in Open, ServeFind(n)
  PROVE  SiteInv'
<1>. DEFINE r == [calls[n] EXCEPT !.stage = "rendering"]
<1>1. calls[n] \in Call /\ n \in Ids /\ CallInv(n)
  BY OpenIsCall DEF SiteInv
<1>2. ~Up(ContentOn(n)) /\ calls[n].stage = "asked" /\ calls[n].publishing
  BY <1>1 DEF ServeFind, CallInv
<1>3. calls' = [calls EXCEPT ![n] = r] /\ UNCHANGED <<media, lists, published>>
  BY <1>2 DEF ServeFind, Up, server
<1>4. /\ r \in Call /\ r.asset = calls[n].asset /\ r.stage = "rendering"
      /\ r.publishing = calls[n].publishing /\ r.heard = calls[n].heard
  BY <1>1 DEF Call
<1>5. calls'[n] = r /\ ContentOn(n)' = ContentOn(n) /\ DOMAIN calls' = DOMAIN calls
  BY <1>3, <1>4, OpenIsCall DEF ContentOn
<1>6. \A c : Up(c)' <=> Up(c)
  BY <1>3 DEF Up
<1>7. CallInv(n)'
  BY <1>1, <1>2, <1>3, <1>4, <1>5, <1>6 DEF CallInv
<1>8. Known => Truth(ContentOn(n))'
  <2>1. Known => Truth(ContentOn(n))
    BY <1>2, UnfinishedIsKnown
  <2>. QED
    BY <1>3, <1>5, <1>6, <2>1 DEF Truth
<1>9. UpOnce'
  BY <1>3, <1>5 DEF SiteInv, UpOnce, Fresh
<1>10. media \in [Ids -> Contents \cup {None}]
  BY DEF GalleryInv, ToggleTypeOK
<1>. HIDE DEF r
<1>. QED
  BY <1>3, <1>4, <1>7, <1>8, <1>9, <1>10, SiteStep

\* publish_media adds an item of a content that no item has.
LEMMA ServeAddSite ==
  ASSUME GalleryInv, StartInv, SiteInv, NEW n \in Open, ServeAdd(n), Calm'
  PROVE  SiteInv'
<1>. DEFINE r == [calls[n] EXCEPT !.stage = "done", !.id = n]
            c == ContentOn(n)
<1>1. calls[n] \in Call /\ n \in Ids /\ CallInv(n) /\ n \in DOMAIN calls /\ c \in Contents
  BY OpenIsCall DEF SiteInv
<1>2. ~Up(c) /\ calls[n].stage = "rendering" /\ calls[n].publishing /\ media[n] = None
  BY <1>1 DEF ServeAdd, CallInv
<1>3. calls' = [calls EXCEPT ![n] = r] /\ media' = [media EXCEPT ![n] = c]
      /\ UNCHANGED <<lists, published>>
  BY <1>1 DEF ServeAdd, ChangedUnsaved, Calm
<1>4. /\ r \in Call /\ r.asset = calls[n].asset /\ r.stage = "done" /\ r.id = n
      /\ r.publishing = calls[n].publishing /\ r.heard = calls[n].heard
  BY <1>1 DEF Call
<1>5. calls'[n] = r /\ ContentOn(n)' = c /\ DOMAIN calls' = DOMAIN calls
  BY <1>1, <1>3, <1>4 DEF ContentOn
<1>6. media \in [Ids -> Contents \cup {None}] /\ media' \in [Ids -> Contents \cup {None}]
      /\ media'[n] = c /\ \A i \in Ids : i # n => media'[i] = media[i]
  BY <1>1, <1>3 DEF GalleryInv, ToggleTypeOK
<1>7. CallInv(n)'
  BY <1>1, <1>2, <1>4, <1>5, <1>6, NoneAssumption DEF CallInv
<1>8. UpOnce'
  <2>1. \A i \in Ids : media[i] # c
    BY <1>2 DEF Up
  <2>. QED
    BY <1>1, <1>5, <1>6, <2>1 DEF SiteInv, UpOnce, Fresh
<1>9. \A i \in Ids : media'[i] = media[i] \/ {media[i], media'[i]} \subseteq {c, None}
  BY <1>2, <1>6
<1>. HIDE DEF r, c
<1>. QED
  BY <1>3, <1>4, <1>6, <1>7, <1>8, <1>9, SiteStep DEF c

\* unpublish takes down the only item of the content.
LEMMA ServeRemoveSite ==
  ASSUME GalleryInv, StartInv, SiteInv, NEW n \in Open, ServeRemove(n), Calm'
  PROVE  SiteInv'
<1>. DEFINE r == [calls[n] EXCEPT !.stage = "done"]
            c == ContentOn(n)
            id == calls[n].id
<1>1. calls[n] \in Call /\ n \in Ids /\ CallInv(n) /\ n \in DOMAIN calls /\ c \in Contents
  BY OpenIsCall DEF SiteInv
<1>2. id \in Ids /\ media[id] = c /\ calls[n].stage = "asked" /\ ~calls[n].publishing
      /\ media[n] = None
  BY <1>1 DEF ServeRemove, CallInv, Call
<1>3. calls' = [calls EXCEPT ![n] = r] /\ media' = [media EXCEPT ![id] = None]
      /\ UNCHANGED <<lists, published>>
  BY DEF ServeRemove, ChangedUnsaved, Calm
<1>4. /\ r \in Call /\ r.asset = calls[n].asset /\ r.stage = "done"
      /\ r.publishing = calls[n].publishing /\ r.heard = calls[n].heard
  BY <1>1 DEF Call
<1>5. calls'[n] = r /\ ContentOn(n)' = c /\ DOMAIN calls' = DOMAIN calls
  BY <1>1, <1>3, <1>4 DEF ContentOn
<1>6. media \in [Ids -> Contents \cup {None}] /\ media' \in [Ids -> Contents \cup {None}]
      /\ media'[id] = None /\ \A i \in Ids : i # id => media'[i] = media[i]
  BY <1>2, <1>3 DEF GalleryInv, ToggleTypeOK
<1>7. \A i \in Ids : media'[i] # c
  BY <1>1, <1>2, <1>6, NoneAssumption DEF SiteInv, UpOnce, Fresh
<1>8. CallInv(n)'
  <2>1. ~Up(ContentOn(n))'
    BY <1>5, <1>7 DEF Up
  <2>. QED
    BY <1>1, <1>2, <1>4, <1>5, <2>1 DEF CallInv
<1>9. UpOnce'
  BY <1>2, <1>5, <1>6 DEF SiteInv, UpOnce, Fresh
<1>10. \A i \in Ids : media'[i] = media[i] \/ {media[i], media'[i]} \subseteq {c, None}
  BY <1>2, <1>6
<1>11. \A i \in Ids : media[i] = None => media'[i] = None
  BY <1>6
<1>. HIDE DEF r, c, id
<1>. QED
  BY <1>3, <1>4, <1>6, <1>8, <1>9, <1>10, <1>11, SiteStep DEF c

\* A call that is refused has changed nothing.
LEMMA ServeRefusesSite ==
  ASSUME GalleryInv, StartInv, SiteInv, NEW n \in Open, ServeRefuses(n)
  PROVE  SiteInv'
<1>. DEFINE r == [calls[n] EXCEPT !.stage = "refused"]
<1>1. calls[n] \in Call /\ n \in Ids /\ CallInv(n) /\ n \in DOMAIN calls
  BY OpenIsCall DEF SiteInv
<1>2. calls' = [calls EXCEPT ![n] = r] /\ UNCHANGED <<media, lists, published>>
      /\ calls[n].stage # "done"
  BY DEF ServeRefuses, server
<1>3. /\ r \in Call /\ r.asset = calls[n].asset /\ r.stage = "refused"
      /\ r.publishing = calls[n].publishing /\ r.heard = calls[n].heard
  BY <1>1 DEF Call
<1>4. calls'[n] = r /\ DOMAIN calls' = DOMAIN calls
  BY <1>1, <1>2
<1>5. CallInv(n)'
  BY <1>1, <1>2, <1>3, <1>4 DEF CallInv
<1>6. Known => Truth(ContentOn(n))'
  BY <1>2, <1>3, <1>4, UnfinishedIsKnown DEF Truth, Up, ContentOn
<1>7. UpOnce'
  BY <1>2, <1>4 DEF SiteInv, UpOnce, Fresh
<1>8. media \in [Ids -> Contents \cup {None}]
  BY DEF GalleryInv, ToggleTypeOK
<1>. HIDE DEF r
<1>. QED
  BY <1>2, <1>3, <1>5, <1>6, <1>7, <1>8, SiteStep

\* A call that nothing but the map and the toggles has come to know of.
LEMMA QuietSite ==
  ASSUME SiteInv, UNCHANGED <<media, published, calls>>, Known' <=> Known
  PROVE  SiteInv'
  BY DEF SiteInv, UpOnce, Fresh, Apart, CallInv, MapInv, Truth, Pending, Up, Open, ContentOn

\* A reload changes which toggle waits for a call, and nothing else about it.
LEMMA ReloadSite == ASSUME GalleryInv, StartInv, SiteInv, Reload PROVE SiteInv' /\ (Known' <=> Known)
<1>1. /\ DOMAIN calls' = DOMAIN calls /\ Open' = Open
      /\ \A n \in Open : calls'[n] = [calls[n] EXCEPT !.own = FALSE]
  <2>1. \A n \in Open : [calls[n] EXCEPT !.own = FALSE] \in Call
    BY OpenIsCall DEF Call
  <2>. QED
    BY <2>1, NoRequestAssumption DEF Reload, Open
<1>2. ASSUME NEW n \in Open
      PROVE  /\ calls'[n].asset = calls[n].asset /\ calls'[n].stage = calls[n].stage
             /\ calls'[n].publishing = calls[n].publishing /\ calls'[n].id = calls[n].id
             /\ calls'[n].heard = calls[n].heard
  BY <1>1, OpenIsCall DEF Call
<1>3. UNCHANGED <<media, published>>
  BY DEF Reload, server
<1>4. Known' <=> Known
  <2>. DEFINE r == [stage |-> "asked", got |-> NothingUp]
  <2>1. r \in ListRequest /\ r # None
    BY NoRequestAssumption DEF ListRequest, Map, NothingUp
  <2>2. lists' = Append(lists, r) /\ lists \in Seq(ListRequest \cup {None})
    BY DEF Reload, GalleryInv, ToggleTypeOK
  <2>. HIDE DEF r
  <2>3. /\ Len(lists) \in Nat /\ DOMAIN lists = 1 .. Len(lists)
        /\ DOMAIN lists' = 1 .. (Len(lists) + 1) /\ lists'[Len(lists) + 1] = r
        /\ \A m \in 1 .. Len(lists) : lists'[m] = lists[m]
    BY <2>1, <2>2, AppendProperties, LenProperties
  <2>. QED
    BY <2>1, <2>3 DEF Known
<1>5. \A n \in Open : ContentOn(n)' = ContentOn(n)
  BY <1>2 DEF ContentOn
<1>6. \A c : (Up(c)' <=> Up(c)) /\ (Truth(c)' <=> Truth(c))
  BY <1>3 DEF Up, Truth
<1>7. UpOnce' /\ Apart'
  BY <1>1, <1>3, <1>5 DEF SiteInv, UpOnce, Fresh, Apart
<1>8. ASSUME NEW n \in Open PROVE CallInv(n)'
  <2>1. CallInv(n)
    BY DEF SiteInv
  <2>. QED
    BY <1>2, <1>3, <1>5, <1>6, <2>1 DEF CallInv
<1>9. \A c : Pending(c) => Pending(c)'
  BY <1>1, <1>2, <1>5 DEF Pending
<1>10. MapInv'
  BY <1>4, <1>6, <1>9 DEF SiteInv, MapInv
<1>. QED
  BY <1>1, <1>4, <1>7, <1>8, <1>10 DEF SiteInv

\* The list that ends is the truth about every photograph.
LEMMA ListSite ==
  ASSUME GalleryInv, SiteInv, NEW map \in MapsOf(media), published' = map, UNCHANGED <<media, calls>>
  PROVE  SiteInv'
<1>1. ASSUME NEW c \in Contents PROVE Truth(c)'
  BY <1>1 DEF MapsOf, Truth, Up
<1>2. UpOnce' /\ Apart'
  BY DEF SiteInv, UpOnce, Fresh, Apart, Open, ContentOn
<1>3. \A n \in Open' : CallInv(n)'
  BY DEF SiteInv, CallInv, Open, ContentOn, Up
<1>. QED
  BY <1>1, <1>2, <1>3 DEF SiteInv, MapInv

\* The answer to a click puts the map right about its photograph.
LEMMA AnsweredSite ==
  ASSUME GalleryInv, SiteInv, NEW n \in Open, Answered(n)
  PROVE  SiteInv'
<1>1. calls[n] \in Call /\ n \in Ids /\ CallInv(n) /\ n \in DOMAIN calls
  BY OpenIsCall DEF SiteInv
<1>c. PICK c \in Contents : c = ContentOn(n)
  BY OpenIsCall
<1>2. /\ calls' = [calls EXCEPT ![n] = None] /\ UNCHANGED <<media, lists>>
      /\ published' = Outcome(n)
  BY DEF Answered, server
<1>3. /\ DOMAIN calls' = DOMAIN calls /\ Open' = Open \ {n}
      /\ \A m \in Open : m # n => calls'[m] = calls[m]
  BY <1>1, <1>2 DEF Open
<1>4. \A m \in Open' : ContentOn(m)' = ContentOn(m) /\ ContentOn(m) # c
  BY <1>3, <1>c DEF ContentOn, SiteInv, Apart
<1>5. UpOnce' /\ Apart'
  BY <1>2, <1>3, <1>4 DEF SiteInv, UpOnce, Fresh, Apart
<1>6. \A d : Up(d)' <=> Up(d)
  BY <1>2 DEF Up
<1>7. ASSUME NEW m \in Open' PROVE CallInv(m)'
  <2>1. CallInv(m) /\ calls'[m] = calls[m]
    BY <1>3 DEF SiteInv
  <2>. QED
    BY <1>2, <1>4, <1>6, <2>1 DEF CallInv
<1>8. ASSUME Known PROVE Truth(c)'
  <2>1. published \in Map /\ calls[n].id \in Ids \cup {None}
    BY <1>1 DEF GalleryInv, ToggleTypeOK, Call
  <2>2. CASE calls[n].stage = "done"
    <3>1. published'[c] = IF calls[n].publishing THEN calls[n].id ELSE None
      BY <1>2, <1>c, <2>1, <2>2 DEF Outcome, Map
    <3>2. CASE calls[n].publishing
      <4>1. calls[n].id # None /\ media[calls[n].id] = c
        BY <1>1, <1>c, <2>2, <3>2 DEF CallInv
      <4>. QED
        BY <1>2, <3>1, <3>2, <4>1 DEF Truth
    <3>3. CASE ~calls[n].publishing
      <4>1. ~Up(c)
        BY <1>1, <1>c, <2>2, <3>3 DEF CallInv
      <4>. QED
        BY <1>2, <3>1, <3>3, <4>1 DEF Truth, Up
    <3>. QED
      BY <3>2, <3>3
  <2>3. CASE calls[n].stage # "done"
    <3>1. Truth(c)
      BY <1>8, <1>c, <2>3, UnfinishedIsKnown
    <3>2. published' = published
      BY <1>2, <2>3 DEF Outcome
    <3>. QED
      BY <1>2, <3>1, <3>2 DEF Truth, Up
  <2>. QED
    BY <2>2, <2>3
<1>9. ASSUME NEW d \in Contents, d # c, Truth(d) \/ Pending(d)
      PROVE  Truth(d)' \/ Pending(d)'
  <2>1. CASE Truth(d)
    <3>1. published'[d] = published[d]
      BY <1>2, <1>9, <1>c, OutcomeTouchesOne DEF GalleryInv
    <3>. QED
      BY <1>2, <1>6, <2>1, <3>1 DEF Truth
  <2>2. CASE Pending(d)
    <3>1. PICK m \in Open : ContentOn(m) = d /\ calls[m].stage = "done"
      BY <2>2 DEF Pending
    <3>. QED
      BY <1>3, <1>4, <1>9, <1>c, <3>1 DEF Pending
  <2>. QED
    BY <1>9, <2>1, <2>2
<1>10. MapInv'
  <2>1. Known' <=> Known
    BY <1>2 DEF Known
  <2>. QED
    BY <1>8, <1>9, <2>1 DEF SiteInv, MapInv
<1>. QED
  BY <1>5, <1>7, <1>10 DEF SiteInv

\* A click that finds no other call about its photograph finds the map right.
LEMMA ClickSite ==
  ASSUME GalleryInv, StartInv, SiteInv, NEW a \in Assets, Click(a), Calm'
  PROVE  SiteInv'
<1>n. PICK n \in Nat : n = Len(calls) + 1
  BY LenProperties DEF GalleryInv, ToggleTypeOK
<1>1. PICK c \in Contents : c = ContentOf[a]
  BY DEF Contents
<1>2. PICK id \in Ids \cup {None} : id = published[c]
  BY DEF GalleryInv, ToggleTypeOK, Map
<1>3. \A m \in Open : ContentOn(m) # c
  BY <1>1 DEF Click, Calm
<1>4. Known /\ Truth(c)
  <2>1. Known
    BY DEF Click, StartInv
  <2>. QED
    BY <1>3, <2>1 DEF SiteInv, MapInv, Pending
<1>5. PICK r \in Call :
        /\ calls' = Append(calls, r) /\ r.asset = a /\ (r.publishing <=> id = None) /\ r.id = id
        /\ r.stage = "asked" /\ r.heard
  <2>. DEFINE r == [asset |-> a, publishing |-> id = None, id |-> id,
                    stage |-> "asked", own |-> TRUE, heard |-> TRUE]
  <2>1. calls' = Append(calls, r)
    BY <1>1, <1>2 DEF Click
  <2>2. r \in Call /\ (r.publishing <=> id = None)
    BY DEF Call
  <2>. QED
    BY <2>1, <2>2
<1>6. /\ n \in DOMAIN calls' /\ calls'[n] = r /\ n \notin DOMAIN calls
      /\ \A m \in DOMAIN calls : m \in DOMAIN calls' /\ calls'[m] = calls[m]
      /\ \A m \in DOMAIN calls' : m \in DOMAIN calls \/ m = n
      /\ n \in Ids /\ n # 0
  <2>1. Len(calls) \in Nat /\ Len(calls) < MaxClicks /\ DOMAIN calls = 1 .. Len(calls)
    BY LenProperties DEF Click, GalleryInv, ToggleTypeOK
  <2>2. n \in Ids /\ n # 0
    BY <1>n, <2>1, BoundsAssumption DEF Ids
  <2>. QED
    BY <1>n, <1>5, <2>1, <2>2, AppendProperties, LenProperties DEF GalleryInv, ToggleTypeOK
<1>7. UNCHANGED <<media, lists, published>>
  BY DEF Click, server
<1>8. media[n] = None
  BY <1>6 DEF SiteInv, UpOnce, Fresh
<1>9. n \in Open' /\ Open' = Open \cup {n} /\ n \notin Open
  BY <1>6, NoRequestAssumption DEF Open
<1>10. ContentOn(n)' = c /\ \A m \in Open : ContentOn(m)' = ContentOn(m) /\ calls'[m] = calls[m]
  BY <1>1, <1>5, <1>6 DEF ContentOn, Open
<1>11. UpOnce' /\ Apart'
  BY <1>3, <1>6, <1>7, <1>9, <1>10 DEF SiteInv, UpOnce, Fresh, Apart
<1>12. \A d : (Up(d)' <=> Up(d)) /\ (Truth(d)' <=> Truth(d))
  BY <1>7 DEF Up, Truth
<1>13. CallInv(n)'
  <2>1. id = None => ~Up(c)
    BY <1>2, <1>4 DEF Truth
  <2>2. id # None => media[id] = c
    BY <1>2, <1>4 DEF Truth
  <2>. QED
    BY <1>5, <1>6, <1>7, <1>8, <1>10, <1>12, <2>1, <2>2 DEF CallInv
<1>14. ASSUME NEW m \in Open PROVE CallInv(m)'
  <2>1. CallInv(m)
    BY DEF SiteInv
  <2>. QED
    BY <1>7, <1>10, <1>12, <2>1 DEF CallInv
<1>15. MapInv'
  <2>1. \A d : Pending(d) => Pending(d)'
    BY <1>9, <1>10 DEF Pending
  <2>. QED
    BY <1>4, <1>12, <2>1 DEF SiteInv, MapInv
<1>. QED
  BY <1>9, <1>11, <1>13, <1>14, <1>15 DEF SiteInv

\* A list that is served has not ended.
LEMMA ServeListKnows == ASSUME GalleryInv, NEW n \in Listed, ServeList(n) PROVE Known' <=> Known
<1>1. PICK f \in MapsOf(media) : lists' = [lists EXCEPT ![n] = [stage |-> "answered", got |-> f]]
  BY DEF ServeList
<1>2. [stage |-> "answered", got |-> f] \in ListRequest
  BY DEF MapsOf, ListRequest, Map
<1>. QED
  BY <1>1, <1>2, NoRequestAssumption DEF Known, Listed

\* Before the first list is heard a page can only draw early tiles.
LEMMA PageArrivesStart ==
  ASSUME GalleryInv, StartInv, PageArrives, Calm'
  PROVE  StartInv'
<1>1. UNCHANGED <<lists, signedIn, calls>> /\ ~loading' /\ (Known' <=> Known)
  BY DEF PageArrives, loading, Known
<1>2. ASSUME ~Known PROVE toggle' = toggle
  <2>1. lists # <<>> /\ lists \in Seq(ListRequest \cup {None})
    BY DEF PageArrives, StartInv, GalleryInv, ToggleTypeOK
  <2>2. 1 \in DOMAIN lists
    BY <2>1, EmptySeq, LenProperties
  <2>3. Listed # {}
    BY <1>2, <2>2 DEF Known, Listed
  <2>. QED
    BY <2>3 DEF PageArrives, Calm
<1>. QED
  BY <1>1, <1>2 DEF StartInv

\* An item is added under the id of a click, and no click is forgotten.
LEMMA StepFresh == ASSUME GalleryInv, Fresh, [Next]_vars PROVE Fresh'
<1>1. ASSUME DOMAIN calls \subseteq DOMAIN calls',
             \A i \in Ids : media'[i] \in {media[i], None} \/ i \in DOMAIN calls
      PROVE  Fresh'
  BY <1>1 DEF Fresh
<1>2. media \in [Ids -> Contents \cup {None}]
  BY DEF GalleryInv, ToggleTypeOK
<1>3. ASSUME NEW n \in Open, ServeAdd(n) \/ ServeRemove(n) PROVE Fresh'
  <2>1. DOMAIN calls' = DOMAIN calls
    BY <1>3 DEF ServeAdd, ServeRemove, ChangedUnsaved
  <2>2. \A i \in Ids : media'[i] \in {media[i], None} \/ i = n
    BY <1>2, <1>3 DEF ServeAdd, ServeRemove
  <2>. QED
    BY <1>1, <2>1, <2>2 DEF Open
<1>4. ASSUME NEW a \in Assets, Click(a) PROVE Fresh'
  <2>1. PICK r : calls' = Append(calls, r)
    BY <1>4 DEF Click
  <2>2. DOMAIN calls \subseteq DOMAIN calls'
    BY <2>1 DEF GalleryInv, ToggleTypeOK
  <2>. QED
    BY <1>1, <1>4, <2>2 DEF Click, server
<1>5. CASE SignIn \/ Refresh
  <2>1. DOMAIN calls' = DOMAIN calls /\ media' = media
    BY <1>5 DEF SignIn, Refresh, Reload, server
  <2>. QED
    BY <1>1, <2>1
<1>6. ASSUME NEW n \in Open,
             ServeFind(n) \/ ServeRefuses(n) \/ Answered(n) \/ CallLost(n) \/ NobodyHears(n)
      PROVE  Fresh'
  <2>1. DOMAIN calls' = DOMAIN calls /\ media' = media
    BY <1>6 DEF ServeFind, ServeRefuses, Answered, CallLost, NobodyHears, server
  <2>. QED
    BY <1>1, <2>1
<1>7. ASSUME UNCHANGED <<media, calls>> PROVE Fresh'
  BY <1>1, <1>7
<1>8. ASSUME NEW n \in Listed, ServeList(n) \/ ListArrives(n) \/ ListFails(n) PROVE Fresh'
  BY <1>7, <1>8 DEF ServeList, ListArrives, ListFails, ListEnds, server
<1>9. CASE \/ Logout \/ LoadNextPage \/ ServePage \/ PageArrives \/ PageFails
           \/ PageUnauthorized \/ UNCHANGED vars \/ \E a \in Assets : Upload(a)
  BY <1>7, <1>9 DEF Logout, LoadNextPage, ServePage, PageArrives, PageFails, PageUnauthorized,
                    Upload, vars, server
<1>. QED
  BY <1>3, <1>4, <1>5, <1>6, <1>8, <1>9 DEF Next

\* A true list that finds everything at rest makes everything right, whatever
\* has happened before.
LEMMA RestSite ==
  ASSUME GalleryInv, Fresh, NEW n \in Listed, ListArrives(n), lists[n].got \in MapsOf(media), AtRest
  PROVE  StartInv' /\ SiteInv'
<1>1. UNCHANGED <<media, calls, toggle>> /\ published' = lists[n].got
  BY DEF ListArrives, ListEnds, server, tiles
<1>2. n \in DOMAIN lists' /\ lists'[n] = None
  BY DEF ListArrives, ListEnds, Listed
<1>3. StartInv'
  BY <1>2 DEF StartInv, Known
<1>4. Open' = {} /\ UpOnce'
  BY <1>1 DEF AtRest, Open, UpOnce, Fresh
<1>5. ASSUME NEW c \in Contents PROVE Truth(c)'
  BY <1>1, <1>5 DEF MapsOf, Truth, Up
<1>. QED
  BY <1>3, <1>4, <1>5 DEF SiteInv, Apart, MapInv

\* Every step keeps the map right where it was, and puts it right where a
\* reload finds everything at rest.
LEMMA StepIndicator ==
  ASSUME GalleryInv, IndicatorInv, [Next]_vars, Calm'
  PROVE  StartInv' /\ SiteInv'
<1>. DEFINE Repaired == \E n \in Listed :
              ListArrives(n) /\ lists[n].got \in MapsOf(media) /\ AtRest
<1>0. CASE Repaired
  BY <1>0, RestSite DEF IndicatorInv
<1>1. ASSUME ~Repaired PROVE raced \subseteq raced'
  <2>1. \A n \in Listed : ListArrives(n) => raced \subseteq raced'
    BY <1>1 DEF ListArrives, ListEnds
  <2>. HIDE DEF Repaired
  <2>2. CASE \/ SignIn \/ Refresh \/ Logout \/ LoadNextPage \/ ServePage \/ PageArrives
             \/ PageFails \/ PageUnauthorized \/ UNCHANGED vars
             \/ \E a \in Assets : Click(a) \/ Upload(a)
    BY <2>2 DEF SignIn, Refresh, Reload, Logout, LoadNextPage, ServePage, PageArrives,
                PageFails, PageUnauthorized, Click, Upload, vars
  <2>3. ASSUME NEW n \in Listed, ServeList(n) \/ ListFails(n) PROVE raced \subseteq raced'
    BY <2>3 DEF ServeList, ListFails, ListEnds
  <2>4. ASSUME NEW n \in Open,
               \/ ServeFind(n) \/ ServeAdd(n) \/ ServeRemove(n) \/ ServeRefuses(n)
               \/ Answered(n) \/ CallLost(n) \/ NobodyHears(n)
        PROVE  raced \subseteq raced'
    BY <2>4 DEF ServeFind, ServeAdd, ServeRemove, ChangedUnsaved, ServeRefuses, Answered,
                CallLost, NobodyHears
  <2>. QED
    BY <2>1, <2>2, <2>3, <2>4 DEF Next
<1>2. SUFFICES ASSUME ~Repaired, StartInv, SiteInv PROVE StartInv' /\ SiteInv'
  BY <1>0, <1>1 DEF Calm, IndicatorInv
<1>. HIDE DEF Repaired
<1>3. CASE SignIn \/ Refresh
  <2>1. Reload
    BY <1>3 DEF SignIn, Refresh
  <2>2. SiteInv' /\ (Known' <=> Known)
    BY <1>2, <2>1, ReloadSite
  <2>3. lists' # <<>>
    <3>1. [stage |-> "asked", got |-> NothingUp] \in ListRequest \cup {None}
      BY DEF ListRequest, Map, NothingUp
    <3>. QED
      BY <2>1, <3>1, AppendProperties DEF Reload, GalleryInv, ToggleTypeOK
  <2>4. ~Known => calls' = <<>>
    BY <1>2, <2>1 DEF Reload, StartInv
  <2>. QED
    BY <2>1, <2>2, <2>3, <2>4 DEF Reload, StartInv
<1>4. ASSUME UNCHANGED <<media, published, calls, lists, toggle>>,
             lists = <<>> => ~loading' /\ ~signedIn'
      PROVE  StartInv' /\ SiteInv'
  <2>1. Known' <=> Known
    BY <1>4 DEF Known
  <2>. QED
    BY <1>2, <1>4, <2>1, QuietSite DEF StartInv
<1>5. CASE LoadNextPage
  BY <1>2, <1>4, <1>5 DEF LoadNextPage, MayLoad, StartInv, server, tiles
<1>6. CASE Logout \/ ServePage \/ PageFails \/ PageUnauthorized \/ UNCHANGED vars
           \/ \E a \in Assets : Upload(a)
  BY <1>2, <1>4, <1>6
  DEF Logout, ServePage, PageFails, PageUnauthorized, Upload, vars, server, walk, tiles,
      StartInv, loading
<1>7. CASE PageArrives
  <2>1. Known' <=> Known
    BY <1>7 DEF PageArrives, Known
  <2>. QED
    BY <1>2, <1>7, <2>1, PageArrivesStart, QuietSite DEF PageArrives, server
<1>8. ASSUME NEW n \in Listed, ServeList(n) PROVE StartInv' /\ SiteInv'
  <2>1. Known' <=> Known
    BY <1>8, ServeListKnows
  <2>2. lists' # <<>>
    BY <1>8 DEF ServeList, Listed
  <2>. QED
    BY <1>2, <1>8, <2>1, <2>2, QuietSite DEF ServeList, StartInv, server, tiles
<1>9. ASSUME NEW n \in Listed, ListArrives(n) \/ ListFails(n) PROVE StartInv' /\ SiteInv'
  <2>1. ListArrives(n) /\ lists[n].got \in MapsOf(media)
    BY <1>9 DEF ListArrives, ListFails, ListEnds, Calm
  <2>2. SiteInv'
    BY <1>2, <2>1, ListSite DEF ListArrives, ListEnds, server
  <2>3. n \in DOMAIN lists' /\ lists'[n] = None
    BY <2>1 DEF ListArrives, ListEnds, Listed
  <2>. QED
    BY <2>2, <2>3 DEF StartInv, Known
<1>10. ASSUME NEW a \in Assets, Click(a) PROVE StartInv' /\ SiteInv'
  <2>1. Known'
    BY <1>2, <1>10 DEF Click, StartInv, Known
  <2>2. UNCHANGED <<lists, page, signedIn>>
    BY <1>10 DEF Click, walk
  <2>. QED
    BY <1>2, <1>10, <2>1, <2>2, ClickSite DEF StartInv, loading
<1>11. ASSUME NEW n \in Open PROVE Known /\ lists # <<>>
  BY <1>2 DEF StartInv, Open, Known
<1>12. ASSUME NEW n \in Open, UNCHANGED lists, SiteInv' PROVE StartInv' /\ SiteInv'
  BY <1>11, <1>12 DEF StartInv, Known
<1>13. ASSUME NEW n \in Open,
              ServeFind(n) \/ ServeAdd(n) \/ ServeRemove(n) \/ ServeRefuses(n) \/ Answered(n)
       PROVE  StartInv' /\ SiteInv'
  <2>1. SiteInv'
    BY <1>2, <1>13, ServeFindSite, ServeAddSite, ServeRemoveSite, ServeRefusesSite, AnsweredSite
  <2>. QED
    BY <1>12, <1>13, <2>1 DEF ServeFind, ServeAdd, ServeRemove, ServeRefuses, Answered
<1>14. ASSUME NEW n \in Open, CallLost(n) \/ NobodyHears(n) PROVE FALSE
  BY <1>2, <1>14 DEF CallLost, NobodyHears, Calm, SiteInv, CallInv
<1>. QED
  BY <1>3, <1>5, <1>6, <1>7, <1>8, <1>9, <1>10, <1>13, <1>14 DEF Next

----------------------------------------------------------------------------
\* The variables that neither the walk nor the toggles speak of.
RestTypeOK ==
  /\ {signedIn, exhausted} \subseteq BOOLEAN
  /\ raced \subseteq {"page", "early", "list", "double", "lost", "unsaved"}
  /\ working \subseteq Assets

\* Every step keeps their types.
LEMMA StepRest == RestTypeOK /\ [Next]_vars => RestTypeOK'
<1> SUFFICES ASSUME RestTypeOK, [Next]_vars PROVE RestTypeOK'
  OBVIOUS
<1>1. signedIn' \in BOOLEAN /\ exhausted' \in BOOLEAN
  BY DEF RestTypeOK, Next, SignIn, Refresh, Reload, Logout, LoadNextPage, ServePage,
         PageArrives, Ends, PageFails, PageUnauthorized, ServeList, ListArrives, ListFails,
         ListEnds, ServeFind, ServeAdd, ServeRemove, ServeRefuses, Answered, CallLost,
         NobodyHears, Click, Upload, vars, walk
<1>2. raced' \subseteq {"page", "early", "list", "double", "lost", "unsaved"}
  BY DEF RestTypeOK, Next, SignIn, Refresh, Reload, Logout, LoadNextPage, ServePage,
         PageArrives, PageFails, PageUnauthorized, ServeList, ListArrives, ListFails,
         ListEnds, ServeFind, ServeAdd, ServeRemove, ChangedUnsaved, ServeRefuses, Answered,
         CallLost, NobodyHears, Click, Upload, vars
<1>3. working' \subseteq Assets
  BY DEF RestTypeOK, Next, SignIn, Refresh, Reload, Logout, LoadNextPage, ServePage,
         PageArrives, PageFails, PageUnauthorized, ServeList, ListArrives, ListFails,
         ListEnds, ServeFind, ServeAdd, ServeRemove, ServeRefuses, Answered, CallLost,
         NobodyHears, Click, Upload, Idle, vars, tiles
<1>. QED
  BY <1>1, <1>2, <1>3 DEF RestTypeOK

\* Every variable of the gallery has its type, and the offset, the pages and
\* the calls are within the library and the clicks there were.
THEOREM GalleryTypes == Spec => []TypeOK
<1>1. Init => RestTypeOK
  BY DEF Init, RestTypeOK
<1>2. GalleryInv /\ WInv /\ RestTypeOK => TypeOK
  BY DEF GalleryInv, ToggleTypeOK, WInv, WalkTypeOK, RestTypeOK, TypeOK
<1>. QED
  BY ToggleInvariant, InitWalk, StepWalk, <1>1, StepRest, <1>2, PTL DEF Spec

\* With nothing in flight the map is right about every photograph, and the
\* toggles follow the map.
LEMMA AtRestTruthful == GalleryInv /\ SpinInv /\ IndicatorInv => IndicatorTruthful
<1> SUFFICES ASSUME GalleryInv, SpinInv, IndicatorInv PROVE IndicatorTruthful
  OBVIOUS
<1>1. ASSUME raced \ {"page"} = {}, Open = {}, NEW a \in Assets, toggle[a] # None
      PROVE  toggle[a] = Up(ContentOf[a])
  <2>1. StartInv /\ SiteInv /\ "early" \notin raced
    BY <1>1 DEF IndicatorInv, Calm
  <2>2. ContentOf[a] \in Contents
    BY DEF Contents
  <2>3. Truth(ContentOf[a])
    BY <1>1, <2>1, <2>2 DEF StartInv, SiteInv, MapInv, Pending
  <2>4. toggle[a] = (published[ContentOf[a]] # None)
    BY <1>1, <2>1 DEF GalleryInv, TogglesFollowMap
  <2>5. published[ContentOf[a]] \in Ids \cup {None}
    BY <2>2 DEF GalleryInv, ToggleTypeOK, Map
  <2>6. (published[ContentOf[a]] # None) <=> Up(ContentOf[a])
    BY <2>3, <2>5 DEF Truth, Up
  <2>. QED
    BY <2>4, <2>6 DEF Up
<1>. QED
  BY <1>1 DEF SpinInv, IndicatorTruthful, Up

\* Spinners end, and a toggle at rest says what the media site shows, unless
\* one of the overlaps that raced records has happened.
THEOREM IndicatorIsTruthful == Spec => []IndicatorTruthful
<1>1. TypeOK => working \subseteq Assets
  BY DEF TypeOK
<1>2. ASSUME GalleryInv, TypeOK, SpinInv, [Next]_vars PROVE SpinInv'
  BY <1>1, <1>2, StepSpin
<1>3. ASSUME GalleryInv, IndicatorInv, [Next]_vars PROVE IndicatorInv'
  BY <1>3, StepFresh, StepIndicator DEF IndicatorInv
<1>. QED
  BY ToggleInvariant, GalleryTypes, InitSpin, InitIndicator, <1>2, <1>3, AtRestTruthful, PTL
  DEF Spec
============================================================================
