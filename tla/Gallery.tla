------------------------------ MODULE Gallery ------------------------------
(***************************************************************************)
(* The web gallery (phone-sync-server/src/gallery.js): pages of the        *)
(* library by offset, the map of what is published, and the publish        *)
(* toggles, against a library that grows (list_media, records_page) and a  *)
(* publish endpoint that looks for the content before it renders (module   *)
(* PublishStore has it in full).                                           *)
(*                                                                         *)
(* The script is single-threaded: an action is what runs between two       *)
(* awaits.  In flight may be one page request (`loading'), one list of the *)
(* published per reload, and one request per click; a toggle that a reload *)
(* has thrown out of the grid still waits for its answer.                  *)
(*                                                                         *)
(* `raced' remembers the overlaps and failures since a reload last found   *)
(* everything at rest, each of which breaks a promise that holds without   *)
(* it (README, section 2).                                                 *)
(*                                                                         *)
(* A definition named Mut... is no part of the model: it is the plausible  *)
(* bug that the mutation runs put in the place of the definition below it. *)
(***************************************************************************)
EXTENDS Naturals, Sequences, SequencesExt, FiniteSetsExt

CONSTANTS
  Assets,      \* asset ids, numbered in listing order: newest first
  ContentOf,   \* asset -> content id
  PageSize,    \* PAGE_SIZE
  MaxReloads,  \* bound on reload(): page load, sign-ins, Refresh
  MaxClicks,   \* bound on clicks of toggles
  None

Contents == {ContentOf[a] : a \in Assets}

\* Item 0 may be up from the start; click n publishes under public id n.
Ids == 0 .. MaxClicks

ASSUME AssetsAssumption == Assets \subseteq Nat
ASSUME BoundsAssumption == PageSize \in Nat \ {0} /\ MaxReloads \in Nat \ {0} /\ MaxClicks \in Nat
ASSUME NoneAssumption == None \notin Contents /\ None \notin Ids /\ None \notin BOOLEAN

VARIABLES
  library,    \* assets on the server
  media,      \* public id -> content: the published set
  signedIn,   \* the script has a token
  items,      \* assets loaded so far
  exhausted,  \* every page has been loaded
  page,       \* the page request and its answer, or None
  lists,      \* per reload(): its request for the published set; None when over
  published,  \* the script's map: content -> public id
  toggle,     \* asset -> None without a tile, or the switch's position
  working,    \* toggles that show the spinner
  calls,      \* per click: its request; None when over
  walked,     \* history: the library when this walk of it began
  raced       \* history: the overlaps and failures that still tell

server == <<library, media>>
walk == <<items, exhausted, page, walked>>
tiles == <<toggle, working>>
vars == <<server, signedIn, walk, lists, published, tiles, calls, raced>>

loading == page # None
ContentOn(n) == ContentOf[calls[n].asset]
Listed == {n \in DOMAIN lists : lists[n] # None}
Open == {n \in DOMAIN calls : calls[n] # None}

\* What list_published answers: an item of each published content.
MapsOf(m) == {f \in [Contents -> Ids \cup {None}] : \A c \in Contents :
                IF \E i \in Ids : m[i] = c THEN f[c] # None /\ m[f[c]] = c ELSE f[c] = None}

Request(offset) == [offset |-> offset, answered |-> FALSE, got |-> <<>>, count |-> 0]
NothingUp == [c \in Contents |-> None]

Init ==
  /\ library \in SUBSET Assets /\ IsFiniteSet(library)
  /\ \E c \in Contents \cup {None} : media = [i \in Ids |-> IF i = 0 THEN c ELSE None]
  /\ signedIn = FALSE
  /\ items = <<>> /\ exhausted = FALSE /\ page = None
  /\ lists = <<>> /\ published = NothingUp
  /\ toggle = [a \in Assets |-> None] /\ working = {}
  /\ calls = <<>>
  /\ walked = {} /\ raced = {}

----------------------------------------------------------------------------
\* reload(): the grid is emptied and the published set asked for.  A page
\* request in flight goes on, and so do the calls of toggles thrown away.
Reload ==
  /\ Len(lists) < MaxReloads
  /\ lists' = Append(lists, [stage |-> "asked", got |-> NothingUp])
  /\ items' = <<>> /\ exhausted' = FALSE
  /\ toggle' = [a \in Assets |-> None] /\ working' = {}
  /\ calls' = [n \in DOMAIN calls |->
                IF calls[n] = None THEN None ELSE [calls[n] EXCEPT !.own = FALSE]]
  /\ walked' = library
  /\ raced' = IF loading THEN raced \cup {"page"} ELSE raced
  /\ UNCHANGED <<server, page, published>>

\* The page opens with a token in localStorage, or the login form is sent.
SignIn == ~signedIn /\ signedIn' = TRUE /\ Reload

Refresh == signedIn /\ Reload /\ UNCHANGED signedIn

Logout ==
  /\ signedIn
  /\ signedIn' = FALSE
  /\ UNCHANGED <<server, walk, lists, published, tiles, calls, raced>>

----------------------------------------------------------------------------
\* loadNextPage().
MayLoad == ~loading /\ ~exhausted /\ signedIn

\* Called by the observer of the sentinel, by Retry, by step(), and at the end
\* of a page that does not fill the window.
LoadNextPage ==
  /\ MayLoad
  /\ page' = Request(Len(items))
  /\ UNCHANGED <<server, signedIn, items, exhausted, walked, lists, published, tiles, calls, raced>>

\* records_page: newest first, skip and take.
Newer(a) == {b \in library : b < a}

Listing == [i \in 1 .. Cardinality(library) |->
              CHOOSE a \in library : Cardinality(Newer(a)) = i - 1]

ServePage ==
  /\ loading /\ ~page.answered
  /\ page' = [page EXCEPT
       !.answered = TRUE,
       !.got = SubSeq(Listing, page.offset + 1, Min({page.offset + PageSize, Len(Listing)})),
       !.count = Len(Listing)]
  /\ UNCHANGED <<server, signedIn, items, exhausted, walked, lists, published, tiles,
                 calls, raced>>

MutStopEarly(n, total, got) == n + 1 >= total \/ got = <<>>

\* Every page has been loaded.
Ends(n, total, got) == n >= total \/ got = <<>>

\* tileFor: a tile that exists is reused, a new toggle reads the map as it is.
Drawn(got) ==
  [a \in Assets |-> IF toggle[a] = None /\ a \in ToSet(got)
                    THEN published[ContentOf[a]] # None
                    ELSE toggle[a]]

PageArrives ==
  /\ loading /\ page.answered
  /\ items' = items \o page.got
  /\ exhausted' = Ends(Len(items'), page.count, page.got)
  /\ toggle' = Drawn(page.got)
  /\ page' = None
  /\ raced' = IF Drawn(page.got) # toggle /\ Listed # {} THEN raced \cup {"early"} ELSE raced
  /\ UNCHANGED <<server, signedIn, walked, lists, published, working, calls>>

PageFails ==
  /\ loading
  /\ page' = None
  /\ UNCHANGED <<server, signedIn, items, exhausted, walked, lists, published, tiles, calls, raced>>

\* 401: logout().
PageUnauthorized ==
  /\ loading /\ ~page.answered
  /\ signedIn' = FALSE /\ page' = None
  /\ UNCHANGED <<server, items, exhausted, walked, lists, published, tiles, calls, raced>>

----------------------------------------------------------------------------
\* loadPublished(), which reload() awaits before it loads the first page.
ServeList(n) ==
  /\ lists[n].stage = "asked"
  /\ \E f \in MapsOf(media) : lists' = [lists EXCEPT ![n] = [stage |-> "answered", got |-> f]]
  /\ UNCHANGED <<server, signedIn, walk, published, tiles, calls, raced>>

\* Nothing is drawn and no call under way, and no photograph is up twice.
AtRest ==
  /\ Open = {} /\ \A a \in Assets : toggle[a] = None
  /\ \A i, j \in Ids : media[i] # None /\ media[i] = media[j] => i = j

\* The map is replaced; the toggles that are already drawn stay as they are.
ListEnds(n, map, past) ==
  /\ published' = map
  /\ lists' = [lists EXCEPT ![n] = None]
  /\ page' = IF MayLoad THEN Request(Len(items)) ELSE page
  /\ raced' = past
  /\ UNCHANGED <<server, signedIn, items, exhausted, walked, tiles, calls>>

\* A true list that finds everything at rest repairs what was wrong before.
ListArrives(n) ==
  /\ lists[n].stage = "answered"
  /\ ListEnds(n, lists[n].got,
              IF lists[n].got \notin MapsOf(media) THEN raced \cup {"list"}
              ELSE IF AtRest THEN raced \cap {"page"} ELSE raced)

ListFails(n) == ListEnds(n, published, raced \cup {"list"})

----------------------------------------------------------------------------
\* togglePublish().  The pointer cannot reach a toggle that shows the spinner
\* (gallery.css); the keyboard can, and so can the toggle of a twin.
Click(a) ==
  /\ Len(calls) < MaxClicks
  /\ toggle[a] # None
  /\ LET id == published[ContentOf[a]]
     IN  calls' = Append(calls, [asset |-> a, publishing |-> id = None, id |-> id,
                                 stage |-> "asked", own |-> TRUE, heard |-> TRUE])
  /\ working' = working \cup {a}
  /\ raced' = IF \E n \in Open : ContentOn(n) = ContentOf[a]
              THEN raced \cup {"double"} ELSE raced
  /\ UNCHANGED <<server, signedIn, walk, lists, published, toggle>>

\* publish_media: an item of the content is looked for, then one is rendered.
ServeFind(n) ==
  /\ calls[n].stage = "asked" /\ calls[n].publishing
  /\ \/ \E i \in Ids : /\ media[i] = ContentOn(n)
                       /\ calls' = [calls EXCEPT ![n].stage = "done", ![n].id = i]
     \/ /\ \A i \in Ids : media[i] # ContentOn(n)
        /\ calls' = [calls EXCEPT ![n].stage = "rendering"]
  /\ UNCHANGED <<server, signedIn, walk, lists, published, tiles, raced>>

\* The set has changed and persist() fails: 500.
ChangedUnsaved(n) ==
  /\ calls' = [calls EXCEPT ![n].stage = "refused"]
  /\ raced' = raced \cup {"unsaved"}

ServeAdd(n) ==
  /\ calls[n].stage = "rendering"
  /\ media' = [media EXCEPT ![n] = ContentOn(n)]
  /\ \/ calls' = [calls EXCEPT ![n].stage = "done", ![n].id = n] /\ UNCHANGED raced
     \/ ChangedUnsaved(n)
  /\ UNCHANGED <<library, signedIn, walk, lists, published, tiles>>

\* unpublish: that there is no such item is an answer as good as any.
ServeRemove(n) ==
  /\ calls[n].stage = "asked" /\ ~calls[n].publishing
  /\ media' = [media EXCEPT ![calls[n].id] = None]
  /\ \/ calls' = [calls EXCEPT ![n].stage = "done"] /\ UNCHANGED raced
     \/ media[calls[n].id] # None /\ ChangedUnsaved(n)
  /\ UNCHANGED <<library, signedIn, walk, lists, published, tiles>>

\* 401, 400 without the record, or 500 before the set has changed.
ServeRefuses(n) ==
  /\ calls[n].stage \in {"asked", "rendering"}
  /\ calls' = [calls EXCEPT ![n].stage = "refused"]
  /\ UNCHANGED <<server, signedIn, walk, lists, published, tiles, raced>>

MutRecordsFailure(n) ==
  [published EXCEPT ![ContentOn(n)] = IF calls[n].publishing THEN n ELSE None]

\* publishItem and unpublishItem on their answer.
Outcome(n) ==
  IF calls[n].stage # "done" THEN published
  ELSE [published EXCEPT ![ContentOn(n)] = IF calls[n].publishing THEN calls[n].id ELSE None]

MutForgetsTwin(n, map) ==
  [toggle EXCEPT ![calls[n].asset] = IF @ = None THEN None ELSE map[ContentOn(n)] # None]

\* syncToggles: all toggles of the content move together.
Synced(n, map) ==
  [a \in Assets |-> IF toggle[a] # None /\ ContentOf[a] = ContentOn(n)
                    THEN map[ContentOf[a]] # None ELSE toggle[a]]

\* `finally': the spinner of this call's toggle, if that is still in the grid.
Idle(n) == IF calls[n].own THEN working \ {calls[n].asset} ELSE working

\* The answer to a click.
Answered(n) ==
  /\ calls[n].stage \in {"done", "refused"} /\ calls[n].heard
  /\ published' = Outcome(n)
  /\ toggle' = Synced(n, published')
  /\ working' = Idle(n)
  /\ calls' = [calls EXCEPT ![n] = None]
  /\ UNCHANGED <<server, signedIn, walk, lists, raced>>

\* The connection is lost; whatever the server is doing for it goes on.
CallLost(n) ==
  /\ calls[n].heard
  /\ toggle' = Synced(n, published)
  /\ working' = Idle(n)
  /\ calls' = [calls EXCEPT ![n].heard = FALSE, ![n].own = FALSE]
  /\ raced' = raced \cup {"lost"}
  /\ UNCHANGED <<server, signedIn, walk, lists, published>>

\* The server has finished a call nobody waits for.
NobodyHears(n) ==
  /\ calls[n].stage \in {"done", "refused"} /\ ~calls[n].heard
  /\ calls' = [calls EXCEPT ![n] = None]
  /\ UNCHANGED <<server, signedIn, walk, lists, published, tiles, raced>>

\* The phone uploads while the page is open.
Upload(a) ==
  /\ a \notin library
  /\ library' = library \cup {a}
  /\ UNCHANGED <<media, signedIn, walk, lists, published, tiles, calls, raced>>

----------------------------------------------------------------------------
Next ==
  \/ SignIn \/ Refresh \/ Logout
  \/ LoadNextPage \/ ServePage \/ PageArrives \/ PageFails \/ PageUnauthorized
  \/ \E n \in Listed : ServeList(n) \/ ListArrives(n) \/ ListFails(n)
  \/ \E n \in Open : \/ ServeFind(n) \/ ServeAdd(n) \/ ServeRemove(n) \/ ServeRefuses(n)
                     \/ Answered(n) \/ CallLost(n) \/ NobodyHears(n)
  \/ \E a \in Assets : Click(a) \/ Upload(a)

Spec == Init /\ [][Next]_vars

----------------------------------------------------------------------------
\* Properties.

PageRequest == [offset : Nat, answered : BOOLEAN, got : Seq(Assets), count : Nat]
Map == [Contents -> Ids \cup {None}]
ListRequest == [stage : {"asked", "answered"}, got : Map]
Call == [asset : Assets, publishing : BOOLEAN, id : Ids \cup {None},
         stage : {"asked", "rendering", "done", "refused"}, own : BOOLEAN, heard : BOOLEAN]

ASSUME NoRequestAssumption ==
  None \notin PageRequest /\ None \notin ListRequest /\ None \notin Call

TypeOK ==
  /\ library \subseteq Assets /\ walked \subseteq library
  /\ media \in [Ids -> Contents \cup {None}]
  /\ {signedIn, exhausted} \subseteq BOOLEAN
  /\ items \in Seq(Assets)
  /\ page = None \/ page \in PageRequest
  /\ lists \in Seq(ListRequest \cup {None}) /\ published \in Map
  /\ toggle \in [Assets -> BOOLEAN \cup {None}]
  /\ calls \in Seq(Call \cup {None})
  /\ raced \subseteq {"page", "early", "list", "double", "lost", "unsaved"}
  /\ working \subseteq Assets

\* A gallery that says it has everything has every photo that was there when
\* it started from the first page, whatever the phone has uploaded meanwhile
\* (records_page's order, loadNextPage's offset and its test of the end).
\* After a reload with a page request in flight it may not: see raced.
NothingSkipped == exhausted /\ "page" \notin raced => walked \subseteq ToSet(items)

\* "Throws the grid away and reloads from the first page" (gallery.js:130):
\* what NothingSkipped says, after any reload.  No run checks it: TLC refutes
\* it, by a page of the old walk that arrives in the new one.
RestartShowsAll == exhausted => walked \subseteq ToSet(items)

\* All toggles of a photograph agree with the script's map, also those of its
\* twins and those a reload has drawn while a publish was under way
\* (syncToggles, toggleFor).  The exception is a tile drawn before the list of
\* a reload has arrived.
TogglesFollowMap ==
  "early" \notin raced =>
    \A a \in Assets : toggle[a] # None => toggle[a] = (published[ContentOf[a]] # None)

\* "On means this photograph is on media.jasonmcaffee.com, off means it is not"
\* (gallery.js:435), at rest and after requests that came one at a time and were
\* all answered.  No run checks it: TLC refutes it, by a publish answered 500
\* because its persist() failed, after the item was added.
ShowsSavedState ==
  (raced \subseteq {"page", "unsaved"} /\ Listed = {} /\ Open = {}) =>
    \A a \in Assets : toggle[a] # None => toggle[a] = (\E i \in Ids : media[i] = ContentOf[a])

\* A spinner always has a request behind it that will take it away
\* (togglePublish's `finally').  Once nothing is in flight, a toggle is on exactly
\* when its photograph is on the media site (togglePublish, loadPublished), unless,
\* since a reload last found everything at rest, a tile was drawn early, a list
\* arrived late or failed, an answer was lost, the server could not save its
\* index, or a photograph had two requests at once.
IndicatorTruthful ==
  /\ \A a \in working : /\ toggle[a] # None
                        /\ \E n \in Open : calls[n].asset = a /\ calls[n].own
  /\ (raced \ {"page"} = {} /\ Listed = {} /\ Open = {}) =>
       \A a \in Assets : toggle[a] # None => toggle[a] = (\E i \in Ids : media[i] = ContentOf[a])
============================================================================
