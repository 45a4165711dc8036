------------------------------ MODULE Library ------------------------------
(***************************************************************************)
(* What the media store promises its clients: contents are kept for ever,  *)
(* the catalogue names only contents that are kept and forgets no asset,   *)
(* and an upload is acknowledged only once both are so.                    *)
(***************************************************************************)
CONSTANTS Assets, Contents, None

VARIABLES
  held,     \* contents kept
  catalog,  \* asset -> content, or None
  acked     \* <<asset, content>> acknowledged

lvars == <<held, catalog, acked>>

Init == held = {} /\ catalog = [a \in Assets |-> None] /\ acked = {}

Keep(c) == held' = held \cup {c} /\ UNCHANGED <<catalog, acked>>

\* A catalogue is replaced whole: several records may reach it in one write.
Catalogue(new) ==
  /\ \A a \in Assets : new[a] # None => new[a] \in held
  /\ \A a \in Assets : catalog[a] # None => new[a] # None
  /\ catalog' = new
  /\ UNCHANGED <<held, acked>>

Acknowledge(a, c) ==
  /\ c \in held
  /\ catalog[a] # None
  /\ acked' = acked \cup {<<a, c>>}
  /\ UNCHANGED <<held, catalog>>

Next ==
  \/ \E c \in Contents : Keep(c)
  \/ \E new \in [Assets -> Contents \cup {None}] : Catalogue(new)
  \/ \E a \in Assets, c \in Contents : Acknowledge(a, c)

Spec == Init /\ [][Next]_lvars
=============================================================================
