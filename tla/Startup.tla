------------------------------ MODULE Startup ------------------------------
(***************************************************************************)
(* The life of the server process (phone-sync-server/src/main.rs): it      *)
(* resolves the secret its tokens are signed with (config.rs), binds its   *)
(* address, serves, and is stopped or killed; and the tokens it signs and  *)
(* takes (auth.rs, login in handlers.rs).                                  *)
(*                                                                         *)
(* A token is the secret it was signed with; secrets are numbered as they  *)
(* are drawn.  The signature and the clock belong to the JWT library.      *)
(*                                                                         *)
(* A definition named Mut... is no part of the model: it is the plausible  *)
(* bug that the mutation runs put in the place of the definition below it. *)
(***************************************************************************)
EXTENDS Naturals

CONSTANTS
  Attempts,    \* bind_with_retry's ATTEMPTS
  MaxHold,     \* sleeps for which the old process's port may stay taken
  MaxStarts,   \* processes started
  MaxLapses    \* times that the secret's file cannot be read or written

ASSUME StartupAssumption ==
  /\ Attempts \in Nat \ {0} /\ MaxHold \in Nat /\ MaxStarts \in Nat /\ MaxLapses \in Nat

VARIABLES
  phase,    \* "down", "bind", "serving", "stopping" or, with no port, "failed"
  env,      \* PHONE_SYNC_JWT_SECRET is set
  file,     \* the secret in the jwt-secret file; none if that is absent or empty
  secret,   \* config.jwt_secret
  attempt,  \* bind_with_retry's counter
  held,     \* sleeps until the address is free
  tokens,   \* tokens signed so far that have not expired
  drawn,    \* secrets drawn
  starts,   \* history: processes started
  lapses    \* history: starts at which the file could not be read or written

life == <<phase, env, file, secret, attempt, held, tokens, drawn, starts, lapses>>

FromEnv == 0

SInit ==
  /\ phase = "down" /\ env \in BOOLEAN /\ file = {} /\ secret = FromEnv
  /\ attempt = 0 /\ held = 0 /\ tokens = {} /\ drawn = 0
  /\ starts = 0 /\ lapses = 0

\* The process is up with its secret and goes on to bind.
Loaded(s) ==
  /\ phase' = "bind" /\ secret' = s /\ attempt' = 1
  /\ starts' = starts + 1
  /\ UNCHANGED <<env, held, tokens>>

Fresh == drawn + 1
Written == file # {}

\* resolve_jwt_secret takes the one in the environment.
LoadEnv ==
  /\ phase = "down" /\ starts < MaxStarts /\ env
  /\ Loaded(FromEnv) /\ UNCHANGED <<file, drawn, lapses>>

LoadFile ==
  /\ phase = "down" /\ starts < MaxStarts /\ ~env /\ Written
  /\ \E s \in file : Loaded(s)
  /\ UNCHANGED <<file, drawn, lapses>>

\* A file that is not there, is empty, or cannot be read is written anew.
Unreadable ==
  \/ ~Written /\ lapses' = lapses
  \/ Written /\ lapses < MaxLapses /\ lapses' = lapses + 1

MutKeepInMemory ==
  /\ phase = "down" /\ starts < MaxStarts /\ ~env /\ Unreadable
  /\ drawn' = Fresh /\ UNCHANGED file /\ Loaded(Fresh)

\* load_or_create_jwt_secret draws a secret and writes it.
CreateFile ==
  /\ phase = "down" /\ starts < MaxStarts /\ ~env /\ Unreadable
  /\ drawn' = Fresh /\ file' = {Fresh} /\ Loaded(Fresh)

\* The write fails, or the read and the write: the secret is in memory only, and
\* the file may have been cut to nothing.
CreateFails ==
  /\ phase = "down" /\ starts < MaxStarts /\ ~env /\ lapses < MaxLapses
  /\ lapses' = lapses + 1
  /\ drawn' = Fresh /\ file' \in {file, {}} /\ Loaded(Fresh)

\* The process dies between the creation of the file and its write.
CreateCut ==
  /\ phase = "down" /\ starts < MaxStarts /\ ~env /\ Unreadable
  /\ file' = {} /\ starts' = starts + 1
  /\ UNCHANGED <<phase, env, secret, attempt, held, tokens, drawn>>

Binds ==
  /\ phase = "bind" /\ held = 0
  /\ phase' = "serving" /\ attempt' = 0
  /\ UNCHANGED <<env, file, secret, held, tokens, drawn, starts, lapses>>

\* The address is in use: sleep and try again, up to the last attempt.
BindRetries ==
  /\ phase = "bind" /\ held > 0
  /\ IF attempt < Attempts THEN phase' = "bind" /\ attempt' = attempt + 1 /\ held' = held - 1
     ELSE phase' = "failed" /\ UNCHANGED <<attempt, held>>
  /\ UNCHANGED <<env, file, secret, tokens, drawn, starts, lapses>>

\* The address does not resolve, or the listener cannot be made for another
\* reason: main returns the error.
BindFails ==
  /\ phase = "bind" /\ phase' = "failed"
  /\ UNCHANGED <<env, file, secret, attempt, held, tokens, drawn, starts, lapses>>

\* login signs a token with the process's secret.
Login ==
  /\ phase = "serving"
  /\ tokens' = tokens \cup {secret}
  /\ UNCHANGED <<phase, env, file, secret, attempt, held, drawn, starts, lapses>>

\* ctrl_c: no new connection is taken.
StopAsked ==
  /\ phase = "serving" /\ phase' = "stopping"
  /\ UNCHANGED <<env, file, secret, attempt, held, tokens, drawn, starts, lapses>>

\* The process is gone; the system takes its time to free the address it used.
Gone ==
  /\ phase' = "down"
  /\ held' \in IF phase \in {"serving", "stopping"} THEN 0 .. MaxHold ELSE {held}
  /\ UNCHANGED <<env, file, secret, attempt, tokens, drawn, starts, lapses>>

----------------------------------------------------------------------------
\* require_auth: the token of the Authorization header, or else of the query.
Taken(header, query) == (IF header # {} THEN header ELSE query) = {secret}

StartupTypeOK ==
  /\ phase \in {"down", "bind", "serving", "stopping", "failed"}
  /\ env \in BOOLEAN /\ file \in SUBSET (1 .. drawn)
  /\ secret \in 0 .. drawn /\ attempt \in 0 .. Attempts /\ held \in 0 .. MaxHold
  /\ tokens \subseteq 0 .. drawn /\ drawn \in Nat /\ starts \in 0 .. MaxStarts
  /\ lapses \in 0 .. MaxLapses

\* A token that has not expired is taken, in the header or in the query, by every
\* process started since, however many were killed and whenever, unless the
\* secret's file could once not be read or written: the secret "is generated once
\* and persisted in the data dir so tokens survive restarts" (config.rs:124-126).
TokensSurvive ==
  phase = "serving" /\ lapses = 0 =>
     \A t \in tokens : Taken({t}, {}) /\ Taken({}, {t})
============================================================================
