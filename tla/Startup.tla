-------------------------------- MODULE Startup --------------------------------
(***************************************************************************)
(* The main goroutine from the start of the process to the shutdown        *)
(* (cmd/bot/main.go): configuration, announcement, database and migrations *)
(* (internal/storage/postgres/postgres.go), the API credentials of the     *)
(* exchange (internal/exchange/polymarket/client.go), the engine, the      *)
(* signal.  An error before the engine runs ends the process, and the      *)
(* container runtime starts it again: what the database and the exchange   *)
(* remember of the failed start is what the next one finds.  What follows  *)
(* cancel() is the subject of MarketLifecycle.                             *)
(***************************************************************************)
EXTENDS Naturals

CONSTANT MaxFaults   \* bound: failing, refused or hanging calls

ASSUME StartupAssumption == MaxFaults \in Nat

VARIABLES
  mainPC,    \* the main goroutine
  migrated,  \* is the schema in the database?
  apiKey,    \* does the account have an API key at the exchange?
  l2Creds,   \* what the client holds: nothing, the key or an empty reply
  faults

startVars == <<mainPC, migrated, apiKey, l2Creds, faults>>

StartupTypeOK ==
  /\ mainPC \in {"load", "hello", "storage", "client", "create", "running",
                 "goodbye", "cancelled", "hung", "exited"}
  /\ migrated \in BOOLEAN /\ apiKey \in BOOLEAN
  /\ l2Creds \in {"none", "key", "empty"}
  /\ mainPC \in {"load", "hello", "storage", "client", "create"} => l2Creds = "none"
  /\ faults \in 0 .. MaxFaults

StartupInit ==
  /\ mainPC = "load" /\ migrated = FALSE /\ apiKey \in BOOLEAN
  /\ l2Creds = "none" /\ faults = 0

Fault == faults < MaxFaults /\ faults' = faults + 1

Proceed(from, to) == mainPC = from /\ mainPC' = to

\* config.Load reads and validates the file.
Load == Proceed("load", "hello") /\ UNCHANGED <<migrated, apiKey, l2Creds, faults>>

\* SendInfo returns: Telegram answered or the ten seconds of the client are
\* over, whose error is logged to standard error.
SendInfo ==
  /\ Proceed("hello", "storage") \/ Proceed("goodbye", "cancelled")
  /\ UNCHANGED <<migrated, apiKey, l2Creds, faults>>

\* The database answers; the migrations that are missing run.
InitStorage ==
  /\ Proceed("storage", "client") /\ migrated' = TRUE
  /\ UNCHANGED <<apiKey, l2Creds, faults>>

\* callL1GetApiCreds, first choice of getOrDeriveL2Creds: the key of the
\* account, if there is one.
DeriveCreds ==
  /\ apiKey /\ Proceed("client", "running") /\ l2Creds' = "key"
  /\ UNCHANGED <<migrated, apiKey, faults>>

\* Variant: the reply is cached before the error is looked at.
DeriveFailsCached ==
  /\ Proceed("client", "create")
  /\ Fault \/ (~apiKey /\ UNCHANGED faults)
  /\ l2Creds' = "empty"
  /\ UNCHANGED <<migrated, apiKey>>

\* Variant: there is no second choice.
DeriveFailsFatally ==
  /\ Proceed("client", "exited")
  /\ Fault \/ (~apiKey /\ UNCHANGED faults)
  /\ UNCHANGED <<migrated, apiKey, l2Creds>>

\* Any error of it leads to the second choice.
DeriveFails ==
  /\ Proceed("client", "create")
  /\ Fault \/ (~apiKey /\ UNCHANGED faults)
  /\ UNCHANGED <<migrated, apiKey, l2Creds>>

\* callL1PostApiCreds: a key is created for an account without one.  Its
\* fields are not looked at: a reply that lacks them passes.
CreateCreds ==
  /\ Proceed("create", "running")
  /\ \/ ~apiKey /\ apiKey' = TRUE /\ l2Creds' = "key" /\ UNCHANGED faults
     \/ Fault /\ l2Creds' = "empty" /\ apiKey' \in {apiKey, TRUE}
  /\ UNCHANGED migrated

\* Variant: the error of the migrations is only logged.
StartFailsOn ==
  /\ Fault /\ mainPC \in {"load", "storage", "client", "create"}
  /\ mainPC' = IF mainPC = "storage" THEN "client" ELSE "exited"
  /\ migrated' \in IF mainPC = "storage" THEN {migrated, TRUE} ELSE {migrated}
  /\ apiKey' \in IF mainPC = "create" THEN {apiKey, TRUE} ELSE {apiKey}
  /\ UNCHANGED l2Creds

\* os.Exit(1) or log.Fatal, with or without the effect of the call that
\* failed.  A key that exists is not created again.
StartFails ==
  /\ mainPC \in {"load", "storage", "client", "create"}
  /\ Fault \/ (mainPC = "create" /\ apiKey /\ UNCHANGED faults)
  /\ mainPC' = "exited"
  /\ migrated' \in IF mainPC = "storage" THEN {migrated, TRUE} ELSE {migrated}
  /\ apiKey' \in IF mainPC = "create" THEN {apiKey, TRUE} ELSE {apiKey}
  /\ UNCHANGED l2Creds

\* The database or the exchange never answers, and no timeout is set.
StartHangs ==
  /\ Fault /\ mainPC \in {"storage", "client", "create"}
  /\ mainPC' = "hung"
  /\ UNCHANGED <<migrated, apiKey, l2Creds>>

\* The signal; the engine goes on, and logs, until it is stopped.
Signal == Proceed("running", "goodbye") /\ UNCHANGED <<migrated, apiKey, l2Creds, faults>>

\* restart: unless-stopped
Restart ==
  /\ Proceed("exited", "load") /\ l2Creds' = "none"
  /\ UNCHANGED <<migrated, apiKey, faults>>

Start ==
  \/ Load \/ SendInfo \/ InitStorage \/ DeriveCreds \/ DeriveFails \/ CreateCreds
  \/ StartFails \/ StartHangs \/ Restart
=============================================================================
