----------------------------- MODULE Notifications -----------------------------
(***************************************************************************)
(* Telegram messages (internal/notify/telegram, cmd/bot/main.go).  Every   *)
(* goroutine that logs calls Write of the one TelegramWriter, which drops  *)
(* what comes within five seconds of the last message and hands the rest   *)
(* to a goroutine of its own; main announces start and shutdown itself.    *)
(* A Write that the level or the throttle ends changes nothing and is not  *)
(* a step.  lastSent is read and set without a lock: it is three words,    *)
(* of which the monotonic one decides, so a torn read has the outcome of   *)
(* the old value or of the new one, as here.  The steps of main are those  *)
(* of Startup.                                                             *)
(***************************************************************************)
EXTENDS Startup

CONSTANTS
  Loggers,   \* the goroutines that log
  Senders    \* bound: sending goroutines at one time

VARIABLES
  lastSent,  \* "fresh" for five seconds after a message
  window,    \* history: messages each logger sent since lastSent was "old"
  logger,    \* the Write of each logger
  current,   \* the sender its Write has begun: one or none
  open,      \* the senders whose context cancel() was not called for
  sender     \* the goroutines of Write

writerVars == <<lastSent, window, logger, current, open>>
vars == <<writerVars, sender, startVars>>

TypeOK ==
  /\ StartupTypeOK
  /\ lastSent \in {"old", "fresh"}
  /\ window \in [Loggers -> {0, 1, 2}]
  /\ logger \in [Loggers -> {"out", "checked", "sent"}]
  /\ current \in [Loggers -> SUBSET Senders]
  /\ open \subseteq Senders
  /\ sender \in [Senders -> {"free", "ready", "sending"}]

Init ==
  /\ StartupInit
  /\ lastSent = "old" /\ window = [l \in Loggers |-> 0]
  /\ logger = [l \in Loggers |-> "out"]
  /\ current = [l \in Loggers |-> {}] /\ open = {}
  /\ sender = [s \in Senders |-> "free"]

-----------------------------------------------------------------------------
(***************************************************************************)
(* TelegramWriter.Write.                                                   *)
(***************************************************************************)
\* The message passes the throttle.  There is no logger before main said hello.
Check(l) ==
  /\ mainPC \notin {"load", "hello", "exited"}
  /\ logger[l] = "out" /\ lastSent = "old"
  /\ logger' = [logger EXCEPT ![l] = "checked"]
  /\ UNCHANGED <<lastSent, window, current, open, sender, startVars>>

Unused(s) == sender[s] = "free" /\ \A l \in Loggers : s \notin current[l]

\* Variant: Write has a value receiver and sets lastSent of a copy.
StampCopy(l) ==
  \E s \in Senders :
    /\ logger[l] = "checked" /\ Unused(s)
    /\ logger' = [logger EXCEPT ![l] = "sent"]
    /\ window' = [window EXCEPT ![l] = IF @ = 0 THEN 1 ELSE 2]
    /\ current' = [current EXCEPT ![l] = {s}] /\ open' = open \cup {s}
    /\ sender' = [sender EXCEPT ![s] = "ready"]
    /\ UNCHANGED <<lastSent, startVars>>

\* lastSent is set, whatever it is by now, and the goroutine started.
Stamp(l) ==
  \E s \in Senders :
    /\ logger[l] = "checked" /\ Unused(s)
    /\ logger' = [logger EXCEPT ![l] = "sent"]
    /\ lastSent' = "fresh"
    /\ window' = [window EXCEPT ![l] = IF @ = 0 THEN 1 ELSE 2]
    /\ current' = [current EXCEPT ![l] = {s}] /\ open' = open \cup {s}
    /\ sender' = [sender EXCEPT ![s] = "ready"]
    /\ UNCHANGED startVars

\* Write returns without waiting for the goroutine; the deferred cancel runs,
\* and ends what it has not yet sent.
Return(l) ==
  /\ logger[l] = "sent"
  /\ logger' = [logger EXCEPT ![l] = "out"]
  /\ current' = [current EXCEPT ![l] = {}] /\ open' = open \ current[l]
  /\ UNCHANGED <<lastSent, window, sender, startVars>>

WindowEnds ==
  /\ lastSent = "fresh" /\ lastSent' = "old"
  /\ window' = [l \in Loggers |-> 0]
  /\ UNCHANGED <<logger, current, open, sender, startVars>>

-----------------------------------------------------------------------------
(***************************************************************************)
(* The goroutine of Write: Notifier.SendMessage.                           *)
(***************************************************************************)
\* Variant: the context of a message is not made from that of the writer.
CtxDoneAlone(s) == s \notin open

CtxDone(s) == s \notin open \/ mainPC = "cancelled"

\* A request whose context is done is not begun.
Begin(s) ==
  /\ sender[s] = "ready" /\ ~CtxDone(s)
  /\ sender' = [sender EXCEPT ![s] = "sending"]
  /\ UNCHANGED <<writerVars, startVars>>

\* Telegram answers, if it ever does.
Answer(s) ==
  /\ sender[s] = "sending"
  /\ sender' = [sender EXCEPT ![s] = "free"]
  /\ UNCHANGED <<writerVars, startVars>>

\* The context is cancelled, its five seconds are over, or the ten of the
\* client: the error is dropped.
Abandon(s) ==
  /\ sender[s] \in {"ready", "sending"}
  /\ sender' = [sender EXCEPT ![s] = "free"]
  /\ UNCHANGED <<writerVars, startVars>>

-----------------------------------------------------------------------------
\* A step of main; every goroutine ends with the process.
Main ==
  /\ Start \/ Signal
  /\ IF mainPC' = "exited"
     THEN /\ lastSent' = "old" /\ window' = [l \in Loggers |-> 0]
          /\ logger' = [l \in Loggers |-> "out"]
          /\ current' = [l \in Loggers |-> {}] /\ open' = {}
          /\ sender' = [s \in Senders |-> "free"]
     ELSE UNCHANGED <<writerVars, sender>>

Next ==
  \/ Main \/ WindowEnds
  \/ \E l \in Loggers : Check(l) \/ Stamp(l) \/ Return(l)
  \/ \E s \in Senders : Begin(s) \/ Answer(s) \/ Abandon(s)

Spec == Init /\ [][Next]_vars

\* main is scheduled, its calls return or time out, but for those that hang, and
\* the container is restarted; contexts and clients time out.  Nothing is
\* expected of Telegram, and no signal.
FairSpec == Spec /\ WF_vars(Start /\ Main) /\ \A s \in Senders : WF_vars(Abandon(s))

-----------------------------------------------------------------------------
\* The engine runs on a database that has its schema and with the key of the
\* account, whatever failed in this start and in those before it; or with the
\* fields of a reply that had none, which nothing checks (main.go:54-66,
\* client.go:96, :163).
EngineStartsReady ==
  mainPC \in {"running", "goodbye", "cancelled"} =>
    /\ migrated
    /\ (l2Creds = "key" /\ apiKey) \/ (l2Creds = "empty" /\ faults > 0)

\* The bot starts in the end, for an account with or without a key: neither a
\* migration that was cut off nor a key whose creation went unanswered keeps
\* it from starting, only a call that hangs does (client.go:82-102,
\* postgres.go:51-63, docker-compose.yml:30).
StartsInTheEnd == mainPC = "load" ~> mainPC \in {"running", "hung"}

\* From the moment lastSent is old until it is old again each goroutine sends
\* one message at most: without a lock several may pass the throttle together,
\* but the burst is no larger than the number of goroutines, however long one
\* of them waits between the check and the stamp (writer.go:43-47).
BurstBounded == \A l \in Loggers : window[l] <= 1

\* A shutdown ends all sending for good: main is not held by its own
\* announcement, what is under way is given up and what is logged while the
\* engine stops is not begun any more, whatever Telegram does (main.go:80-85,
\* writer.go:25, :53).
ShutdownSilences == mainPC = "goodbye" ~> [](\A s \in Senders : sender[s] # "sending")
=============================================================================
