------------------------- MODULE Notifications_proofs -------------------------
(***************************************************************************)
(* What Startup and Notifications promise, proved for any goroutines that  *)
(* log, any number that send and any number of failing calls.              *)
(***************************************************************************)
EXTENDS Notifications, FiniteSetTheorems, TLAPS

\* A logger that passed the throttle has not sent in this window, and nobody
\* has while lastSent is old.
WindowInv ==
  \A l \in Loggers :
    lastSent = "old" \/ logger[l] = "checked" => window[l] = 0

\* The schema is there from the moment the client is made.
SchemaInv == mainPC \in {"client", "create"} => migrated

\* The deferred cancel: what may still be sent is of a Write that has not
\* returned (writer.go:53-59).
MessageInv ==
  \A s \in Senders :
    sender[s] # "free" /\ s \in open => \E l \in Loggers : current[l] = {s} /\ logger[l] = "sent"

StartInv == StartupTypeOK /\ SchemaInv /\ EngineStartsReady

IInv == TypeOK /\ SchemaInv /\ EngineStartsReady /\ WindowInv /\ BurstBounded /\ MessageInv

LEMMA InitInv == Init => IInv
PROOF
  <1> USE DEF Init
  <1>1. StartupInit => StartupTypeOK /\ SchemaInv /\ EngineStartsReady
    <2>1. 0 \in 0 .. MaxFaults
      BY StartupAssumption
    <2> QED
      BY <2>1, Zenon DEF StartupInit, StartupTypeOK, SchemaInv, EngineStartsReady
  <1>2. Init => TypeOK /\ WindowInv /\ BurstBounded /\ MessageInv
    BY <1>1 DEF TypeOK, WindowInv, BurstBounded, MessageInv
  <1> QED
    BY <1>1, <1>2 DEF IInv

\* The steps of the writer leave main alone.
LEMMA StartKept ==
  ASSUME StartInv, UNCHANGED startVars
  PROVE  StartInv'
PROOF
  BY DEF StartInv, startVars, StartupTypeOK, SchemaInv, EngineStartsReady

\* Steps of main keep what is known of the start.
LEMMA MainStarts ==
  ASSUME StartInv, Start \/ Signal
  PROVE  StartInv'
PROOF
  <1> USE DEF StartInv, StartupTypeOK, SchemaInv, EngineStartsReady, Proceed
  <1>1. CASE Load \/ SendInfo \/ InitStorage \/ Restart \/ Signal
    BY <1>1 DEF Load, SendInfo, InitStorage, Restart, Signal
  <1>2. ASSUME Fault
        PROVE  faults' \in 0 .. MaxFaults /\ faults' > 0
    BY <1>2, StartupAssumption DEF Fault
  <1>3. CASE DeriveCreds
    BY <1>3 DEF DeriveCreds
  <1>4. CASE DeriveFails
    BY <1>2, <1>4 DEF DeriveFails
  <1>5. CASE CreateCreds
    BY <1>2, <1>5 DEF CreateCreds
  <1>6. CASE StartFails
    <2>1. faults' \in 0 .. MaxFaults /\ mainPC' = "exited" /\ l2Creds' = l2Creds
      BY <1>2, <1>6 DEF StartFails
    <2>2. migrated' \in BOOLEAN /\ apiKey' \in BOOLEAN
      BY <1>6 DEF StartFails
    <2> QED
      BY <2>1, <2>2, l2Creds \in {"none", "key", "empty"}
  <1>7. CASE StartHangs
    BY <1>2, <1>7 DEF StartHangs
  <1> QED
    BY <1>1, <1>3, <1>4, <1>5, <1>6, <1>7 DEF Start

\* A message that passes the throttle keeps the invariant.
LEMMA StampInv ==
  ASSUME IInv, NEW l \in Loggers, Stamp(l)
  PROVE  IInv'
PROOF
  <1> USE DEF IInv
  <1>1. PICK s \in Senders :
          /\ logger[l] = "checked" /\ Unused(s)
          /\ logger' = [logger EXCEPT ![l] = "sent"]
          /\ lastSent' = "fresh"
          /\ window' = [window EXCEPT ![l] = IF @ = 0 THEN 1 ELSE 2]
          /\ current' = [current EXCEPT ![l] = {s}] /\ open' = open \cup {s}
          /\ sender' = [sender EXCEPT ![s] = "ready"]
          /\ UNCHANGED startVars
    BY DEF Stamp
  <1>2. window[l] = 0
    BY <1>1 DEF WindowInv
  <1>s. StartInv'
    BY <1>1, StartKept DEF StartInv, TypeOK
  <1>3. TypeOK'
    <2>1. window' \in [Loggers -> {0, 1, 2}] /\ logger' \in [Loggers -> {"out", "checked", "sent"}]
      BY <1>1, <1>2 DEF TypeOK
    <2>2. current' \in [Loggers -> SUBSET Senders] /\ open' \subseteq Senders
      BY <1>1 DEF TypeOK
    <2> QED
      BY <1>1, <1>s, <2>1, <2>2 DEF TypeOK, StartInv
  <1>4. window'[l] = 1 /\ \A k \in Loggers \ {l} : window'[k] = window[k] /\ logger'[k] = logger[k]
    BY <1>1, <1>2 DEF TypeOK
  <1>5. WindowInv' /\ BurstBounded'
    <2>1. logger'[l] = "sent"
      BY <1>1 DEF TypeOK
    <2> QED
      BY <1>1, <1>4, <2>1 DEF WindowInv, BurstBounded
  <1>6. MessageInv'
    <2>1. ASSUME NEW t \in Senders, sender'[t] # "free", t \in open'
          PROVE  \E k \in Loggers : current'[k] = {t} /\ logger'[k] = "sent"
      <3>1. CASE t = s
        BY <1>1, <3>1 DEF TypeOK
      <3>2. CASE t # s
        <4>1. sender[t] # "free" /\ t \in open
          BY <1>1, <2>1, <3>2 DEF TypeOK
        <4>2. PICK k \in Loggers : current[k] = {t} /\ logger[k] = "sent"
          BY <4>1 DEF MessageInv
        <4>3. k # l
          BY <1>1, <4>2
        <4> QED
          BY <1>1, <4>2, <4>3 DEF TypeOK
      <3> QED
        BY <3>1, <3>2
    <2> QED
      BY <2>1 DEF MessageInv
  <1> QED
    BY <1>s, <1>3, <1>5, <1>6 DEF StartInv

\* So does its return.
LEMMA ReturnInv ==
  ASSUME IInv, NEW l \in Loggers, Return(l)
  PROVE  IInv'
PROOF
  <1> USE DEF IInv
  <1>s. StartInv'
    BY StartKept DEF Return, StartInv, TypeOK
  <1>1. TypeOK' /\ WindowInv' /\ BurstBounded'
    BY <1>s DEF StartInv, Return, TypeOK, WindowInv, BurstBounded
  <1>2. ASSUME NEW t \in Senders, sender'[t] # "free", t \in open'
        PROVE  \E k \in Loggers : current'[k] = {t} /\ logger'[k] = "sent"
    <2>1. PICK k \in Loggers : current[k] = {t} /\ logger[k] = "sent"
      BY <1>2 DEF Return, MessageInv
    <2>2. k # l
      BY <1>2, <2>1 DEF Return
    <2> QED
      BY <2>1, <2>2 DEF Return, TypeOK
  <1> QED
    BY <1>s, <1>1, <1>2 DEF StartInv, MessageInv

\* Every step keeps the invariant.
LEMMA NextInv ==
  ASSUME IInv, [Next]_vars
  PROVE  IInv'
PROOF
  <1> USE DEF IInv
  <1>s. ASSUME UNCHANGED startVars
        PROVE  StartupTypeOK' /\ SchemaInv' /\ EngineStartsReady'
    BY <1>s, StartKept DEF StartInv, TypeOK
  <1>1. ASSUME NEW l \in Loggers, Check(l)
        PROVE  IInv'
    <2>1. TypeOK' /\ WindowInv' /\ BurstBounded'
      BY <1>1, <1>s DEF Check, TypeOK, WindowInv, BurstBounded
    <2>2. \A k \in Loggers : logger[k] = "sent" => logger'[k] = "sent"
      BY <1>1 DEF Check, TypeOK
    <2>3. MessageInv'
      BY <1>1, <2>2 DEF Check, MessageInv
    <2> QED
      BY <1>1, <1>s, <2>1, <2>3 DEF Check
  <1>2. CASE WindowEnds
    BY <1>2, <1>s DEF WindowEnds, TypeOK, WindowInv, BurstBounded, MessageInv
  <1>3. ASSUME NEW s \in Senders, Begin(s) \/ Answer(s) \/ Abandon(s)
        PROVE  IInv'
    <2>1. TypeOK' /\ WindowInv' /\ BurstBounded'
      BY <1>3, <1>s DEF Begin, Answer, Abandon, writerVars, TypeOK, WindowInv, BurstBounded
    <2>2. \A t \in Senders : sender'[t] # "free" => sender[t] # "free"
      BY <1>3 DEF Begin, Answer, Abandon, TypeOK
    <2>3. UNCHANGED <<open, current, logger, startVars>>
      BY <1>3 DEF Begin, Answer, Abandon, writerVars
    <2> QED
      BY <1>s, <2>1, <2>2, <2>3 DEF MessageInv
  <1>4. CASE Main
    <2>1. StartInv'
      BY <1>4, MainStarts DEF Main, StartInv, TypeOK
    <2>2. CASE mainPC' = "exited"
      BY <1>4, <2>1, <2>2 DEF Main, StartInv, TypeOK, WindowInv, BurstBounded, MessageInv
    <2>3. CASE UNCHANGED <<writerVars, sender>>
      BY <2>1, <2>3 DEF writerVars, StartInv, TypeOK, WindowInv, BurstBounded, MessageInv
    <2> QED
      BY <1>4, <2>2, <2>3 DEF Main
  <1>5. CASE UNCHANGED vars
    BY <1>5, <1>s DEF vars, writerVars, TypeOK, WindowInv, BurstBounded, MessageInv
  <1> QED
    BY <1>1, <1>2, <1>3, <1>4, <1>5, StampInv, ReturnInv DEF Next

LEMMA Invariant == Spec => []IInv
PROOF
  BY InitInv, NextInv, PTL DEF Spec

\* The types of main, the writer and its goroutines.
THEOREM TypeCorrect == Spec => []TypeOK
PROOF
  <1>1. IInv => TypeOK
    BY DEF IInv
  <1> QED
    BY <1>1, Invariant, PTL

\* The engine runs on a migrated database and with the account's key, or with
\* an unchecked reply.
THEOREM StartsReady == Spec => []EngineStartsReady
PROOF
  <1>1. IInv => EngineStartsReady
    BY DEF IInv
  <1> QED
    BY <1>1, Invariant, PTL

\* The throttle lets one message of each goroutine through in a window.
THEOREM BurstOfOneEach == Spec => []BurstBounded
PROOF
  <1>1. IInv => BurstBounded
    BY DEF IInv
  <1> QED
    BY <1>1, Invariant, PTL

-----------------------------------------------------------------------------
\* The messages that may still be sent.
Requests == {s \in Senders : sender[s] # "free" /\ s \in open}

\* However many messages are logged and however long Telegram hangs, the
\* requests that may still be sent are never more than the goroutines that log,
\* although Write starts a goroutine for each and waits for none
\* (writer.go:53-59).
THEOREM RequestsBounded ==
  ASSUME IsFiniteSet(Loggers)
  PROVE  Spec => [](IsFiniteSet(Requests) /\ Cardinality(Requests) <= Cardinality(Loggers))
PROOF
  <1> DEFINE Writer == [s \in Requests |-> CHOOSE l \in Loggers : current[l] = {s}]
  <1>1. ASSUME MessageInv
        PROVE  Writer \in Injection(Requests, Loggers)
    <2>1. ASSUME NEW s \in Requests
          PROVE  Writer[s] \in Loggers /\ current[Writer[s]] = {s}
      BY <1>1, <2>1 DEF MessageInv, Requests
    <2>2. Writer \in [Requests -> Loggers]
      BY <2>1
    <2>3. ASSUME NEW s \in Requests, NEW u \in Requests, Writer[s] = Writer[u]
          PROVE  s = u
      <3>1. {s} = {u}
        BY <2>1, <2>3
      <3> QED
        BY <3>1
    <2> HIDE DEF Writer
    <2> QED
      BY <2>2, <2>3 DEF Injection, IsInjective
  <1>2. IInv => IsFiniteSet(Requests) /\ Cardinality(Requests) <= Cardinality(Loggers)
    <2> HIDE DEF Writer
    <2> QED
      BY <1>1, FS_Injection DEF IInv
  <1> QED
    BY <1>2, Invariant, PTL
=============================================================================
