---------------------------- MODULE ControlProtocol ----------------------------
(***************************************************************************)
(* The loopback Control Interface: transport/_server.py reads a request,   *)
(* _protocol.validate_and_handle answers it, _receipts.ReceiptStore keeps  *)
(* one row per command id, and hermes_shim/_client.py sends and gives up.  *)
(*                                                                         *)
(* The body of a request is read at awaits, so requests of several clients *)
(* are in flight together and are handled in any order; the clock is read  *)
(* after the body, and the handler itself never yields.  A client that     *)
(* gives up leaves its request in flight and may send it again; the server *)
(* may die before it answers, or after it committed.                       *)
(*                                                                         *)
(* The handler gives a command to KernelBridge.  A payload with a text or  *)
(* with an op the bridge knows is carried out there, each time it comes:   *)
(* those commands are in the modules of the kernel, the stages and the     *)
(* desk.  Only the others reach the receipts, and all of them do when the  *)
(* bridge could not be built at the start of the server.                   *)
(***************************************************************************)
EXTENDS Integers, FiniteSets, FiniteSetsExt

CONSTANTS HttpSlots,      \* the connections the server reads at one time
          HttpRequests,   \* the requests clients send: [path, cid, payload, bridge, faults]
          RateMax,        \* RATE_MAX_REQUESTS
          RateWindow,     \* RATE_WINDOW_SECONDS
          HttpClockMax,   \* bound: the last second of the clock
          HttpBudget      \* bound: requests the limiter counts in one second

VARIABLES httpFlight,   \* the request each connection carries
          httpClock,    \* int(time.time())
          httpWindow,   \* FixedWindowRateLimiter: _window_start and _count
          httpBridged,  \* commands go through the KernelBridge
          httpRows,     \* the receipts table
          httpEffects,  \* the effects table
          httpAnswers,  \* history: every receipt a response carried
          httpSpent,    \* history: calls of allow(), by second, of this server
          httpAdmitted, \* history: those allow() admitted
          httpRefused,  \* history: the seconds at which a 429 was given
          httpStepped   \* history: the clock was set back

httpVars == <<httpFlight, httpClock, httpWindow, httpBridged, httpRows, httpEffects,
              httpAnswers, httpSpent, httpAdmitted, httpRefused, httpStepped>>

NoRequest == [path |-> "none"]
NoWindow == [start |-> -1, count |-> 0]
HttpSeconds == 0 .. HttpClockMax
NoneCounted == [t \in HttpSeconds |-> 0]
CommandNames == {r.cid : r \in HttpRequests}

HttpInit ==
    /\ httpFlight = [s \in HttpSlots |-> NoRequest]
    /\ httpClock = 0
    /\ httpWindow = NoWindow
    /\ httpBridged = TRUE
    /\ httpRows = {}
    /\ httpEffects = [c \in CommandNames |-> 0]
    /\ httpAnswers = {}
    /\ httpSpent = NoneCounted
    /\ httpAdmitted = NoneCounted
    /\ httpRefused = {}
    /\ httpStepped = FALSE

-----------------------------------------------------------------------------
(* Clients *)

HttpSend(s, r) ==
    /\ httpFlight[s] = NoRequest
    /\ httpFlight' = [httpFlight EXCEPT ![s] = r]
    /\ UNCHANGED <<httpClock, httpWindow, httpBridged, httpRows, httpEffects, httpAnswers,
                   httpSpent, httpAdmitted, httpRefused, httpStepped>>

-----------------------------------------------------------------------------
(* The rate limiter *)

\* Mutant of WindowAt: the window is started once and never again.
NeverResets(now) ==
    IF httpWindow.start = -1
    THEN [start |-> now, count |-> 1]
    ELSE [start |-> httpWindow.start, count |-> httpWindow.count + 1]

WindowAt(now) ==
    IF httpWindow.start = -1 \/ now - httpWindow.start >= RateWindow
    THEN [start |-> now, count |-> 1]
    ELSE [start |-> httpWindow.start, count |-> httpWindow.count + 1]

\* allow(): the window it leaves behind, and the verdict
Allows(now) == WindowAt(now).count <= RateMax

\* The checks a request passes before the limiter sees it, health probes never
Trusted(r) == r.faults \cap {"host", "origin", "protocol", "path", "token"} = {}

Limited(r) == Trusted(r) /\ r.path \notin {"/livez", "/readyz"}

\* The checks behind the limiter, for a command
ReachesHandler(r) ==
    /\ r.path = "/v1/commands"
    /\ r.faults \cap {"size", "method", "body", "command_id", "payload"} = {}

\* KernelBridge.process: a text or a known op is carried out, the rest goes on
ForBridge(r) == httpBridged /\ r.bridge
ReachesStore(r) == ReachesHandler(r) /\ ~ForBridge(r)

-----------------------------------------------------------------------------
(* The receipt store *)

Get(cid) == {row \in httpRows : row.cid = cid}

\* The receipt process() returns: the persisted one, or the one it inserts
Receipt(r) ==
    IF Get(r.cid) # {}
    THEN CHOOSE row \in Get(r.cid) : TRUE
    ELSE [cid |-> r.cid, payload |-> r.payload, effects |-> httpEffects[r.cid] + 1]

\* One BEGIN IMMEDIATE transaction: the effect and the row, or the old row
Process(r) ==
    /\ httpRows' = httpRows \cup {Receipt(r)}
    /\ httpEffects' = [httpEffects EXCEPT ![r.cid] = Receipt(r).effects]

\* A receipt the store would not recognise
IsForged(receipt) == receipt \notin Get(receipt.cid)

-----------------------------------------------------------------------------
(* validate_and_handle: the whole of it runs between two awaits *)

\* allow() has been asked
Asked ==
    /\ httpSpent[httpClock] < HttpBudget
    /\ httpWindow' = WindowAt(httpClock)
    /\ httpSpent' = [httpSpent EXCEPT ![httpClock] = @ + 1]
    /\ httpAdmitted' = IF Allows(httpClock)
                       THEN [httpAdmitted EXCEPT ![httpClock] = @ + 1]
                       ELSE httpAdmitted
    /\ httpRefused' = IF Allows(httpClock)
                      THEN httpRefused
                      ELSE httpRefused \cup {httpClock}

Counted(r) ==
    IF Limited(r) THEN Asked
    ELSE UNCHANGED <<httpWindow, httpSpent, httpAdmitted, httpRefused>>

Handled(s) == httpFlight' = [httpFlight EXCEPT ![s] = NoRequest]

\* 400, 401, 403, 404, 405, 413, 429, a probe, /v1/version, or a 500 of the store
HttpAnswer(s) ==
    LET r == httpFlight[s] IN
    /\ r # NoRequest
    /\ Counted(r)
    /\ Handled(s)
    /\ UNCHANGED <<httpClock, httpBridged, httpRows, httpEffects, httpAnswers, httpStepped>>

\* 202 with what the bridge answers; a command that comes again is done again
HttpPerform(s) ==
    LET r == httpFlight[s] IN
    /\ r # NoRequest
    /\ Limited(r) /\ Allows(httpClock)
    /\ ReachesHandler(r) /\ ForBridge(r)
    /\ Asked
    /\ Handled(s)
    /\ UNCHANGED <<httpClock, httpBridged, httpRows, httpEffects, httpAnswers, httpStepped>>

\* 202 with a receipt
HttpAccept(s) ==
    LET r == httpFlight[s] IN
    /\ r # NoRequest
    /\ Limited(r) /\ Allows(httpClock)
    /\ ReachesStore(r)
    /\ Asked
    /\ Process(r)
    /\ httpAnswers' = httpAnswers \cup {Receipt(r)}
    /\ Handled(s)
    /\ UNCHANGED <<httpClock, httpBridged, httpStepped>>

\* The server's memory and its connections are gone, the tables stay; the new
\* server builds a bridge or falls back on the receipts
Restarted ==
    /\ httpBridged' \in BOOLEAN
    /\ httpFlight' = [s \in HttpSlots |-> NoRequest]
    /\ httpWindow' = NoWindow
    /\ httpSpent' = NoneCounted
    /\ httpAdmitted' = NoneCounted
    /\ httpRefused' = {}
    /\ httpStepped' = FALSE
    /\ UNCHANGED <<httpClock, httpAnswers>>

\* Death with nothing committed
HttpCrash == Restarted /\ UNCHANGED <<httpRows, httpEffects>>

\* Death after the receipt committed and before the response was sent
HttpCrashAfterPersist(s) ==
    LET r == httpFlight[s] IN
    /\ r # NoRequest
    /\ Limited(r) /\ Allows(httpClock)
    /\ ReachesStore(r)
    /\ Process(r)
    /\ Restarted

HttpTick ==
    /\ httpClock < HttpClockMax
    /\ httpClock' = httpClock + 1
    /\ UNCHANGED <<httpFlight, httpWindow, httpBridged, httpRows, httpEffects, httpAnswers,
                   httpSpent, httpAdmitted, httpRefused, httpStepped>>

\* time.time() is not monotonic
HttpStepBack ==
    /\ httpClock > 0
    /\ ~httpStepped
    /\ httpClock' = httpClock - 1
    /\ httpStepped' = TRUE
    /\ UNCHANGED <<httpFlight, httpWindow, httpBridged, httpRows, httpEffects, httpAnswers,
                   httpSpent, httpAdmitted, httpRefused>>

HttpNext ==
    \/ \E s \in HttpSlots, r \in HttpRequests : HttpSend(s, r)
    \/ \E s \in HttpSlots : HttpAnswer(s)
    \/ \E s \in HttpSlots : HttpPerform(s)
    \/ \E s \in HttpSlots : HttpAccept(s)
    \/ \E s \in HttpSlots : HttpCrashAfterPersist(s)
    \/ HttpCrash
    \/ HttpTick
    \/ HttpStepBack

HttpSpec == HttpInit /\ [][HttpNext]_httpVars

-----------------------------------------------------------------------------
(* Properties *)

HttpTypeOK ==
    /\ httpFlight \in [HttpSlots -> HttpRequests \cup {NoRequest}]
    /\ httpClock \in HttpSeconds
    /\ httpWindow \in [start : HttpSeconds \cup {-1}, count : Nat]
    /\ httpBridged \in BOOLEAN
    /\ \A row \in httpRows : row.cid \in CommandNames /\ row.effects \in Nat
    /\ httpEffects \in [CommandNames -> Nat]
    /\ httpSpent \in [HttpSeconds -> 0 .. HttpBudget]
    /\ httpAdmitted \in [HttpSeconds -> 0 .. HttpBudget]
    /\ httpRefused \subseteq HttpSeconds
    /\ httpStepped \in BOOLEAN

\* Calls counted in the RateWindow seconds that end with t
InWindow(counted, t) == MapThenSumSet(LAMBDA u : counted[u],
                                      {u \in HttpSeconds : u <= t /\ u > t - RateWindow})

(* ReceiptStore.process: whatever is retried, reordered, sent with another *)
(* payload or cut off by a death of the server, a command id the receipts  *)
(* are asked for takes effect there once, and every receipt a client ever  *)
(* got for it is the persisted one, also when its id was given to the      *)
(* bridge before or after a restart.                                       *)
AnswersAreTheRecord ==
    /\ \A a \in httpAnswers : ~IsForged(a)
    /\ \A c \in CommandNames : httpEffects[c] = Cardinality(Get(c))

(* FixedWindowRateLimiter: two windows meet any RateWindow seconds at most, *)
(* so no more than twice the limit is admitted in them.                     *)
BurstBounded ==
    ~httpStepped => \A t \in HttpSeconds : InWindow(httpAdmitted, t) <= 2 * RateMax

(* A 429 means that more than RateMax requests that count, those that hold  *)
(* the token and are no probe, were made in the last RateWindow seconds:    *)
(* nothing a stranger or a readiness poll sends spends the client's budget. *)
RefusalIsEarned ==
    ~httpStepped => \A t \in httpRefused : InWindow(httpSpent, t) > RateMax

\* What the Control Interface promises a client: one effect and one receipt for
\* each command that reaches the receipts, and a limiter that refuses only who
\* has spent the budget.
ControlContract == AnswersAreTheRecord /\ BurstBounded /\ RefusalIsEarned
=============================================================================
