----------------------------- MODULE ServiceLife -----------------------------
(***************************************************************************)
(* The local service as processes that start, serve and stop               *)
(* (startLingotorteLocalService and startFromCli in server.ts), with the   *)
(* private delivery of their capability (privateDelivery.ts) and the       *)
(* boundary every request passes (requestAdmission.ts).                    *)
(*                                                                         *)
(* Several processes may overlap: one starts while another still stops.    *)
(* They share the port, unless it is ephemeral, and the delivery socket.   *)
(* Any step of a start may fail; signals come at any time; clients leave.  *)
(***************************************************************************)
EXTENDS Naturals, FiniteSets

CONSTANTS
  Nobody,
  Processes,    \* processes of the service, started one after another or together
  Calls,        \* requests sent to them
  Deliveries,   \* how a process may deliver its capability: "tty", "socket"
  Ports,        \* how it may be given a port: "fixed", "ephemeral"
  MaxKills      \* bound: processes killed, and sockets removed by hand

ASSUME LifeAssumption ==
  /\ Nobody \notin Processes
  /\ Deliveries \subseteq {"tty", "socket"} /\ Ports \subseteq {"fixed", "ephemeral"}
  /\ MaxKills \in Nat

VARIABLES
  mode,        \* the delivery and the port all processes are configured with
  phase,       \* how far each process is
  delivery,    \* its private delivery: "none", "bound", "holding" the capability, "closed"
  listening,   \* it accepts connections
  admission,   \* admissionReady
  scratch,     \* its run directory exists
  store,       \* its persistence: "none", "open", "closed", "lost" with the process
  twice,       \* a second signal came while it was closing
  socketFile,  \* whose socket is at the delivery path
  calls,       \* requests
  kills,       \* interventions so far
  pulled       \* history variable: processes whose socket was removed by hand

processVars == <<phase, delivery, listening, admission, scratch, store, twice>>
lifeVars == <<mode, processVars, socketFile, calls, kills, pulled>>

-----------------------------------------------------------------------------
(***************************************************************************)
(* The private delivery.                                                   *)
(***************************************************************************)
\* The delivery may be lost at any time; it is never ready without a capability,
\* after its end, or when another file is at its path.
MayBeReady(s) ==
  /\ delivery[s] = "holding"
  /\ mode.delivery = "socket" => socketFile = s

\* A mutant: whatever is at the path is removed.
SocketGone(s) == Nobody

\* A closed delivery removes its own socket only.
SocketAfter(s) == IF socketFile = s THEN Nobody ELSE socketFile

Delivered(s) == delivery[s] \in {"bound", "holding"}

CloseDelivery(s) ==
  /\ delivery' = [delivery EXCEPT ![s] = IF Delivered(s) THEN "closed" ELSE @]
  /\ socketFile' = IF Delivered(s) /\ mode.delivery = "socket" THEN SocketAfter(s) ELSE socketFile

\* How the process ends: with what it did, or with what its end leaves behind.
Dies(s, how) ==
  /\ phase' = [phase EXCEPT ![s] = how]
  /\ listening' = [listening EXCEPT ![s] = FALSE] /\ admission' = [admission EXCEPT ![s] = FALSE]
  /\ store' = [store EXCEPT ![s] = IF @ = "open" THEN "lost" ELSE @]

Of(s) == {c \in Calls : calls[c].to = s}

Dropped(s) == [c \in Calls |-> IF c \in Of(s) THEN [calls[c] EXCEPT !.connected = FALSE, !.lingers = FALSE]
                               ELSE calls[c]]
Ended(s) == [c \in Calls |-> IF c \in Of(s)
                             THEN [calls[c] EXCEPT !.connected = FALSE, !.lingers = FALSE, !.at = "over"]
                             ELSE calls[c]]

-----------------------------------------------------------------------------
(***************************************************************************)
(* The start of a process.                                                 *)
(***************************************************************************)
Goes(s, from, to) == phase[s] = from /\ phase' = [phase EXCEPT ![s] = to]

\* The delivery is made, unless something is at its path already.
MakeDelivery(s) ==
  /\ phase[s] = "new"
  /\ IF mode.delivery = "socket" /\ socketFile # Nobody
     THEN phase' = [phase EXCEPT ![s] = "failed"] /\ UNCHANGED <<delivery, socketFile>>
     ELSE /\ phase' = [phase EXCEPT ![s] = "checking"]
          /\ delivery' = [delivery EXCEPT ![s] = "bound"]
          /\ socketFile' = IF mode.delivery = "socket" THEN s ELSE socketFile
  /\ UNCHANGED <<mode, listening, admission, scratch, store, twice, calls, kills, pulled>>

\* The capability is handed over and the delivery tried.
HandOver(s) ==
  /\ Goes(s, "checking", IF mode.port = "ephemeral" THEN "binding" ELSE "preparing")
  /\ delivery' = [delivery EXCEPT ![s] = "holding"]
  /\ mode.delivery = "socket" => socketFile = s
  /\ UNCHANGED <<mode, listening, admission, scratch, store, twice, socketFile, calls, kills, pulled>>

\* What is refused before there is anything to clean up: the configuration, or a
\* delivery that is not ready.
RefuseStart(s) ==
  /\ Goes(s, "checking", "undelivering")
  /\ UNCHANGED <<mode, delivery, listening, admission, scratch, store, twice, socketFile, calls, kills, pulled>>

PortFree == mode.port = "ephemeral" \/ \A t \in Processes : ~listening[t]

Listens(s) == PortFree /\ listening' = [listening EXCEPT ![s] = TRUE]

\* An ephemeral port is bound before its authority is known: nobody is admitted yet.
Bind(s) ==
  /\ Goes(s, "binding", "preparing") /\ Listens(s)
  /\ UNCHANGED <<mode, delivery, admission, scratch, store, twice, socketFile, calls, kills, pulled>>

MakeScratch(s) ==
  /\ Goes(s, "preparing", "opening") /\ scratch' = [scratch EXCEPT ![s] = TRUE]
  /\ UNCHANGED <<mode, delivery, listening, admission, store, twice, socketFile, calls, kills, pulled>>

OpenStore(s) ==
  /\ Goes(s, "opening", "ready") /\ store' = [store EXCEPT ![s] = "open"]
  /\ UNCHANGED <<mode, delivery, listening, admission, scratch, twice, socketFile, calls, kills, pulled>>

\* The delivery is tried again; only then a fixed port is bound and requests admitted.
Serve(s) ==
  /\ Goes(s, "ready", "serving") /\ MayBeReady(s)
  /\ IF mode.port = "fixed" THEN Listens(s) ELSE UNCHANGED listening
  /\ admission' = [admission EXCEPT ![s] = TRUE]
  /\ UNCHANGED <<mode, delivery, scratch, store, twice, socketFile, calls, kills, pulled>>

\* Any step of the start throws, also after it made its run directory; connections
\* are cut.
FailStart(s) ==
  /\ phase[s] \in {"binding", "preparing", "opening", "ready"}
  /\ phase' = [phase EXCEPT ![s] = "failing"]
  /\ scratch' \in {scratch, [scratch EXCEPT ![s] = phase[s] # "binding"]}
  /\ calls' = Dropped(s)
  /\ UNCHANGED <<mode, delivery, listening, admission, store, twice, socketFile, kills, pulled>>

\* A mutant: the run directory stays.
ScratchKept(s) == scratch

ScratchAfter(s) == [scratch EXCEPT ![s] = FALSE]

\* The failed start takes back what it had: the port, the store, the run directory.
CleanUpStart(s) ==
  /\ Goes(s, "failing", "undelivering")
  /\ listening' = [listening EXCEPT ![s] = FALSE]
  /\ store' = [store EXCEPT ![s] = IF @ = "open" THEN "closed" ELSE @]
  /\ scratch' = ScratchAfter(s)
  /\ UNCHANGED <<mode, delivery, admission, twice, socketFile, calls, kills, pulled>>

-----------------------------------------------------------------------------
(***************************************************************************)
(* The end of a process.                                                   *)
(***************************************************************************)
\* A signal starts close(): nobody is admitted or accepted any more, and sockets that
\* only linger are destroyed.
Signal(s) ==
  /\ Goes(s, "serving", "closing")
  /\ listening' = [listening EXCEPT ![s] = FALSE] /\ admission' = [admission EXCEPT ![s] = FALSE]
  /\ calls' = [c \in Calls |-> IF c \in Of(s) /\ calls[c].lingers
                               THEN [calls[c] EXCEPT !.lingers = FALSE, !.connected = FALSE] ELSE calls[c]]
  /\ UNCHANGED <<mode, delivery, scratch, store, twice, socketFile, kills, pulled>>

\* The other signal calls close() again.
SecondSignal(s) ==
  /\ phase[s] \in {"closing", "draining", "stopped"} /\ ~twice[s]
  /\ twice' = [twice EXCEPT ![s] = TRUE]
  /\ UNCHANGED <<mode, phase, delivery, listening, admission, scratch, store, socketFile, calls, kills, pulled>>

AllLeft(s) == \A c \in Of(s) : ~calls[c].connected

\* The server is closed once every connection is, and the snippet jobs are drained
\* (SnippetJobs); then the dictionary and the store are closed, and the delivery last.
ConnectionsEnd(s) ==
  /\ Goes(s, "closing", "draining") /\ AllLeft(s)
  /\ UNCHANGED <<mode, delivery, listening, admission, scratch, store, twice, socketFile, calls, kills, pulled>>

CloseStore(s) ==
  /\ Goes(s, "draining", "stopped") /\ ~twice[s]
  /\ store' = [store EXCEPT ![s] = "closed"]
  /\ UNCHANGED <<mode, delivery, listening, admission, scratch, twice, socketFile, calls, kills, pulled>>

\* The end of a stopped or failed process: its delivery is closed.
Exit(s) ==
  /\ phase[s] = "undelivering" \/ (phase[s] = "stopped" /\ ~twice[s])
  /\ phase' = [phase EXCEPT ![s] = IF phase[s] = "stopped" THEN "exited" ELSE "failed"]
  /\ CloseDelivery(s)
  /\ calls' = Ended(s)
  /\ UNCHANGED <<mode, listening, admission, scratch, store, twice, kills, pulled>>

\* The second close() is refused once the server is closed; nobody handles the
\* refusal, and the process ends where it is.
Crash(s) ==
  /\ twice[s] /\ phase[s] \in {"draining", "stopped"}
  /\ Dies(s, "crashed") /\ calls' = Ended(s)
  /\ UNCHANGED <<mode, delivery, scratch, twice, socketFile, kills, pulled>>

Kill(s) ==
  /\ phase[s] \notin {"new", "failed", "exited", "crashed"}
  /\ kills < MaxKills /\ kills' = kills + 1
  /\ Dies(s, "crashed") /\ calls' = Ended(s)
  /\ UNCHANGED <<mode, delivery, scratch, twice, socketFile, pulled>>

\* Somebody removes the socket file, as after a crash they must.
RemoveSocket ==
  /\ socketFile # Nobody /\ socketFile' = Nobody
  /\ kills < MaxKills /\ kills' = kills + 1
  /\ pulled' = pulled \cup {socketFile}
  /\ UNCHANGED <<mode, processVars, calls>>

-----------------------------------------------------------------------------
(***************************************************************************)
(* Requests at the boundary.                                               *)
(***************************************************************************)
Becomes(c, next) == calls' = [calls EXCEPT ![c] = next]
OnlyCalls == UNCHANGED <<mode, processVars, socketFile, kills, pulled>>
Over(c) == [calls[c] EXCEPT !.at = "over", !.connected = FALSE]

\* A request before admission is refused at once.
Send(c, s) ==
  /\ calls[c].at = "unsent" /\ listening[s]
  /\ LET sent == [calls[c] EXCEPT !.to = s]
     IN  Becomes(c, IF admission[s] THEN [sent EXCEPT !.at = "admitting", !.connected = TRUE]
                    ELSE [sent EXCEPT !.at = "over"])
  /\ OnlyCalls

\* Headers, capability or body are not what they should be; the connection may linger
\* until the body that nobody reads has come.
Deny(c) ==
  /\ calls[c].at = "admitting"
  /\ \/ Becomes(c, Over(c))
     \/ calls[c].connected /\ Becomes(c, [calls[c] EXCEPT !.at = "over", !.lingers = TRUE])
  /\ OnlyCalls

LingerEnds(c) ==
  /\ calls[c].lingers /\ Becomes(c, [calls[c] EXCEPT !.lingers = FALSE, !.connected = FALSE])
  /\ OnlyCalls

\* The request passes (with the capability, unless it is a health check or a preflight);
\* the delivery is tried before it is handled.
Admit(c) ==
  /\ calls[c].at = "admitting"
  /\ Becomes(c, IF admission[calls[c].to] THEN [calls[c] EXCEPT !.at = "confirming"] ELSE Over(c))
  /\ OnlyCalls

\* A mutant: what was true before the delivery was tried is taken for true still.
MayHandleStill(s) == TRUE

MayHandle(s) == admission[s]

\* It is refused all the same, or was a preflight.
Turned(c) == calls[c].at = "confirming" /\ Becomes(c, Over(c)) /\ OnlyCalls

Handle(c) ==
  /\ calls[c].at = "confirming" /\ MayBeReady(calls[c].to) /\ MayHandle(calls[c].to)
  /\ Becomes(c, [calls[c] EXCEPT !.at = "handling", !.began = phase[calls[c].to]])
  /\ OnlyCalls

Respond(c) == calls[c].at = "handling" /\ Becomes(c, Over(c)) /\ OnlyCalls

\* The client goes away; a body that was still coming is given up.
Leave(c) ==
  /\ calls[c].connected
  /\ \/ Becomes(c, [calls[c] EXCEPT !.connected = FALSE, !.lingers = FALSE])
     \/ calls[c].at = "admitting" /\ Becomes(c, Over(c))
  /\ OnlyCalls

-----------------------------------------------------------------------------
Unsent == [to |-> Nobody, at |-> "unsent", connected |-> FALSE, lingers |-> FALSE, began |-> "none"]

\* A container's service has a fixed port.
LifeInit ==
  /\ mode \in [delivery: Deliveries, port: Ports] /\ (mode.delivery = "socket" => mode.port = "fixed")
  /\ phase = [s \in Processes |-> "new"] /\ delivery = [s \in Processes |-> "none"]
  /\ listening = [s \in Processes |-> FALSE] /\ admission = listening
  /\ scratch = listening /\ twice = listening
  /\ store = [s \in Processes |-> "none"]
  /\ socketFile = Nobody /\ calls = [c \in Calls |-> Unsent] /\ kills = 0 /\ pulled = {}

Starting(s) ==
  \/ MakeDelivery(s) \/ HandOver(s) \/ RefuseStart(s) \/ Bind(s) \/ MakeScratch(s)
  \/ OpenStore(s) \/ Serve(s) \/ FailStart(s) \/ CleanUpStart(s)

Stopping(s) ==
  \/ Signal(s) \/ SecondSignal(s) \/ ConnectionsEnd(s) \/ CloseStore(s)
  \/ Exit(s) \/ Crash(s) \/ Kill(s)

Calling(c) ==
  \/ \E s \in Processes : Send(c, s)
  \/ Deny(c) \/ LingerEnds(c) \/ Admit(c) \/ Turned(c) \/ Handle(c) \/ Respond(c) \/ Leave(c)

LifeNext ==
  \/ \E s \in Processes : Starting(s) \/ Stopping(s)
  \/ RemoveSocket
  \/ \E c \in Calls : Calling(c)

LifeSpec == LifeInit /\ [][LifeNext]_lifeVars

-----------------------------------------------------------------------------
(***************************************************************************)
(* Properties.                                                             *)
(***************************************************************************)
Phases == {"new", "checking", "binding", "preparing", "opening", "ready", "serving", "failing",
           "undelivering", "failed", "closing", "draining", "stopped", "exited", "crashed"}

CallRecords ==
  [to: Processes \cup {Nobody}, at: {"unsent", "admitting", "confirming", "handling", "over"},
   connected: BOOLEAN, lingers: BOOLEAN, began: Phases \cup {"none"}]

LifeTypeOK ==
  /\ mode \in [delivery: Deliveries, port: Ports]
  /\ phase \in [Processes -> Phases]
  /\ delivery \in [Processes -> {"none", "bound", "holding", "closed"}]
  /\ {listening, admission, scratch, twice} \subseteq [Processes -> BOOLEAN]
  /\ store \in [Processes -> {"none", "open", "closed", "lost"}]
  /\ socketFile \in Processes \cup {Nobody} /\ kills \in 0 .. MaxKills /\ pulled \subseteq Processes
  /\ calls \in [Calls -> CallRecords]

\* No handler begins before the service serves or once close() was called, and whoever
\* still waits for its answer has the store open (server.ts:754-765, 1327-1342).
HandlersHaveStore ==
  \A c \in Calls :
    /\ calls[c].began \in {"none", "serving"}
    /\ calls[c].at = "handling" /\ calls[c].connected => store[calls[c].to] = "open"

\* A process that serves has all it needs, whatever became of others that started,
\* failed or stopped beside it: its port, store and run directory, and its socket
\* unless somebody removed it by hand (server.ts:1344-1352, privateDelivery.ts:90-95).
ServingIsWhole ==
  \A s \in Processes : phase[s] = "serving" =>
    /\ listening[s] /\ store[s] = "open" /\ scratch[s] /\ delivery[s] = "holding"
    /\ mode.port = "fixed" => \A t \in Processes \ {s} : ~listening[t]
    /\ mode.delivery = "socket" => socketFile = s \/ s \in pulled

\* A start that failed leaves nothing behind, and a stop only its run directory
\* (server.ts:1322-1353, 1385-1386, 1405-1409).
NothingLeftBehind ==
  \A s \in Processes :
    /\ phase[s] \in {"failed", "exited"} =>
         ~listening[s] /\ store[s] \in {"none", "closed"} /\ delivery[s] \in {"none", "closed"} /\ socketFile # s
    /\ phase[s] = "failed" => ~scratch[s]

ServiceWhole == LifeTypeOK /\ HandlersHaveStore /\ ServingIsWhole /\ NothingLeftBehind
=============================================================================
