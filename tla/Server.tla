------------------------------- MODULE Server -------------------------------
(***************************************************************************)
(* The process (main.go, utils.go): it starts the three servers one after  *)
(* the other, each on two addresses, waits for an interrupt, and runs the  *)
(* deferred stops in reverse order, each waiting for the requests of its   *)
(* server.  Composed with the handlers and clients of Endpoints.           *)
(***************************************************************************)
EXTENDS Endpoints

CONSTANT Enabled     \* the OTLP servers whose port is not 0

ASSUME EnabledAssumption == Enabled \subseteq {"grpc", "http"}

VARIABLES
    phase,       \* what start() is at
    listening,   \* how many addresses a server listens on
    stops,       \* the deferred stops, the first to run first
    verdict      \* how start() will return: "clean" or "error"

process == <<phase, listening, stops, verdict>>
vars == <<endpoints, process>>

Servers == {"grpc", "http", "ui"}
After(srv) == CASE srv = "grpc" -> "http" [] srv = "http" -> "ui" [] srv = "ui" -> "notify"

ServerInit ==
    /\ Init
    /\ phase = "grpc"
    /\ listening = [srv \in Servers |-> 0]
    /\ stops = <<>>
    /\ verdict = "clean"

-----------------------------------------------------------------------------
(* Starting *)

\* if *grpcPort != 0, if *httpPort != 0; the UI is always served.
skip(srv) ==
    /\ phase = srv /\ srv \notin Enabled \cup {"ui"}
    /\ phase' = After(srv)
    /\ UNCHANGED <<endpoints, listening, stops, verdict>>

Serves(srv) == phase = srv /\ srv \in Enabled \cup {"ui"}

\* serveLocalhost listens on one more address; with the second one, the
\* server has started and its stop is deferred.
listen(srv) ==
    /\ Serves(srv)
    /\ listening' = [listening EXCEPT ![srv] = @ + 1]
    /\ IF listening[srv] = 1
       THEN stops' = <<srv>> \o stops /\ phase' = After(srv)
       ELSE UNCHANGED <<stops, phase>>
    /\ UNCHANGED <<endpoints, verdict>>

\* The address is taken: start() returns the error, through the deferred
\* stops of the servers before this one.
listenFails(srv) ==
    /\ Serves(srv)
    /\ phase' = "stopping"
    /\ verdict' = "error"
    /\ UNCHANGED <<endpoints, listening, stops>>

\* signal.Notify.
notify ==
    /\ phase = "notify"
    /\ phase' = "waiting"
    /\ UNCHANGED <<endpoints, listening, stops, verdict>>

-----------------------------------------------------------------------------
(* Stopping *)

\* Ctrl-C, as start() expects it.
interrupt ==
    /\ phase = "waiting"
    /\ phase' = "stopping"
    /\ UNCHANGED <<endpoints, listening, stops, verdict>>

\* Ctrl-C before signal.Notify was called, which it never is on an error.
\* A second one after it waits in the channel for ever.
kill ==
    /\ phase \in Servers \cup {"notify"} \/ (phase = "stopping" /\ verdict = "error")
    /\ ended' = "killed"
    /\ UNCHANGED <<clients, mutex, kept, handlers, erased, process>>

Stopping == IF phase = "stopping" /\ stops # <<>> THEN Head(stops) ELSE "none"

\* Shutdown and GracefulStop close the listeners...
closeListeners(srv) ==
    /\ Stopping = srv /\ listening[srv] > 0
    /\ listening' = [listening EXCEPT ![srv] = 0]
    /\ UNCHANGED <<endpoints, phase, stops, verdict>>

\* Mutant: the listeners of all servers are closed, none is waited for.
stoppedAtOnce(srv) ==
    /\ Stopping = srv /\ listening[srv] = 0
    /\ stops' = Tail(stops)
    /\ UNCHANGED <<endpoints, phase, listening, verdict>>

\* ... and return when no request of the server is running.
stopped(srv) ==
    /\ Stopping = srv /\ listening[srv] = 0
    /\ \A q \in Request : ServerOf(q) = srv => ~Running(q)
    /\ stops' = Tail(stops)
    /\ UNCHANGED <<endpoints, phase, listening, verdict>>

\* main returns, or calls os.Exit(1).
exit ==
    /\ phase = "stopping" /\ stops = <<>>
    /\ ended' = verdict
    /\ UNCHANGED <<clients, mutex, kept, handlers, erased, process>>

-----------------------------------------------------------------------------

connect(q) == listening[ServerOf(q)] > 0 /\ accept(q) /\ UNCHANGED process

Start == \E srv \in Servers : skip(srv) \/ listen(srv) \/ listenFails(srv)
Stop == (\E srv \in Servers : closeListeners(srv) \/ stopped(srv)) \/ exit

Next ==
    /\ ended = "no"
    /\ \/ Start \/ notify \/ interrupt \/ kill \/ Stop
       \/ \E q \in Request : connect(q) \/ (Handle(q) /\ UNCHANGED process)
       \/ ClientStep /\ UNCHANGED process

Spec == ServerInit /\ [][Next]_vars

\* The process goes on with its stops, a handler with its request, and no
\* client keeps a handler waiting for ever: it sends or reads on, or gives up.
\* Interrupts, failures and new requests are up to others.
FairSpec ==
    /\ Spec
    /\ WF_vars(ended = "no" /\ Stop)
    /\ \A q \in Request : WF_vars(ended = "no" /\ Handle(q) /\ UNCHANGED process)

-----------------------------------------------------------------------------
(* Properties *)

TypeOK ==
    /\ EndpointsTypeOK
    /\ phase \in Servers \cup {"notify", "waiting", "stopping"}
    /\ listening \in [Servers -> 0 .. 2]
    /\ \A i \in 1 .. Len(stops) : stops[i] \in Servers
    /\ verdict \in {"clean", "error"}

\* A process that returns from start(), after an interrupt or because a
\* server could not start, cuts off no request that it has accepted
\* (main.go:33-48), unless that was on the first address of a server whose
\* second one could not be had: it serves, but has no stop (utils.go:21-24).
StopCutsNothing ==
    ended \in {"clean", "error"} =>
        \A q \in Request :
            Running(q) => ended = "error" /\ listening[ServerOf(q)] = 1

\* Every request a server has accepted is over at some time, although the
\* handlers wait for one mutex that some of them keep while they write to
\* their client, unless the process has ended first.
HandlersEnd == \A q \in Request : Running(q) ~> (~Running(q) \/ ended # "no")

\* Once it stops, the process ends: Shutdown and GracefulStop, which wait
\* without a limit, wait for nothing that waits for them or for a mutex that
\* nobody gives back.
StopEnds == phase = "stopping" ~> ended # "no"
=============================================================================
