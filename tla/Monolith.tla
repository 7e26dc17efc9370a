------------------------------ MODULE Monolith ------------------------------
(***************************************************************************)
(* cmd/monolith/main.go from the moment its three servers listen: the      *)
(* goroutines of the servers, the signal, and the steps of run() down to   *)
(* its return, with the health server.  services/identity/main.go and      *)
(* services/sms/main.go have the same text.                                *)
(*                                                                         *)
(* External: what grpc and net/http do when they are asked to stop, as     *)
(* main.go relies on it.  GracefulStop accepts no call any more and waits  *)
(* for those in progress, Stop cancels their contexts, Shutdown waits for  *)
(* active connections until its context is done.                           *)
(***************************************************************************)
EXTENDS HealthServer

CONSTANT Reported  \* the services whose status the program sets itself

ASSUME ReportedAssumption == Reported \subseteq Service

Server == {"metrics", "health", "grpc"}

VARIABLES
    main,       \* where run() is
    signals,    \* how SIGINT and SIGTERM are handled
    ready,      \* the flag /healthz reads
    errCh,      \* the number of errors in the channel
    server,     \* what the goroutine of a server is doing
    accepting,  \* the gRPC server takes new calls
    cancelled,  \* Stop has cancelled the contexts of its calls
    busy        \* a gRPC call other than Watch is in progress

procVars == <<main, signals, ready, errCh, server, accepting, cancelled, busy>>
vars == <<healthVars, procVars>>

Stage == {"serve",        \* the select on errCh and ctx.Done()
          "withdraw",     \* before ready = false
          "notserving",   \* before healthServer.SetNotServing
          "stopgrpc",     \* before gracefulStopGRPC
          "drain",        \* the select in gracefulStopGRPC
          "stopmetrics", "stophealth",  \* in shutdownHTTP
          "flush",        \* the deferred telemetry Shutdown
          "ended"}

TypeOK ==
    /\ HealthTypeOK
    /\ main \in Stage
    /\ signals \in {"notify",   \* NotifyContext waits for one
                    "done",     \* one came: ctx is done
                    "default"}  \* stop() was called: one ends the process
    /\ ready \in BOOLEAN
    /\ errCh \in 0..3
    /\ server \in [Server -> {"serving",
                              "failed",     \* before errCh <- err
                              "stopped"}]
    /\ accepting \in BOOLEAN /\ cancelled \in BOOLEAN
    /\ busy \in BOOLEAN

Init ==
    /\ NewServer
    /\ main = "serve"
    /\ signals = "notify" /\ ready = TRUE
    /\ errCh = 0
    /\ server = [s \in Server |-> "serving"]
    /\ accepting = TRUE /\ cancelled = FALSE
    /\ busy = FALSE

Running == main # "ended"

\* Mutant of ErrChSize: room for one error.
ErrChOne == 1

ErrChSize == 3

-----------------------------------------------------------------------------
(* Clients and the operating system *)

Signal ==
    /\ Running /\ signals = "notify"
    /\ signals' = "done"
    /\ UNCHANGED <<healthVars, main, ready, errCh, server, accepting, cancelled, busy>>

\* A signal after stop(): no handler is left.
SignalKills ==
    /\ Running /\ signals = "default"
    /\ main' = "ended"
    /\ UNCHANGED <<healthVars, signals, ready, errCh, server, accepting, cancelled, busy>>

CallBegins ==
    /\ Running /\ ~busy /\ accepting /\ server["grpc"] = "serving"
    /\ busy' = TRUE
    /\ UNCHANGED <<healthVars, main, signals, ready, errCh, server, accepting, cancelled>>

CallEnds ==
    /\ Running /\ busy
    /\ busy' = FALSE
    /\ UNCHANGED <<healthVars, main, signals, ready, errCh, server, accepting, cancelled>>

\* A Watch call arrives.
WatchBegins(w) ==
    /\ Running /\ accepting /\ server["grpc"] = "serving"
    /\ \E s \in Service : AddWatcher(w, s)
    /\ UNCHANGED procVars

\* Its own steps; its stream may be slow, and its client may leave at any time.
WatchStep(w) ==
    /\ Running
    /\ SendCurrent(w) \/ Receive(w) \/ RemoveWatcher(w)
    /\ UNCHANGED procVars

StreamSend(w) == Running /\ ~cancelled /\ Send(w) /\ UNCHANGED procVars

StreamEnds(w) == Running /\ Leave(w) /\ UNCHANGED procVars

\* A status set by the program while it serves (by the tests alone, so far).
Report ==
    /\ main = "serve"
    /\ \E s \in Reported, st \in {"SERVING", "NOT_SERVING"} : SetServing(s, st)
    /\ UNCHANGED procVars

-----------------------------------------------------------------------------
(* The goroutines of the servers *)

\* ListenAndServe or Serve returns an error that does not come from stopping it.
ServerFails(s) ==
    /\ Running /\ server[s] = "serving"
    /\ server' = [server EXCEPT ![s] = "failed"]
    /\ UNCHANGED <<healthVars, main, signals, ready, errCh, accepting, cancelled, busy>>

\* errCh <- err, the last thing the goroutine does.
ReportError(s) ==
    /\ Running /\ server[s] = "failed" /\ errCh < ErrChSize
    /\ errCh' = errCh + 1
    /\ server' = [server EXCEPT ![s] = "stopped"]
    /\ UNCHANGED <<healthVars, main, signals, ready, accepting, cancelled, busy>>

\* A server that was serving is told to stop: its goroutine ends without error.
Stopped(s) == [server EXCEPT ![s] = IF @ = "serving" THEN "stopped" ELSE @]

-----------------------------------------------------------------------------
(* run() *)

\* The select.  After an error stop() is called; the rest is the same.
Wake ==
    /\ main = "serve"
    /\ \/ errCh > 0 /\ errCh' = errCh - 1 /\ signals' = "default"
       \/ signals = "done" /\ UNCHANGED <<errCh, signals>>
    /\ main' = "withdraw"
    /\ UNCHANGED <<healthVars, ready, server, accepting, cancelled, busy>>

\* Mutant of Withdraw: the gRPC server is stopped first.
WithdrawLater ==
    /\ main = "withdraw"
    /\ accepting' = FALSE
    /\ main' = "notserving"
    /\ UNCHANGED <<healthVars, signals, errCh, server, ready, cancelled, busy>>

\* ready = false
Withdraw ==
    /\ main = "withdraw"
    /\ ready' = FALSE
    /\ main' = "notserving"
    /\ UNCHANGED <<healthVars, signals, errCh, server, accepting, cancelled, busy>>

MarkNotServing ==
    /\ main = "notserving"
    /\ SetNotServing
    /\ main' = "stopgrpc"
    /\ UNCHANGED <<signals, ready, errCh, server, accepting, cancelled, busy>>

\* gracefulStopGRPC starts the goroutine that calls GracefulStop.
GracefulStop ==
    /\ main = "stopgrpc"
    /\ accepting' = FALSE
    /\ server' = Stopped("grpc")
    /\ main' = "drain"
    /\ UNCHANGED <<healthVars, signals, ready, errCh, cancelled, busy>>

\* case <-done: no call is in progress.
Drained ==
    /\ main = "drain"
    /\ ~busy /\ \A w \in Watcher : watch[w].pc = "none"
    /\ main' = "stopmetrics"
    /\ UNCHANGED <<healthVars, signals, ready, errCh, server, accepting, cancelled, busy>>

\* Mutant of ForceStop: gracefulStopGRPC waits for done only.
ForceStopWaits ==
    /\ main = "drain"
    /\ ~busy /\ \A w \in Watcher : watch[w].pc = "none"
    /\ main' = "stopmetrics"
    /\ UNCHANGED <<healthVars, signals, ready, errCh, server, accepting, cancelled, busy>>

\* case <-time.After(15 * time.Second): Stop.
ForceStop ==
    /\ main = "drain"
    /\ cancelled' = TRUE
    /\ main' = "stopmetrics"
    /\ UNCHANGED <<healthVars, signals, ready, errCh, server, accepting, busy>>

\* shutdownHTTP: Shutdown returns when the server is quiet or the ten seconds
\* both servers share are over; the server has stopped listening either way.
Shutdown(s, stage, next) ==
    /\ main = stage
    /\ server' = Stopped(s)
    /\ main' = next
    /\ UNCHANGED <<healthVars, signals, ready, errCh, accepting, cancelled, busy>>

ShutdownMetrics == Shutdown("metrics", "stopmetrics", "stophealth")
ShutdownHealth == Shutdown("health", "stophealth", "flush")

\* The deferred Shutdown of telemetry, ten seconds at most, then the process ends.
End ==
    /\ main = "flush"
    /\ main' = "ended"
    /\ UNCHANGED <<healthVars, signals, ready, errCh, server, accepting, cancelled, busy>>

MainStep ==
    \/ Wake \/ Withdraw \/ MarkNotServing \/ GracefulStop \/ Drained \/ ForceStop
    \/ ShutdownMetrics \/ ShutdownHealth \/ End

Next ==
    \/ Signal
    \/ SignalKills \/ CallBegins \/ CallEnds
    \/ \E s \in Server : ServerFails(s) \/ ReportError(s)
    \/ \E w \in Watcher : WatchBegins(w) \/ WatchStep(w) \/ StreamSend(w) \/ StreamEnds(w)
    \/ Report
    \/ MainStep

\* Fairness: run() goes on, its timers fire and it gets the mutex it waits for
\* (sync.RWMutex does not starve a writer); a failed server reports; a Watch call
\* goes on unless its stream is slow.  Nothing is assumed of clients.
Fairness ==
    /\ WF_vars(MainStep) /\ SF_vars(MarkNotServing)
    /\ \A s \in Server : WF_vars(ReportError(s))
    /\ \A w \in Watcher : SF_vars(WatchStep(w))

Spec == Init /\ [][Next]_vars /\ Fairness

-----------------------------------------------------------------------------
(* Properties *)

\* A goroutine that reports the error of its server does not wait, although
\* run() receives one error at most.
NoSenderWaits == \A s \in Server : server[s] = "failed" => errCh < ErrChSize

\* When the gRPC server begins to refuse calls, /healthz and the health service
\* have been saying so already: no status is SERVING.  (ready is a plain variable
\* and its write is what is meant: the handler's read is not synchronised.)
RefusesOnlyWhenWithdrawn ==
    ~accepting => ~ready /\ \A s \in Service : status[s] # "SERVING"

\* addWatcher's send under the mutex does not wait: the mutex is released again.
MutexReleased == mu # NULL ~> mu = NULL \/ main = "ended"

\* After a signal or the failure of a server the process ends, whatever calls,
\* Watch streams without end and connections clients keep open.
ShutdownEnds == signals = "done" \/ errCh > 0 ~> main = "ended"

=============================================================================
