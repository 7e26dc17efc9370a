---------------------------- MODULE HealthServer ----------------------------
(***************************************************************************)
(* internal/health/health.go: the gRPC health service of a process.  It    *)
(* keeps a status per service and, per service, the channels of the Watch  *)
(* calls in progress; a channel holds one status.  One mutex guards both   *)
(* maps.  What happens between Lock and Unlock is one step, except that    *)
(* addWatcher sends on the new channel while it holds the mutex: that send *)
(* is a step of its own.  The order of the channels in a list is left out. *)
(***************************************************************************)
EXTENDS Naturals, Sequences

CONSTANTS
    Service,  \* the names a status is kept for
    Overall,  \* the name "", the server as a whole
    Watcher,  \* Watch calls that can be in progress together
    NULL

ASSUME OverallAssumption == Overall \in Service
ASSUME NullAssumption == NULL \notin Watcher

Status == {"SERVING", "NOT_SERVING", "SERVICE_UNKNOWN"}

ASSUME NoStatusAssumption == NULL \notin Status

VARIABLES
    status,    \* the map of statuses: NULL where there is no entry
    watchers,  \* per service the calls whose channels are in the list
    ch,        \* the channel of a call
    mu,        \* the call that holds the mutex over several steps
    watch,     \* what a Watch call is doing
    \* history variables
    told,      \* the last status a call has sent to its client
    dropped    \* the calls an update could not be put in the channel of

healthVars == <<status, watchers, ch, mu, watch, told, dropped>>

Call == [pc      : {"none",
                    "add",     \* in addWatcher, before the send
                    "select",
                    "send",    \* in stream.Send
                    "remove"}, \* before removeWatcher
         service : Service \cup {NULL},
         out     : Status \cup {NULL}]   \* what stream.Send sends

NoCall == [pc |-> "none", service |-> NULL, out |-> NULL]

HealthTypeOK ==
    /\ status \in [Service -> Status \cup {NULL}]
    /\ watchers \in [Service -> SUBSET Watcher]
    /\ ch \in [Watcher -> Seq(Status)]
    /\ mu \in Watcher \cup {NULL}
    /\ watch \in [Watcher -> Call]
    /\ told \in [Watcher -> Status \cup {NULL}]
    /\ dropped \subseteq Watcher

NewServer ==
    /\ status = [s \in Service |-> IF s = Overall THEN "SERVING" ELSE NULL]
    /\ watchers = [s \in Service |-> {}]
    /\ ch = [w \in Watcher |-> <<>>]
    /\ mu = NULL
    /\ watch = [w \in Watcher |-> NoCall]
    /\ told = [w \in Watcher |-> NULL]
    /\ dropped = {}

\* Mutant of ChanSize: make(chan ...) without a size.
ChanUnbuffered == 0

ChanSize == 1

-----------------------------------------------------------------------------
(* Watch *)

\* addWatcher takes the mutex and appends a new channel.
AddWatcher(w, service) ==
    /\ watch[w].pc = "none" /\ mu = NULL
    /\ mu' = w
    /\ watchers' = [watchers EXCEPT ![service] = @ \cup {w}]
    /\ watch' = [watch EXCEPT ![w] = [pc |-> "add", service |-> service, out |-> NULL]]
    /\ UNCHANGED <<status, ch, told, dropped>>

\* Mutant of SendCurrent: no entry of the map is a status too.
SendCurrentEntry(w) ==
    /\ watch[w].pc = "add" /\ Len(ch[w]) < ChanSize
    /\ ch' = [ch EXCEPT ![w] = Append(@, status[watch[w].service])]
    /\ mu' = NULL
    /\ watch' = [watch EXCEPT ![w].pc = "select"]
    /\ UNCHANGED <<status, watchers, told, dropped>>

\* ... and sends the current status, still holding the mutex.
SendCurrent(w) ==
    /\ watch[w].pc = "add" /\ Len(ch[w]) < ChanSize
    /\ LET st == status[watch[w].service] IN
        ch' = [ch EXCEPT ![w] = Append(@, IF st = NULL THEN "SERVICE_UNKNOWN" ELSE st)]
    /\ mu' = NULL
    /\ watch' = [watch EXCEPT ![w].pc = "select"]
    /\ UNCHANGED <<status, watchers, told, dropped>>

\* select: case st := <-ch.
Receive(w) ==
    /\ watch[w].pc = "select" /\ ch[w] # <<>>
    /\ watch' = [watch EXCEPT ![w].pc = "send", ![w].out = Head(ch[w])]
    /\ ch' = [ch EXCEPT ![w] = Tail(@)]
    /\ UNCHANGED <<status, watchers, mu, told, dropped>>

\* stream.Send returns nil.
Send(w) ==
    /\ watch[w].pc = "send"
    /\ told' = [told EXCEPT ![w] = watch[w].out]
    /\ watch' = [watch EXCEPT ![w].pc = "select", ![w].out = NULL]
    /\ UNCHANGED <<status, watchers, ch, mu, dropped>>

\* case <-stream.Context().Done(), or stream.Send returns an error.
Leave(w) ==
    /\ watch[w].pc \in {"select", "send"}
    /\ watch' = [watch EXCEPT ![w].pc = "remove", ![w].out = NULL]
    /\ told' = [told EXCEPT ![w] = NULL]
    /\ UNCHANGED <<status, watchers, ch, mu, dropped>>

RemoveWatcher(w) ==
    /\ watch[w].pc = "remove" /\ mu = NULL
    /\ watchers' = [watchers EXCEPT ![watch[w].service] = @ \ {w}]
    /\ watch' = [watch EXCEPT ![w] = NoCall]
    /\ ch' = [ch EXCEPT ![w] = <<>>]
    /\ dropped' = dropped \ {w}
    /\ UNCHANGED <<status, mu, told>>

-----------------------------------------------------------------------------
(* Setting the status *)

\* Mutant of Audience: those that watch the server as a whole only.
AudienceOverall(services) == watchers[Overall]

\* The calls notifyWatchers sends a status of services to: those that watch
\* one of them and those that watch the server as a whole.
Audience(services) ==
    UNION {watchers[s] : s \in services \cup {Overall}}

\* notifyWatchers for all of services: a send that would block is given up.  (A
\* second send of the same status in one SetNotServing is no update that is lost.)
Notify(services, st) ==
    /\ ch' = [w \in Watcher |->
                IF w \in Audience(services) /\ Len(ch[w]) < ChanSize
                THEN Append(ch[w], st) ELSE ch[w]]
    /\ dropped' = dropped \cup {w \in Audience(services) : Len(ch[w]) >= ChanSize}

SetServing(service, st) ==
    /\ mu = NULL
    /\ status' = [status EXCEPT ![service] = st]
    /\ Notify({service}, st)
    /\ UNCHANGED <<watchers, mu, watch, told>>

\* The services there is a status of.
Known == {s \in Service : status[s] # NULL}

SetNotServing ==
    /\ mu = NULL
    /\ status' = [s \in Service |-> IF s \in Known THEN "NOT_SERVING" ELSE NULL]
    /\ Notify(Known, "NOT_SERVING")
    /\ UNCHANGED <<watchers, mu, watch, told>>

-----------------------------------------------------------------------------
(* Properties *)

\* A call that watches one service and has nothing left to send has told its
\* client the status of the service, unless an update was given up because the
\* channel was full.
StaleOnlyAfterDrop ==
    \A w \in Watcher :
        watch[w].pc = "select" /\ ch[w] = <<>> /\ w \notin dropped
            /\ watch[w].service # Overall
        => told[w] = IF status[watch[w].service] = NULL THEN "SERVICE_UNKNOWN"
                     ELSE status[watch[w].service]

-----------------------------------------------------------------------------
(* What the code means and does not guarantee. *)

\* A call that has nothing left to send has told its client the last status of
\* the server as a whole.
WatcherIsUpToDate ==
    \A w \in Watcher :
        watch[w].pc = "select" /\ ch[w] = <<>> /\ watch[w].service = Overall
        => told[w] = status[Overall]

=============================================================================
