--------------------------- MODULE MonolithProofs ---------------------------
(***************************************************************************)
(* The shutdown of cmd/monolith/main.go withdraws the process before it    *)
(* refuses calls, for any number of services and Watch calls.              *)
(*                                                                         *)
(* The argument is the order of run(): what a stage says of the readiness  *)
(* and the statuses holds at every later one (Order), because after the    *)
(* select nobody sets a status any more and run() never goes back.         *)
(*                                                                         *)
(* A goroutine sends one error, so there are never more in the channel     *)
(* than goroutines that have ended (ErrorsBounded).  The newest status     *)
(* is on its way to a watcher, in its channel or about to be sent, or the  *)
(* client has it, unless an update was dropped (WatchInv).                 *)
(***************************************************************************)
EXTENDS Monolith, TLAPS, SequenceTheorems

NoneServing == \A s \in Service : status[s] # "SERVING"

Stopping == {"drain", "stopmetrics", "stophealth", "flush"}

Order ==
    /\ ~accepting => main \in Stopping \cup {"ended"}
    /\ main \in {"notserving", "stopgrpc"} \cup Stopping => ~ready
    /\ main \in {"stopgrpc"} \cup Stopping => NoneServing
    /\ ~accepting => ~ready /\ NoneServing

\* The servers have just begun to listen.
LEMMA InitOrder == Init => Order
  BY DEF Init, Order, Stopping

\* A step that leaves readiness, statuses, gRPC server and run() alone.
LEMMA Aside ==
    ASSUME Order, UNCHANGED <<main, ready, accepting, status>>
    PROVE  Order'
  BY DEF Order, NoneServing

\* Every step of run(), of a server, a client or a Watch call keeps the order.
LEMMA StepOrder == Order /\ [Next]_vars => Order'
  <1> SUFFICES ASSUME Order, [Next]_vars PROVE Order'
    OBVIOUS
  <1>1. CASE Signal \/ CallBegins \/ CallEnds \/ UNCHANGED vars
    BY <1>1, Aside DEF Signal, CallBegins, CallEnds, vars, procVars, healthVars
  <1>2. CASE SignalKills
    BY <1>2 DEF SignalKills, Order, NoneServing, healthVars, Stopping
  <1>3. CASE \E s \in Server : ServerFails(s) \/ ReportError(s)
    BY <1>3, Aside DEF ServerFails, ReportError, healthVars
  <1>4. CASE \E w \in Watcher : WatchBegins(w) \/ WatchStep(w) \/ StreamSend(w) \/ StreamEnds(w)
    BY <1>4, Aside DEF WatchBegins, WatchStep, StreamSend, StreamEnds, AddWatcher,
         SendCurrent, Receive, RemoveWatcher, Send, Leave, procVars
  <1>5. CASE Report
    BY <1>5 DEF Report, SetServing, Order, NoneServing, procVars, Stopping
  <1>6. CASE Wake
    BY <1>6 DEF Wake, Order, NoneServing, healthVars, Stopping
  <1>7. CASE Withdraw
    BY <1>7 DEF Withdraw, Order, NoneServing, healthVars, Stopping
  <1>8. CASE MarkNotServing
    <2>1. NoneServing'
      <3>1. status' = [s \in Service |-> IF s \in Known THEN "NOT_SERVING" ELSE NULL]
        BY <1>8 DEF MarkNotServing, SetNotServing
      <3>2. \A s \in Known : status'[s] = "NOT_SERVING"
        BY <3>1 DEF Known
      <3>3. \A s \in Service \ Known : status'[s] = NULL
        BY <3>1 DEF Known
      <3> QED
        BY <3>2, <3>3, NoStatusAssumption DEF NoneServing, Status
    <2> QED
      BY <1>8, <2>1 DEF MarkNotServing, Order, Stopping
  <1>9. CASE GracefulStop
    BY <1>9 DEF GracefulStop, Order, NoneServing, healthVars, Stopping
  <1>10. CASE Drained \/ ForceStop
    BY <1>10 DEF Drained, ForceStop, Order, NoneServing, healthVars, Stopping
  <1>11. CASE ShutdownMetrics \/ ShutdownHealth \/ End
    BY <1>11 DEF ShutdownMetrics, ShutdownHealth, Shutdown, End, Order, NoneServing,
         healthVars, Stopping
  <1> QED
    BY <1>1, <1>2, <1>3, <1>4, <1>5, <1>6, <1>7, <1>8, <1>9, <1>10, <1>11
    DEF Next, MainStep

\* run(): by the time GracefulStop makes the gRPC server refuse calls, ready has
\* been cleared and SetNotServing has been called, whatever else happens.
THEOREM WithdrawsFirst == Spec => []RefusesOnlyWhenWithdrawn
  <1>1. Order => RefusesOnlyWhenWithdrawn
    BY DEF Order, RefusesOnlyWhenWithdrawn, NoneServing
  <1> QED
    BY <1>1, InitOrder, StepOrder, PTL DEF Spec

-----------------------------------------------------------------------------
(* The health service *)

\* What a client that watches service is to be told.
Current(service) == IF status[service] = NULL THEN "SERVICE_UNKNOWN" ELSE status[service]

\* The newest status on its way to the client of w, or the last one sent.
Newest(w) ==
    IF Len(ch[w]) # 0 THEN ch[w][1]
    ELSE IF watch[w].pc = "send" THEN watch[w].out ELSE told[w]

\* What holds of each Watch call.  Its channel is in the list of its service and
\* in no other, it is empty until addWatcher sends, and addWatcher holds the mutex
\* until then; and nothing newer than Newest has been lost without w being in dropped.
Fine(w) ==
    /\ watch[w].pc # "none" => watch[w].service \in Service
    /\ \A s \in Service : w \in watchers[s] <=> watch[w].pc # "none" /\ watch[w].service = s
    /\ watch[w].pc = "add" => mu = w
    /\ watch[w].pc \in {"none", "add"} => Len(ch[w]) = 0
    /\ Len(ch[w]) <= 1
    /\ watch[w].pc \in {"select", "send"} /\ watch[w].service # Overall /\ w \notin dropped
       => Newest(w) = Current(watch[w].service)

WatchInv == HealthTypeOK /\ \A w \in Watcher : Fine(w)

\* Channels of at most one status.
LEMMA OneStatus ==
    ASSUME NEW c \in Seq(Status), NEW st \in Status
    PROVE  /\ Len(c) \in Nat /\ (c = <<>> <=> Len(c) = 0)
           /\ Append(c, st) \in Seq(Status) /\ Len(Append(c, st)) = Len(c) + 1
           /\ Len(c) = 0 => Append(c, st)[1] = st
           /\ Len(c) # 0 => /\ Head(c) = c[1] /\ Head(c) \in Status
                            /\ Tail(c) \in Seq(Status)
           /\ Len(c) # 0 /\ Len(c) <= 1 => Len(Tail(c)) = 0
  <1>1. Len(c) \in Nat /\ (Len(c) # 0 => Len(Tail(c)) = Len(c) - 1)
    <2>1. Len(c) \in Nat /\ (Len(c) # 0 => c # <<>>)
      OBVIOUS
    <2>2. c # <<>> => Len(Tail(c)) = Len(c) - 1
      BY HeadTailProperties
    <2> QED
      BY <2>1, <2>2, Zenon
  <1>2. \A n \in Nat : n # 0 /\ n <= 1 => n - 1 = 0
    OBVIOUS
  <1>3. Len(c) # 0 /\ Len(c) <= 1 => Len(Tail(c)) = 0
    BY <1>1, <1>2, Zenon
  <1> QED
    BY <1>3

\* SERVING is a status.
LEMMA Serving == "SERVING" \in Status
  BY DEF Status

\* Nobody watches yet.
LEMMA InitWatch == Init => WatchInv
  <1> SUFFICES ASSUME NewServer PROVE WatchInv
    BY DEF Init
  <1>1. HealthTypeOK
    BY OverallAssumption DEF NewServer, HealthTypeOK, Call, NoCall, Status
  <1>2. ASSUME NEW w \in Watcher PROVE Fine(w)
    BY DEF NewServer, NoCall, Fine
  <1> QED
    BY <1>1, <1>2 DEF WatchInv

\* A step of one Watch call leaves the others as they are.
LEMMA OtherWatch ==
    ASSUME WatchInv, NEW w \in Watcher, NEW v \in Watcher, v # w, UNCHANGED status,
           watch'[v] = watch[v], ch'[v] = ch[v], told'[v] = told[v],
           v \in dropped' <=> v \in dropped,
           \A s \in Service : v \in watchers'[s] <=> v \in watchers[s],
           mu' = mu \/ mu \in {w, NULL}
    PROVE  Fine(v)'
  <1>1. watch[v].pc = "add" => mu' = v
    BY NullAssumption DEF WatchInv, Fine
  <1> QED
    BY <1>1 DEF WatchInv, Fine, Newest, Current

\* addWatcher begins.
LEMMA AddWatcherOK ==
    ASSUME WatchInv, NEW w \in Watcher, NEW service \in Service, AddWatcher(w, service)
    PROVE  WatchInv'
  <1>1. /\ watch[w].pc = "none" /\ mu = NULL /\ mu' = w
        /\ watch'[w].pc = "add" /\ watch'[w].service = service
        /\ \A v \in Watcher : v # w => watch'[v] = watch[v]
        /\ \A s \in Service : s # service => watchers'[s] = watchers[s]
        /\ watchers'[service] = watchers[service] \cup {w}
        /\ UNCHANGED <<status, ch, told, dropped>>
    BY DEF AddWatcher, WatchInv, HealthTypeOK
  <1>2. HealthTypeOK'
    BY DEF AddWatcher, WatchInv, HealthTypeOK, Call
  <1>3. Fine(w)'
    BY <1>1 DEF WatchInv, Fine
  <1>4. ASSUME NEW v \in Watcher, v # w PROVE Fine(v)'
    <2>1. \A s \in Service : v \in watchers'[s] <=> v \in watchers[s]
      BY <1>1, <1>4
    <2>2. /\ UNCHANGED status /\ watch'[v] = watch[v] /\ ch'[v] = ch[v] /\ told'[v] = told[v]
          /\ v \in dropped' <=> v \in dropped
          /\ mu \in {w, NULL}
      BY <1>1, <1>4
    <2> QED
      BY <1>4, <2>1, <2>2, OtherWatch
  <1> QED
    BY <1>2, <1>3, <1>4 DEF WatchInv

\* addWatcher sends the current status and lets the mutex go.
LEMMA SendCurrentOK ==
    ASSUME WatchInv, NEW w \in Watcher, SendCurrent(w) PROVE WatchInv'
  <1> DEFINE st == Current(watch[w].service)
  <1>1. watch[w].pc = "add" /\ watch[w].service \in Service /\ Len(ch[w]) = 0 /\ mu = w
    BY DEF SendCurrent, WatchInv, Fine
  <1>2. st \in Status
    BY <1>1 DEF Current, WatchInv, HealthTypeOK, Status
  <1>3. /\ ch' = [ch EXCEPT ![w] = Append(ch[w], st)]
        /\ mu' = NULL /\ watch' = [watch EXCEPT ![w].pc = "select"]
        /\ UNCHANGED <<status, watchers, told, dropped>>
    BY DEF SendCurrent, Current
  <1>4. st' = st
    BY <1>1, <1>3 DEF WatchInv, HealthTypeOK, Current
  <1>5. ch[w] \in Seq(Status) /\ watch[w] \in Call
    BY DEF WatchInv, HealthTypeOK
  <1>6. /\ watch'[w].pc = "select" /\ watch'[w].service = watch[w].service
        /\ watch' \in [Watcher -> Call]
        /\ \A v \in Watcher : v # w => watch'[v] = watch[v]
    BY <1>3, <1>5 DEF Call, WatchInv, HealthTypeOK
  <1>7. Current(watch[w].service)' = st
    BY <1>3, <1>1, <1>6, <1>4
  <1> HIDE DEF st
  <1>8. /\ ch' \in [Watcher -> Seq(Status)] /\ Len(ch'[w]) = 1 /\ ch'[w][1] = st
        /\ \A v \in Watcher : v # w => ch'[v] = ch[v]
    BY <1>1, <1>2, <1>3, <1>5, OneStatus DEF WatchInv, HealthTypeOK
  <1>9. HealthTypeOK'
    BY <1>3, <1>6, <1>8 DEF WatchInv, HealthTypeOK
  <1>10. Fine(w)'
    BY <1>1, <1>3, <1>6, <1>7, <1>8 DEF WatchInv, Fine, Newest, Current
  <1>11. ASSUME NEW v \in Watcher, v # w PROVE Fine(v)'
    BY <1>1, <1>3, <1>6, <1>8, <1>11, OtherWatch
  <1> QED
    BY <1>9, <1>10, <1>11 DEF WatchInv

\* Watch takes a status out of its channel.
LEMMA ReceiveOK ==
    ASSUME WatchInv, NEW w \in Watcher, Receive(w) PROVE WatchInv'
  <1>1. ch[w] \in Seq(Status) /\ watch[w] \in Call /\ Len(ch[w]) <= 1
    BY DEF WatchInv, HealthTypeOK, Fine
  <1>2. watch[w].pc = "select" /\ Len(ch[w]) # 0
    BY <1>1, OneStatus, Serving DEF Receive
  <1>3. /\ Head(ch[w]) = ch[w][1] /\ Head(ch[w]) \in Status
        /\ Tail(ch[w]) \in Seq(Status) /\ Len(Tail(ch[w])) = 0
    BY <1>1, <1>2, OneStatus, Serving
  <1>4. /\ watch'[w].pc = "send" /\ watch'[w].service = watch[w].service
        /\ watch'[w].out = ch[w][1] /\ watch' \in [Watcher -> Call]
        /\ \A v \in Watcher : v # w => watch'[v] = watch[v]
    BY <1>1, <1>3 DEF Receive, Call, WatchInv, HealthTypeOK
  <1>5. /\ ch' \in [Watcher -> Seq(Status)] /\ Len(ch'[w]) = 0
        /\ \A v \in Watcher : v # w => ch'[v] = ch[v]
    BY <1>3 DEF Receive, WatchInv, HealthTypeOK
  <1>6. UNCHANGED <<status, watchers, mu, told, dropped>>
    BY DEF Receive
  <1>7. HealthTypeOK'
    BY <1>4, <1>5, <1>6 DEF WatchInv, HealthTypeOK
  <1>8. Fine(w)'
    BY <1>2, <1>4, <1>5, <1>6 DEF WatchInv, Fine, Newest, Current
  <1>9. ASSUME NEW v \in Watcher, v # w PROVE Fine(v)'
    BY <1>4, <1>5, <1>6, <1>9, OtherWatch
  <1> QED
    BY <1>7, <1>8, <1>9 DEF WatchInv

\* stream.Send is done, or the call is over.
LEMMA SendOK ==
    ASSUME WatchInv, NEW w \in Watcher, Send(w) \/ Leave(w) PROVE WatchInv'
  <1>1. watch[w] \in Call /\ told[w] \in Status \cup {NULL}
    BY DEF WatchInv, HealthTypeOK
  <1> DEFINE st == IF Send(w) THEN watch[w].out ELSE NULL
             pc == IF Send(w) THEN "select" ELSE "remove"
  <1>2. /\ watch' = [watch EXCEPT ![w].pc = pc, ![w].out = NULL]
        /\ told' = [told EXCEPT ![w] = st]
        /\ pc \in {"select", "remove"} /\ st \in Status \cup {NULL}
        /\ \/ watch[w].pc = "send" /\ pc = "select" /\ st = watch[w].out
           \/ watch[w].pc \in {"select", "send"} /\ pc = "remove"
    BY <1>1 DEF Send, Leave, Call
  <1> HIDE DEF st, pc
  <1>3. /\ watch'[w].service = watch[w].service /\ watch'[w].pc = pc /\ watch' \in [Watcher -> Call]
        /\ \A v \in Watcher : v # w => watch'[v] = watch[v]
    BY <1>1, <1>2 DEF Call, WatchInv, HealthTypeOK
  <1>8. /\ told'[w] = st /\ told' \in [Watcher -> Status \cup {NULL}]
        /\ \A v \in Watcher : v # w => told'[v] = told[v]
    BY <1>2 DEF WatchInv, HealthTypeOK
  <1>4. UNCHANGED <<status, watchers, ch, mu, dropped>>
    BY DEF Send, Leave
  <1>5. HealthTypeOK'
    BY <1>3, <1>4, <1>8 DEF WatchInv, HealthTypeOK
  <1>6. Fine(w)'
    BY <1>2, <1>3, <1>4, <1>8 DEF WatchInv, Fine, Newest, Current
  <1>7. ASSUME NEW v \in Watcher, v # w PROVE Fine(v)'
    BY <1>3, <1>4, <1>7, <1>8, OtherWatch
  <1> QED
    BY <1>5, <1>6, <1>7 DEF WatchInv

\* The channel leaves the list.
LEMMA RemoveWatcherOK ==
    ASSUME WatchInv, NEW w \in Watcher, RemoveWatcher(w) PROVE WatchInv'
  <1>1. watch[w].service \in Service /\ NoCall \in Call /\ NoCall.pc = "none"
    BY DEF RemoveWatcher, WatchInv, Fine, NoCall, Call
  <1>2. /\ watch'[w] = NoCall /\ watch' \in [Watcher -> Call]
        /\ \A v \in Watcher : v # w => watch'[v] = watch[v]
    BY <1>1 DEF RemoveWatcher, WatchInv, HealthTypeOK
  <1>3. /\ watchers' \in [Service -> SUBSET Watcher]
        /\ \A s \in Service : watchers'[s] =
              IF s = watch[w].service THEN watchers[s] \ {w} ELSE watchers[s]
    BY <1>1 DEF RemoveWatcher, WatchInv, HealthTypeOK
  <1>4. /\ ch' \in [Watcher -> Seq(Status)] /\ Len(ch'[w]) = 0
        /\ \A v \in Watcher : v # w => ch'[v] = ch[v]
    BY DEF RemoveWatcher, WatchInv, HealthTypeOK
  <1>5. dropped' = dropped \ {w} /\ UNCHANGED <<status, mu, told>>
    BY DEF RemoveWatcher
  <1>6. HealthTypeOK'
    BY <1>2, <1>3, <1>4, <1>5 DEF WatchInv, HealthTypeOK
  <1>7. Fine(w)'
    BY <1>1, <1>2, <1>3, <1>4 DEF WatchInv, Fine
  <1>8. ASSUME NEW v \in Watcher, v # w PROVE Fine(v)'
    BY <1>2, <1>3, <1>4, <1>5, <1>8, OtherWatch
  <1> QED
    BY <1>6, <1>7, <1>8 DEF WatchInv

\* notifyWatchers: the calls that watch a service whose status was set have it in
\* the channel, or are in dropped; the channel of no other call is touched, but
\* for those that watch the server as a whole.
LEMMA NotifyOK ==
    ASSUME WatchInv, NEW services \in SUBSET Service, NEW st \in Status, mu = NULL,
           Notify(services, st), UNCHANGED <<watchers, mu, watch, told>>,
           status' \in [Service -> Status \cup {NULL}],
           \A s \in services : status'[s] = st,
           \A s \in Service \ services : status'[s] = status[s]
    PROVE  WatchInv'
  <1> DEFINE A == Audience(services)
  <1>1. \A v \in Watcher : v \in A <=> \E s \in services \cup {Overall} : v \in watchers[s]
    BY DEF Audience
  <1>2. A \subseteq Watcher
    BY OverallAssumption DEF Audience, WatchInv, HealthTypeOK
  <1>3. /\ ch' = [v \in Watcher |-> IF v \in A /\ Len(ch[v]) < ChanSize
                                    THEN Append(ch[v], st) ELSE ch[v]]
        /\ dropped' = dropped \cup {v \in A : Len(ch[v]) >= ChanSize}
    BY DEF Notify
  <1> HIDE DEF A
  <1>4. ASSUME NEW v \in Watcher
        PROVE  /\ ch'[v] \in Seq(Status) /\ Len(ch'[v]) <= 1 /\ Fine(v)
               /\ v \in A => v \in dropped' \/ (Len(ch'[v]) = 1 /\ ch'[v][1] = st)
               /\ v \notin A => ch'[v] = ch[v] /\ (v \in dropped' <=> v \in dropped)
               /\ v \in dropped => v \in dropped'
    <2>1. ch[v] \in Seq(Status) /\ Fine(v)
      BY DEF WatchInv, HealthTypeOK
    <2>2. Len(ch[v]) \in Nat /\ Len(ch[v]) <= 1
      BY <2>1 DEF Fine
    <2>3. CASE v \in A /\ Len(ch[v]) = 0
      <3>1. ch'[v] = Append(ch[v], st)
        BY <1>3, <2>3 DEF ChanSize
      <3>2. Append(ch[v], st) \in Seq(Status) /\ Append(ch[v], st)[1] = st /\ Len(Append(ch[v], st)) = 1
        BY <2>1, <2>3, OneStatus
      <3>3. ch'[v] \in Seq(Status) /\ ch'[v][1] = st /\ Len(ch'[v]) = 1
        BY <3>1, <3>2, Zenon
      <3>4. v \in dropped => v \in dropped'
        BY <1>3
      <3> QED
        BY <2>1, <2>3, <3>3, <3>4
    <2>4. CASE v \in A /\ Len(ch[v]) # 0
      <3>1. ch'[v] = ch[v] /\ v \in dropped'
        BY <1>3, <2>2, <2>4 DEF ChanSize
      <3>2. ch'[v] \in Seq(Status) /\ Len(ch'[v]) <= 1
        BY <2>1, <2>2, <3>1, Zenon
      <3> QED
        BY <2>1, <2>4, <3>1, <3>2
    <2>5. CASE v \notin A
      <3>1. ch'[v] = ch[v] /\ (v \in dropped' <=> v \in dropped)
        BY <1>3, <2>5
      <3>2. ch'[v] \in Seq(Status) /\ Len(ch'[v]) <= 1
        BY <2>1, <2>2, <3>1, Zenon
      <3> QED
        BY <2>1, <2>5, <3>1, <3>2, Zenon
    <2> QED
      BY <2>3, <2>4, <2>5
  <1>5. HealthTypeOK'
    <2>1. ch' \in [Watcher -> Seq(Status)]
      BY <1>3, <1>4
    <2>2. dropped' \subseteq Watcher
      BY <1>2, <1>3 DEF WatchInv, HealthTypeOK
    <2> QED
      BY <2>1, <2>2 DEF WatchInv, HealthTypeOK
  <1>6. ASSUME NEW v \in Watcher PROVE Fine(v)'
    <2>1. /\ watch'[v] = watch[v] /\ told'[v] = told[v] /\ Fine(v)
          /\ \A s \in Service : watchers'[s] = watchers[s]
      BY DEF WatchInv
    <2>2. watch[v].pc # "add"
      BY <2>1, NullAssumption DEF Fine
    <2>3. watch[v].pc = "none" => Len(ch'[v]) = 0
      <3>1. watch[v].pc = "none" => v \notin A
        BY <1>1, <2>1, OverallAssumption DEF Fine
      <3> QED
        BY <1>4, <2>1, <3>1 DEF Fine
    <2>4. ASSUME watch[v].pc \in {"select", "send"}, watch[v].service # Overall, v \notin dropped'
          PROVE  Newest(v)' = Current(watch[v].service)'
      <3> DEFINE s == watch[v].service
      <3>1. /\ s \in Service /\ v \in watchers[s]
            /\ \A r \in Service : v \in watchers[r] => r = s
        BY <2>1, <2>4 DEF Fine
      <3>2. v \in A <=> s \in services
        BY <1>1, <2>4, <3>1, OverallAssumption
      <3>3. CASE s \in services
        <4>1. Len(ch'[v]) = 1 /\ ch'[v][1] = st /\ status'[s] = st /\ st # NULL
          BY <1>4, <2>4, <3>2, <3>3, NoStatusAssumption
        <4>2. Newest(v)' = st
          BY <4>1 DEF Newest
        <4>3. Current(s)' = st
          BY <2>1, <4>1 DEF Current
        <4> QED
          BY <4>2, <4>3
      <3>4. CASE s \notin services
        <4>1. ch'[v] = ch[v] /\ v \notin dropped /\ status'[s] = status[s]
          BY <1>4, <2>4, <3>1, <3>2, <3>4
        <4>2. Newest(v) = Current(s)
          BY <2>1, <2>4, <4>1 DEF Fine
        <4>3. Newest(v)' = Newest(v)
          BY <2>1, <4>1 DEF Newest
        <4>4. Current(s)' = Current(s)
          BY <2>1, <4>1 DEF Current
        <4> QED
          BY <4>2, <4>3, <4>4
      <3> QED
        BY <3>3, <3>4
    <2> QED
      BY <1>4, <2>1, <2>2, <2>3, <2>4 DEF Fine
  <1> QED
    BY <1>5, <1>6 DEF WatchInv

\* SetServing is called for a service the program reports.
LEMMA SetServingOK ==
    ASSUME WatchInv, NEW service \in Service, NEW st \in Status, SetServing(service, st)
    PROVE  WatchInv'
  <1>1. /\ status' \in [Service -> Status \cup {NULL}] /\ status'[service] = st
        /\ \A s \in Service \ {service} : status'[s] = status[s]
    BY DEF SetServing, WatchInv, HealthTypeOK
  <1>2. {service} \in SUBSET Service /\ \A s \in {service} : status'[s] = st
    BY <1>1
  <1>3. mu = NULL /\ Notify({service}, st) /\ UNCHANGED <<watchers, mu, watch, told>>
    BY DEF SetServing
  <1> QED
    BY <1>1, <1>2, <1>3, NotifyOK

\* SetNotServing tells all that watch a service there is a status of.
LEMMA SetNotServingOK == ASSUME WatchInv, SetNotServing PROVE WatchInv'
  <1>1. Known \in SUBSET Service /\ "NOT_SERVING" \in Status
    BY DEF Known, Status
  <1>2. /\ status' \in [Service -> Status \cup {NULL}]
        /\ \A s \in Known : status'[s] = "NOT_SERVING"
        /\ \A s \in Service \ Known : status'[s] = NULL /\ status[s] = NULL
    BY <1>1 DEF SetNotServing, Known
  <1>3. mu = NULL /\ Notify(Known, "NOT_SERVING") /\ UNCHANGED <<watchers, mu, watch, told>>
    BY DEF SetNotServing
  <1> QED
    BY <1>1, <1>2, <1>3, NotifyOK

-----------------------------------------------------------------------------
(* The process *)

ProcTypeOK ==
    /\ main \in Stage
    /\ signals \in {"notify", "done", "default"}
    /\ ready \in BOOLEAN
    /\ errCh \in 0..3
    /\ server \in [Server -> {"serving", "failed", "stopped"}]
    /\ accepting \in BOOLEAN /\ cancelled \in BOOLEAN
    /\ busy \in BOOLEAN

\* 1 if the goroutine of server s has ended, and may have put an error in errCh.
Ended(s) == IF server[s] = "stopped" THEN 1 ELSE 0

\* A goroutine reports once, so there are no more errors than goroutines that ended.
ErrorsBounded == errCh <= Ended("metrics") + Ended("health") + Ended("grpc")

ProcInv == ProcTypeOK /\ ErrorsBounded

MonolithInv == WatchInv /\ ProcInv

\* The servers listen.
LEMMA InitProc == Init => ProcInv
  <1> SUFFICES ASSUME Init PROVE ProcInv
    OBVIOUS
  <1>1. ProcTypeOK
    <2>1. server \in [Server -> {"serving", "failed", "stopped"}] /\ errCh \in 0..3
      BY DEF Init
    <2> QED
      BY <2>1, Zenon DEF Init, ProcTypeOK, Stage
  <1>2. ErrorsBounded
    <2>1. errCh = 0 /\ \A s \in Server : Ended(s) = 0
      BY DEF Init, Ended
    <2> QED
      BY <2>1 DEF ErrorsBounded, Server
  <1> QED
    BY <1>1, <1>2 DEF ProcInv

\* The number of goroutines that ended is a number.
LEMMA EndedNat == ASSUME NEW s PROVE Ended(s) \in {0, 1}
  BY DEF Ended

\* A goroutine that has not ended goes on or ends, reporting its error or not.
LEMMA ServerMoves ==
    ASSUME ProcInv, NEW s \in Server, NEW st \in {"serving", "failed", "stopped"},
           server' = [server EXCEPT ![s] = st], server[s] # "stopped",
           \/ UNCHANGED errCh
           \/ errCh < 3 /\ st = "stopped" /\ errCh' = errCh + 1
    PROVE  /\ server' \in [Server -> {"serving", "failed", "stopped"}]
           /\ errCh' \in 0..3 /\ ErrorsBounded'
  <1>1. server \in [Server -> {"serving", "failed", "stopped"}] /\ errCh \in 0..3
    BY DEF ProcInv, ProcTypeOK
  <1>2. errCh <= Ended("metrics") + Ended("health") + Ended("grpc")
    BY DEF ProcInv, ErrorsBounded
  <1>3. /\ server' \in [Server -> {"serving", "failed", "stopped"}] /\ server'[s] = st
        /\ \A r \in Server : r # s => server'[r] = server[r]
    BY <1>1
  <1>4. /\ \A r \in Server : r # s => Ended(r)' = Ended(r)
        /\ Ended(s) = 0 /\ (st = "stopped" => Ended(s)' = 1)
    BY <1>3 DEF Ended
  <1>5. \A r \in Server : Ended(r) \in {0, 1} /\ Ended(r)' \in {0, 1}
    BY DEF Ended
  <1>6. errCh' \in 0..3
    BY <1>1
  <1>7. errCh' <= Ended("metrics")' + Ended("health")' + Ended("grpc")'
    <2>1. CASE s = "metrics"
      BY <1>1, <1>2, <1>4, <1>5, <2>1 DEF Server
    <2>2. CASE s = "health"
      BY <1>1, <1>2, <1>4, <1>5, <2>2 DEF Server
    <2>3. CASE s = "grpc"
      BY <1>1, <1>2, <1>4, <1>5, <2>3 DEF Server
    <2> QED
      BY <2>1, <2>2, <2>3 DEF Server
  <1> QED
    BY <1>3, <1>6, <1>7 DEF ErrorsBounded

\* A server is told to stop: nothing else about servers changes.
LEMMA ServerStops ==
    ASSUME ProcInv, NEW s \in Server, server' = Stopped(s), UNCHANGED errCh
    PROVE  /\ server' \in [Server -> {"serving", "failed", "stopped"}]
           /\ errCh' \in 0..3 /\ ErrorsBounded'
  <1>1. server \in [Server -> {"serving", "failed", "stopped"}] /\ errCh \in 0..3
    BY DEF ProcInv, ProcTypeOK
  <1>2. CASE server[s] = "serving"
    <2>1. server' = [server EXCEPT ![s] = "stopped"]
      BY <1>2 DEF Stopped
    <2> QED
      BY <1>2, <2>1, ServerMoves
  <1>3. CASE server[s] # "serving"
    <2>1. server' = server
      BY <1>1, <1>3 DEF Stopped
    <2> QED
      BY <1>1, <2>1 DEF ProcInv, ErrorsBounded, Ended
  <1> QED
    BY <1>2, <1>3

\* A step that leaves servers and errors alone.
LEMMA ServersAlone ==
    ASSUME ProcInv, UNCHANGED <<server, errCh>>
    PROVE  /\ server' \in [Server -> {"serving", "failed", "stopped"}]
           /\ errCh' \in 0..3 /\ ErrorsBounded'
  BY DEF ProcInv, ProcTypeOK, ErrorsBounded, Ended

\* Every step of the process.
LEMMA StepProc == ASSUME ProcInv, [Next]_vars PROVE ProcInv'
  <1> USE DEF Stage
  <1>1. UNCHANGED procVars => ProcInv'
    BY ServersAlone DEF procVars, ProcInv, ProcTypeOK
  <1>2. CASE UNCHANGED vars \/ Report
             \/ \E w \in Watcher : WatchBegins(w) \/ WatchStep(w) \/ StreamSend(w) \/ StreamEnds(w)
    BY <1>1, <1>2 DEF vars, Report, WatchBegins, WatchStep, StreamSend, StreamEnds
  <1>3. CASE Signal \/ SignalKills \/ CallBegins \/ CallEnds
    BY <1>3, ServersAlone DEF Signal, SignalKills, CallBegins, CallEnds, ProcInv, ProcTypeOK
  <1>4. ASSUME NEW s \in Server, ServerFails(s) PROVE ProcInv'
    BY <1>4, ServerMoves DEF ServerFails, ProcInv, ProcTypeOK
  <1>5. ASSUME NEW s \in Server, ReportError(s) PROVE ProcInv'
    BY <1>5, ServerMoves DEF ReportError, ErrChSize, ProcInv, ProcTypeOK
  <1>6. CASE Wake
    <2>1. errCh' \in 0..3 /\ errCh' <= errCh
      BY <1>6 DEF Wake, ProcInv, ProcTypeOK
    <2>2. ErrorsBounded'
      <3>1. UNCHANGED <<Ended("metrics"), Ended("health"), Ended("grpc")>>
        BY <1>6 DEF Wake, Ended
      <3> QED
        BY <2>1, <3>1, EndedNat DEF ProcInv, ProcTypeOK, ErrorsBounded
    <2> QED
      BY <1>6, <2>1, <2>2 DEF Wake, ProcInv, ProcTypeOK
  <1>7. CASE Withdraw \/ MarkNotServing \/ Drained \/ ForceStop \/ End
    BY <1>7, ServersAlone
    DEF Withdraw, MarkNotServing, Drained, ForceStop, End, ProcInv, ProcTypeOK
  <1>8. CASE GracefulStop \/ ShutdownMetrics \/ ShutdownHealth
    <2>1. PICK s \in Server : server' = Stopped(s)
      BY <1>8 DEF GracefulStop, ShutdownMetrics, ShutdownHealth, Shutdown, Server
    <2>2. UNCHANGED <<errCh, signals, ready, cancelled, busy>> /\ main' \in Stage
          /\ accepting' \in {accepting, FALSE}
      BY <1>8 DEF GracefulStop, ShutdownMetrics, ShutdownHealth, Shutdown
    <2> QED
      BY <2>1, <2>2, ServerStops DEF ProcInv, ProcTypeOK
  <1> QED
    BY <1>2, <1>3, <1>4, <1>5, <1>6, <1>7, <1>8 DEF Next, MainStep

\* Every step of the health service, and those that leave it alone.
LEMMA StepWatch == ASSUME WatchInv, [Next]_vars PROVE WatchInv'
  <1>1. UNCHANGED healthVars => WatchInv'
    BY DEF healthVars, WatchInv, HealthTypeOK, Fine, Newest, Current
  <1>2. ASSUME NEW w \in Watcher, WatchBegins(w) PROVE WatchInv'
    BY <1>2, AddWatcherOK DEF WatchBegins
  <1>3. ASSUME NEW w \in Watcher, WatchStep(w) PROVE WatchInv'
    BY <1>3, SendCurrentOK, ReceiveOK, RemoveWatcherOK DEF WatchStep
  <1>4. ASSUME NEW w \in Watcher, StreamSend(w) \/ StreamEnds(w) PROVE WatchInv'
    BY <1>4, SendOK DEF StreamSend, StreamEnds
  <1>5. CASE Report
    <2>1. PICK s \in Reported, st \in {"SERVING", "NOT_SERVING"} : SetServing(s, st)
      BY <1>5 DEF Report
    <2>2. s \in Service /\ st \in Status
      BY ReportedAssumption DEF Status
    <2> QED
      BY <2>1, <2>2, SetServingOK
  <1>6. CASE MarkNotServing
    BY <1>6, SetNotServingOK DEF MarkNotServing
  <1>7. CASE \/ UNCHANGED vars \/ Signal \/ SignalKills \/ CallBegins \/ CallEnds
             \/ \E s \in Server : ServerFails(s) \/ ReportError(s)
             \/ Wake \/ Withdraw \/ GracefulStop \/ Drained \/ ForceStop
             \/ ShutdownMetrics \/ ShutdownHealth \/ End
    <2>1. UNCHANGED healthVars
      BY <1>7 DEF vars, Signal, SignalKills, CallBegins, CallEnds, ServerFails, ReportError,
           Wake, Withdraw, GracefulStop, Drained, ForceStop, ShutdownMetrics, ShutdownHealth,
           Shutdown, End
    <2> QED
      BY <1>1, <2>1
  <1> QED
    BY <1>2, <1>3, <1>4, <1>5, <1>6, <1>7 DEF Next, MainStep

\* The invariant of the whole process.
LEMMA MonolithHolds == Spec => []MonolithInv
  <1>1. Init => MonolithInv
    BY InitWatch, InitProc DEF MonolithInv
  <1>2. MonolithInv /\ [Next]_vars => MonolithInv'
    BY StepWatch, StepProc DEF MonolithInv
  <1> QED
    BY <1>1, <1>2, PTL DEF Spec

\* Every state of the process and of its health service is of the declared types.
THEOREM MonolithTyped == Spec => []TypeOK
  <1>1. MonolithInv => TypeOK
    BY DEF MonolithInv, WatchInv, ProcInv, ProcTypeOK, TypeOK
  <1> QED
    BY <1>1, MonolithHolds, PTL

\* The errCh of run() has room for the error of every server: no goroutine waits in
\* errCh <- err for ever, although run() receives from it once at most.
THEOREM ErrorsHaveRoom == Spec => []NoSenderWaits
  <1>1. MonolithInv => NoSenderWaits
    <2> SUFFICES ASSUME MonolithInv, NEW s \in Server, server[s] = "failed" PROVE errCh < 3
      BY DEF NoSenderWaits, ErrChSize
    <2>1. Ended(s) = 0
      BY DEF Ended
    <2>2. errCh <= Ended("metrics") + Ended("health") + Ended("grpc") /\ errCh \in 0..3
      BY DEF MonolithInv, ProcInv, ErrorsBounded, ProcTypeOK
    <2> QED
      BY <2>1, <2>2, EndedNat DEF Server
  <1> QED
    BY <1>1, MonolithHolds, PTL

\* Watch of health.go: a client that watches a service and is not up to date lost
\* an update because its channel was full; in no other way does one get lost,
\* however Watch calls come, lag and go while statuses are set.
THEOREM UpdatesLostOnlyWhenFull == Spec => []StaleOnlyAfterDrop
  <1>1. MonolithInv => StaleOnlyAfterDrop
    <2> SUFFICES ASSUME MonolithInv, NEW w \in Watcher, watch[w].pc = "select", ch[w] = <<>>,
                        w \notin dropped, watch[w].service # Overall
                 PROVE  told[w] = Current(watch[w].service)
      BY DEF StaleOnlyAfterDrop, Current
    <2>1. Fine(w) /\ Len(ch[w]) = 0
      BY DEF MonolithInv, WatchInv
    <2> QED
      BY <2>1 DEF Fine, Newest
  <1> QED
    BY <1>1, MonolithHolds, PTL

=============================================================================
