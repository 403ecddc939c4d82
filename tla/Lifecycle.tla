----------------------------- MODULE Lifecycle -----------------------------
(***************************************************************************)
(* The life of the watcher's process: run in main.go, the health handlers  *)
(* (internal/health/health.go) and the slot sampler                        *)
(* (internal/postgres/slotstats.go).  The pipelines are reduced to what    *)
(* start-up and shutdown depend on: a listener may be blocked in           *)
(* HandleEvent on the bus's full buffer, which the publisher drains only   *)
(* while NATS is connected and frees when it exits (modules Bus and        *)
(* Publisher show why).                                                    *)
(***************************************************************************)
EXTENDS Integers, Sequences, FiniteSets

CONSTANT Configs  \* the sets of parts the configuration may enable

ASSUME LifecycleAssumption == Configs \subseteq SUBSET {"nats", "pg", "mysql"}

Databases == {"pg", "mysql"}

VARIABLES
  enabled,    \* the parts enabled
  at,         \* where run is
  defers,     \* the deferred calls, the next one last
  cancelled,  \* the signal context
  starting, running,  \* main's flag and the service's
  http,       \* the health server answers
  listener,   \* listener[d]: "off", "start", "run", "stopping" or "stopped"
  blocked,    \* listeners inside HandleEvent, waiting for room
  full,       \* the subscription's buffer is full
  closed,     \* the service was shut down
  pub,        \* the publisher's goroutine
  verified, halted,  \* streamVerified; the publisher's own context
  nats,       \* the connection: "down", "up" or "closed" for good
  failed,     \* the failure channels: "nats", "mysql"
  slotOK,     \* the slot exists and is not invalidated
  unusable    \* the sampler's verdict

mainVars == <<at, defers, cancelled, starting, running, http>>
busVars == <<blocked, full, closed>>
pubVars == <<pub, verified, halted, nats>>
samplerVars == <<slotOK, unusable>>
lifeVars == <<enabled, mainVars, listener, busVars, pubVars, failed, samplerVars>>

LifeInit ==
  /\ enabled \in Configs
  /\ at = "nats" /\ defers = <<"stop", "bus">> /\ cancelled = FALSE
  /\ starting = FALSE /\ running = FALSE /\ http = FALSE
  /\ listener = [d \in Databases |-> "off"]
  /\ blocked = {} /\ full = FALSE /\ closed = FALSE
  /\ pub = "off" /\ verified = FALSE /\ halted = FALSE /\ nats \in {"down", "up"}
  /\ failed = {}
  /\ slotOK = TRUE /\ unusable = FALSE

(***************************************************************************)
(* Start-up.                                                               *)
(***************************************************************************)
Return ==
  /\ at' = "return"
  /\ UNCHANGED <<starting, running, http, cancelled, defers>>

Serve ==
  /\ at' = "pg" /\ http' = TRUE /\ starting' = TRUE
  /\ UNCHANGED <<cancelled, running>>

\* Publisher.Start; with a connection it looks for the stream at once.
startNATS ==
  /\ at = "nats"
  /\ \/ "nats" \notin enabled /\ Serve /\ UNCHANGED <<defers, pub, verified>>
     \/ /\ "nats" \in enabled /\ Serve
        /\ defers' = Append(defers, "pub")
        /\ \/ pub' = "await" /\ UNCHANGED verified
           \/ nats = "up" /\ pub' = "loop" /\ verified' = TRUE
     \/ "nats" \in enabled /\ nats = "up" /\ Return /\ UNCHANGED <<pub, verified>>
  /\ UNCHANGED <<enabled, listener, busVars, halted, nats, failed, samplerVars>>

Disabled(d, next) ==
  /\ at = d /\ d \notin enabled
  /\ at' = next /\ starting' = (starting /\ next # "wait")
  /\ UNCHANGED <<enabled, defers, cancelled, running, http, listener, busVars, pubVars, failed, samplerVars>>

\* The database answers; the snapshot, in main's goroutine, hands events to the
\* bus before Start returns.
StartListener(d) ==
  /\ at = d /\ d \in enabled /\ listener[d] = "off"
  /\ listener' = [listener EXCEPT ![d] = "start"]
  /\ UNCHANGED <<enabled, mainVars, busVars, pubVars, failed, samplerVars>>

\* Wrong: the listener's Stop is not deferred.
StartedUndeferred(d, next) ==
  /\ at = d /\ d \in enabled /\ listener[d] = "start" /\ d \notin blocked
  /\ listener' = [listener EXCEPT ![d] = "run"]
  /\ running' = TRUE
  /\ at' = next /\ starting' = (starting /\ next # "wait")
  /\ UNCHANGED <<enabled, defers, cancelled, http, busVars, pubVars, failed, samplerVars>>

Started(d, next) ==
  /\ at = d /\ d \in enabled /\ listener[d] = "start" /\ d \notin blocked
  /\ listener' = [listener EXCEPT ![d] = "run"]
  /\ running' = TRUE
  /\ defers' = Append(defers, d)
  /\ at' = next /\ starting' = (starting /\ next # "wait")
  /\ UNCHANGED <<enabled, cancelled, http, busVars, pubVars, failed, samplerVars>>

\* Start returns an error; waitForDatabase, for Postgres, also once the context
\* is cancelled.  Either way run returns at once.
StartFails(d) ==
  /\ at = d /\ d \in enabled /\ listener[d] \in {"off", "start"} /\ d \notin blocked
  /\ listener' = [listener EXCEPT ![d] = "stopped"]
  /\ Return
  /\ UNCHANGED <<enabled, busVars, pubVars, failed, samplerVars>>

(***************************************************************************)
(* Shutdown.                                                               *)
(***************************************************************************)
\* Wrong: the context stays as it is; nothing but the deferred stops follow.
waitWithoutStop ==
  /\ at = "wait" /\ (cancelled \/ failed # {})
  /\ at' = "return" /\ http' = FALSE
  /\ UNCHANGED <<enabled, defers, cancelled, starting, running, listener, busVars, pubVars, failed, samplerVars>>

\* waitForShutdown, stop and the server's Shutdown.
waitForShutdown ==
  /\ at = "wait" /\ (cancelled \/ failed # {})
  /\ at' = "return" /\ cancelled' = TRUE /\ http' = FALSE
  /\ UNCHANGED <<enabled, defers, starting, running, listener, busVars, pubVars, failed, samplerVars>>

Deferred(d) ==
  /\ at = "return" /\ defers # <<>> /\ defers[Len(defers)] = d

Pop ==
  /\ defers' = [i \in 1 .. Len(defers) - 1 |-> defers[i]]
  /\ UNCHANGED <<at, starting, running, http>>

\* Stop clears the running flag and cancels, then waits for the goroutines.
StopListener(d) ==
  /\ Deferred(d)
  /\ \/ /\ listener[d] = "run"
        /\ listener' = [listener EXCEPT ![d] = "stopping"]
        /\ UNCHANGED mainVars
     \/ /\ listener[d] = "stopping" /\ d \notin blocked
        /\ listener' = [listener EXCEPT ![d] = "stopped"]
        /\ Pop /\ UNCHANGED cancelled
  /\ UNCHANGED <<enabled, busVars, pubVars, failed, samplerVars>>

\* Wrong: waits for the goroutine without cancelling its context.
StopPublisherWaits ==
  /\ Deferred("pub")
  /\ IF pub = "gone" THEN Pop /\ UNCHANGED cancelled ELSE UNCHANGED mainVars
  /\ UNCHANGED <<enabled, listener, busVars, pubVars, failed, samplerVars>>

StopPublisher ==
  /\ Deferred("pub")
  /\ halted' = TRUE
  /\ IF pub = "gone" THEN Pop /\ UNCHANGED cancelled ELSE UNCHANGED mainVars
  /\ UNCHANGED <<enabled, listener, busVars, pub, verified, nats, failed, samplerVars>>

\* service.Shutdown: later events are refused, a blocked producer lets go.
Shutdown ==
  /\ Deferred("bus") /\ Pop
  /\ closed' = TRUE /\ blocked' = {}
  /\ UNCHANGED <<enabled, cancelled, full, listener, pubVars, failed, samplerVars>>

stop ==
  /\ Deferred("stop") /\ Pop /\ cancelled' = TRUE
  /\ UNCHANGED <<enabled, listener, busVars, pubVars, failed, samplerVars>>

Exit ==
  /\ at = "return" /\ defers = <<>>
  /\ at' = "end" /\ http' = FALSE
  /\ UNCHANGED <<enabled, defers, cancelled, starting, running, listener, busVars, pubVars, failed, samplerVars>>

Signal ==
  /\ ~cancelled /\ at # "end"
  /\ cancelled' = TRUE
  /\ UNCHANGED <<enabled, at, defers, starting, running, http, listener, busVars, pubVars, failed, samplerVars>>

(***************************************************************************)
(* The listeners and the publisher.                                        *)
(***************************************************************************)
Subscribed == pub \in {"await", "loop"}

\* One call of HandleEvent; Postgres's loop ends with the context.
Emit(d) ==
  /\ at # "end" /\ listener[d] \in {"start", "run"} /\ d \notin blocked
  /\ d = "pg" => ~cancelled
  /\ d = "mysql" => "mysql" \notin failed
  /\ IF Subscribed /\ full
     THEN blocked' = blocked \cup {d} /\ UNCHANGED full
     ELSE full' \in {full, Subscribed} /\ UNCHANGED blocked
  /\ UNCHANGED <<enabled, mainVars, listener, closed, pubVars, failed, samplerVars>>

Resume(d) ==
  /\ at # "end" /\ d \in blocked /\ (~full \/ ~Subscribed)
  /\ blocked' = blocked \ {d}
  /\ UNCHANGED <<enabled, mainVars, listener, full, closed, pubVars, failed, samplerVars>>

Drain ==
  /\ at # "end" /\ pub = "loop" /\ nats = "up" /\ full
  /\ full' = FALSE
  /\ UNCHANGED <<enabled, mainVars, listener, blocked, closed, pubVars, failed, samplerVars>>

awaitStream ==
  /\ at # "end" /\ pub = "await" /\ nats = "up"
  /\ \/ pub' = "loop" /\ verified' = TRUE /\ UNCHANGED failed
     \/ pub' = "gone" /\ failed' = failed \cup {"nats"} /\ UNCHANGED verified
  /\ UNCHANGED <<enabled, mainVars, listener, busVars, halted, nats, samplerVars>>

\* Wrong: only Stop ends the goroutine.
PublisherEndsOnStop ==
  /\ at # "end" /\ Subscribed /\ (halted \/ nats = "closed")
  /\ pub' = "gone"
  /\ UNCHANGED <<enabled, mainVars, listener, busVars, verified, halted, nats, failed, samplerVars>>

\* The goroutine ends with its context, or on a connection closed for good.
PublisherEnds ==
  /\ at # "end" /\ Subscribed /\ (cancelled \/ halted \/ nats = "closed")
  /\ pub' = "gone"
  /\ UNCHANGED <<enabled, mainVars, listener, busVars, verified, halted, nats, failed, samplerVars>>

Reconnect ==
  /\ at # "end" /\ nats \in {"down", "up"}
  /\ nats' \in {"down", "up", "closed"} \ {nats}
  /\ failed' = IF nats' = "closed" /\ pub # "off" /\ ~halted THEN failed \cup {"nats"} ELSE failed
  /\ UNCHANGED <<enabled, mainVars, listener, busVars, pub, verified, halted, samplerVars>>

CanalFails ==
  /\ at # "end" /\ listener["mysql"] = "run" /\ "mysql" \notin blocked
  /\ failed' = failed \cup {"mysql"}
  /\ UNCHANGED <<enabled, mainVars, listener, busVars, pubVars, samplerVars>>

(***************************************************************************)
(* The replication slot and its sampler.                                   *)
(***************************************************************************)
Streaming == listener["pg"] = "run" /\ ~cancelled

SlotLost ==
  /\ Streaming /\ slotOK /\ slotOK' = FALSE
  /\ UNCHANGED <<enabled, mainVars, listener, busVars, pubVars, failed, unusable>>

SlotRecreated ==
  /\ Streaming /\ "pg" \notin blocked /\ ~slotOK /\ slotOK' = TRUE
  /\ UNCHANGED <<enabled, mainVars, listener, busVars, pubVars, failed, unusable>>

\* Wrong: once unusable, always unusable.
sampleLatched ==
  /\ Streaming /\ unusable' = (unusable \/ ~slotOK)
  /\ UNCHANGED <<enabled, mainVars, listener, busVars, pubVars, failed, slotOK>>

\* A sample; a lookup that fails decides nothing, and changes nothing.
sampleOnce ==
  /\ Streaming /\ unusable' = ~slotOK
  /\ UNCHANGED <<enabled, mainVars, listener, busVars, pubVars, failed, slotOK>>

startPostgres == Disabled("pg", "mysql") \/ StartListener("pg") \/ Started("pg", "mysql")
startMySQL == Disabled("mysql", "wait") \/ StartListener("mysql") \/ Started("mysql", "wait")

LifeNext ==
  \/ startNATS \/ startPostgres \/ startMySQL \/ waitForShutdown
  \/ StopPublisher \/ Shutdown \/ stop \/ Exit \/ Signal
  \/ PublisherEnds \/ awaitStream \/ Drain \/ Reconnect \/ CanalFails
  \/ \E d \in Databases : StartFails(d) \/ StopListener(d) \/ Emit(d) \/ Resume(d)
  \/ SlotLost \/ SlotRecreated \/ sampleOnce

LifeSpec == LifeInit /\ [][LifeNext]_lifeVars

(***************************************************************************)
(* Fairness: main's goroutine and the publisher's are scheduled; a         *)
(* snapshot ends and a producer with room goes on; a connection to NATS    *)
(* that keeps coming back lets a publish through; waiting for Postgres     *)
(* ends with the context, connecting to MySQL ends one way or the other;   *)
(* the sampler's ticker fires and its lookups do not fail for ever.  NATS  *)
(* need never come back, and Postgres never answer.                        *)
(***************************************************************************)
MainRuns ==
  \/ startNATS \/ Disabled("pg", "mysql") \/ Disabled("mysql", "wait") \/ waitForShutdown
  \/ StopPublisher \/ Shutdown \/ stop \/ Exit

FairLifeSpec ==
  /\ LifeSpec /\ WF_lifeVars(MainRuns) /\ WF_lifeVars(PublisherEnds) /\ WF_lifeVars(sampleOnce)
  /\ SF_lifeVars(awaitStream) /\ SF_lifeVars(Drain)
  /\ WF_lifeVars(cancelled /\ StartFails("pg"))
  /\ WF_lifeVars(StartListener("mysql") \/ StartFails("mysql"))
  /\ SF_lifeVars(Started("pg", "mysql")) /\ SF_lifeVars(Started("mysql", "wait"))
  /\ \A d \in Databases : WF_lifeVars(Resume(d)) /\ SF_lifeVars(StopListener(d))

\* Postgres answers in the end.
Answers == WF_lifeVars(StartListener("pg"))

(***************************************************************************)
(* What the handlers answer.                                               *)
(***************************************************************************)
HealthHandler == IF running THEN "UP" ELSE IF starting THEN "STARTING" ELSE "DOWN"

\* Also true before the listener is stored: the verdict starts that way.
SlotUsable == ~unusable

notReadyReason ==
  IF ~running THEN "CDC listener not running"
  ELSE IF ~SlotUsable THEN "replication slot dropped or invalidated"
  ELSE IF "nats" \in enabled /\ ~(nats = "up" /\ verified) THEN "NATS not connected"
  ELSE ""

Ready == http /\ notReadyReason = ""

-----------------------------------------------------------------------------
(***************************************************************************)
(* The bus outlives the listeners, however run ends: an event refused by a *)
(* bus that is shut down would be taken back by the ack gate and its       *)
(* position confirmed (main.go:49 is deferred before main.go:77 and 86).   *)
(***************************************************************************)
BusOutlivesListeners ==
  closed => \A d \in Databases : listener[d] \in {"off", "stopped"}

(***************************************************************************)
(* A signal ends the process from every state of start-up and streaming,   *)
(* although NATS may stay down with the buffer full and a listener blocked *)
(* on it: the context frees the publisher, which frees the listener.       *)
(***************************************************************************)
SignalEnds == cancelled ~> at = "end"

(***************************************************************************)
(* "that means nothing will ever be published again, so the watcher must   *)
(* exit" (connection.go:104-105), and so it does after a MySQL failure     *)
(* (main.go:207-216), with NATS down too, once Postgres has answered.      *)
(***************************************************************************)
FailureEnds == Answers => ((failed # {}) ~> at = "end")

(***************************************************************************)
(* Once run returns, the process ends, a start that failed at any place    *)
(* included, unless NATS stays down: main.go:83 returns with the context   *)
(* as it was, so that a Postgres listener blocked on the full buffer has   *)
(* only the publisher to free it, and each deferred stop must free what    *)
(* the next one waits for.                                                 *)
(***************************************************************************)
ReturnEnds == []<>(nats # "down") => (at = "return" ~> at = "end")

\* The start is over, and NATS, the slot and the listeners are well.
Well ==
  /\ at = "wait" /\ ~cancelled /\ failed = {} /\ slotOK
  /\ "nats" \in enabled => nats = "up"

(***************************************************************************)
(* The probes follow the process, whatever happened before.  Until run is  *)
(* on its way out, /healthz is not DOWN, however long a snapshot or a      *)
(* database takes.  "reports alive but not ready while isStarting is true" *)
(* (health.go:50-51) does not hold: notReadyReason does not look at the    *)
(* flag, and /readyz may answer ready while MySQL still starts; it does    *)
(* not before the first database has started.  If everything stays well,   *)
(* /readyz comes to answer ready and goes on to; if the slot stays lost    *)
(* under a streaming listener, not ready (slotstats.go:139-158).           *)
(***************************************************************************)
ProbesFollow ==
  /\ [](http /\ at \in {"pg", "mysql", "wait"} => HealthHandler # "DOWN")
  /\ [](starting /\ Ready => \E d \in Databases : listener[d] \notin {"off", "start"})
  /\ <>[]Well => <>[]Ready
  /\ <>[](Streaming /\ ~slotOK) => <>[]~Ready
=============================================================================
