--------------------------- MODULE SlotOwnership ---------------------------
(***************************************************************************)
(* Owners of replication slots and the cleanup of orphaned ones,           *)
(* internal/postgres/slotregistry.go, slotcleanup.go and their use in      *)
(* listener.go.  Watchers on one database register as owners of their      *)
(* slots, heartbeat while they run, release on a graceful stop, and each   *)
(* drops slots of others that it finds orphaned.                           *)
(*                                                                         *)
(* Time is a count of ticks since each heartbeat, capped where nothing     *)
(* depends on it any more.  A cleanup pass and a heartbeat are short       *)
(* against a tick: their queries time out after seconds, heartbeats go     *)
(* stale after minutes.  A start may take any time.  Owner ids are         *)
(* distinct, as host names are.                                            *)
(***************************************************************************)
EXTENDS Integers, FiniteSets

CONSTANTS
  Watchers, Slots,
  Deployments, \* the slots the watchers may be configured with
  Cleaners,    \* watchers whose slot_pattern compiles
  Matching,    \* slots whose name matches slot_pattern
  AnyWAL,      \* retained_wal_threshold_bytes is 0
  None,
  Stale,       \* stale_after_minutes
  Beat,        \* heartbeat_seconds
  Skew,        \* how far a cleaner's clock runs ahead of the database's
  MaxStarts    \* bound: MaxStarts[w], starts of w's process

ASSUME SlotAssumption ==
  /\ Deployments \subseteq [Watchers -> Slots]
  /\ Cleaners \subseteq Watchers /\ Matching \subseteq Slots /\ AnyWAL \in BOOLEAN /\ None \notin Watchers
  /\ Stale \in Nat \ {0} /\ Beat \in Nat \ {0} /\ Skew \in Nat
  /\ MaxStarts \in [Watchers -> Nat]

VARIABLES
  slotOf,  \* the slot each watcher is configured with
  slot,    \* pg_replication_slots: whether each slot exists, who streams it
  row,     \* excalibase_cdc_slot_owners
  st,      \* where each watcher's process is
  starts,  \* how often it was started
  registry,  \* whether each watcher has a registry, l.registry # nil
  due,     \* ticks since its heartbeat's ticker fired, or started
  spoke,   \* whether its last heartbeat went through (history)
  unregistered,  \* watchers that were started once and did not register (history)
  pass,    \* pass[w]: candidates w's cleanup pass has yet to examine
  inactiveSince  \* inactiveSince[w][s]: ticks, or NotSeen

registryVars == <<registry, due, spoke, unregistered>>
slotVars == <<slotOf, slot, row, st, starts, registryVars, pass, inactiveSince>>

NoRow == [owner |-> None, age |-> 0, released |-> FALSE]
NotSeen == -1
Age == 0 .. Stale
Row == [owner : Watchers \cup {None}, age : Age, released : BOOLEAN]

\* A candidate as it was read, with the watchers heard of at that moment (history).
Candidate == [slot : Slots, active : BOOLEAN, row : Row, heard : SUBSET Watchers]

SlotInit ==
  /\ slotOf \in Deployments
  /\ slot = [s \in Slots |-> [exists |-> FALSE, by |-> None]]
  /\ row = [s \in Slots |-> NoRow]
  /\ st = [w \in Watchers |-> "down"]
  /\ starts = [w \in Watchers |-> 0]
  /\ registry = [w \in Watchers |-> FALSE]
  /\ due = [w \in Watchers |-> 0]
  /\ spoke = [w \in Watchers |-> FALSE]
  /\ unregistered = {}
  /\ pass = [w \in Watchers |-> {}]
  /\ inactiveSince = [w \in Watchers |-> [s \in Slots |-> NotSeen]]

Owns(w) == row[slotOf[w]].owner = w
Streams(w) == slot[slotOf[w]].by = w

\* The goroutines of startSlotMaintenance run.
Maintained(w) == st[w] = "run" /\ registry[w]

(***************************************************************************)
(* Start: register, ensure the slot, snapshot, then the goroutines.        *)
(***************************************************************************)
StartProcess(w) ==
  /\ st[w] = "down" /\ starts[w] < MaxStarts[w]
  /\ st' = [st EXCEPT ![w] = "setup"]
  /\ starts' = [starts EXCEPT ![w] = @ + 1]
  /\ UNCHANGED <<slotOf, slot, row, registryVars, pass, inactiveSince>>

\* ensureTable or register may fail on any start, and cleanup may be disabled:
\* the watcher goes on without a registry, the row as it was.
setupSlotOwnership(w) ==
  /\ st[w] = "setup"
  /\ st' = [st EXCEPT ![w] = "claimed"]
  /\ \/ /\ row' = [row EXCEPT ![slotOf[w]] = [owner |-> w, age |-> 0, released |-> FALSE]]
        /\ registry' = [registry EXCEPT ![w] = TRUE]
        /\ UNCHANGED unregistered
     \/ /\ unregistered' = unregistered \cup {w}
        /\ UNCHANGED <<row, registry>>
  /\ UNCHANGED <<slotOf, slot, starts, due, spoke, pass, inactiveSince>>

\* Wrong: the slot may come before the registration.
createSlotUnregistered(w) ==
  /\ st[w] \in {"setup", "claimed"}
  /\ st' = [st EXCEPT ![w] = "snapshot"]
  /\ slot' = [slot EXCEPT ![slotOf[w]].exists = TRUE]
  /\ UNCHANGED <<slotOf, row, starts, registryVars, pass, inactiveSince>>

createReplicationSlotIfNotExists(w) ==
  /\ st[w] = "claimed"
  /\ st' = [st EXCEPT ![w] = "snapshot"]
  /\ slot' = [slot EXCEPT ![slotOf[w]].exists = TRUE]
  /\ UNCHANGED <<slotOf, row, starts, registryVars, pass, inactiveSince>>

\* The snapshot is over: streaming, heartbeat and cleanup start.
startSlotMaintenance(w) ==
  /\ st[w] = "snapshot"
  /\ st' = [st EXCEPT ![w] = "run"]
  /\ UNCHANGED <<slotOf, slot, row, starts, registryVars, pass, inactiveSince>>

(***************************************************************************)
(* A running watcher.                                                      *)
(***************************************************************************)
Connect(w) ==
  /\ st[w] = "run" /\ slot[slotOf[w]] = [exists |-> TRUE, by |-> None]
  /\ slot' = [slot EXCEPT ![slotOf[w]].by = w]
  /\ UNCHANGED <<slotOf, row, st, starts, registryVars, pass, inactiveSince>>

Disconnect(w) ==
  /\ Streams(w)
  /\ slot' = [slot EXCEPT ![slotOf[w]].by = None]
  /\ UNCHANGED <<slotOf, row, st, starts, registryVars, pass, inactiveSince>>

\* Wrong: a missing slot is not created again.
RecreateNothing(w) ==
  /\ st[w] = "run" /\ ~slot[slotOf[w]].exists
  /\ UNCHANGED slotVars

recreateUnusableSlot(w) ==
  /\ st[w] = "run" /\ ~slot[slotOf[w]].exists
  /\ slot' = [slot EXCEPT ![slotOf[w]].exists = TRUE]
  /\ UNCHANGED <<slotOf, row, st, starts, registryVars, pass, inactiveSince>>

\* runHeartbeat's ticker fires: the row is updated only if it still is this
\* owner's; a heartbeat that fails is logged, and the next one due as usual.
heartbeat(w) ==
  /\ Maintained(w) /\ due[w] = Beat
  /\ due' = [due EXCEPT ![w] = 0]
  /\ \E ok \in BOOLEAN :
       /\ spoke' = [spoke EXCEPT ![w] = ok]
       /\ row' = IF ok /\ Owns(w) THEN [row EXCEPT ![slotOf[w]].age = 0] ELSE row
  /\ UNCHANGED <<slotOf, slot, st, starts, registry, unregistered, pass, inactiveSince>>

\* Stop waits for the goroutines and closes the connection...
StopWatcher(w) ==
  /\ st[w] = "run"
  /\ st' = [st EXCEPT ![w] = "stop"]
  /\ slot' = IF Streams(w) THEN [slot EXCEPT ![slotOf[w]].by = None] ELSE slot
  /\ pass' = [pass EXCEPT ![w] = {}]
  /\ UNCHANGED <<slotOf, row, starts, registryVars, inactiveSince>>

MemoryLost(w) ==
  /\ st' = [st EXCEPT ![w] = "down"]
  /\ registry' = [registry EXCEPT ![w] = FALSE]
  /\ due' = [due EXCEPT ![w] = 0] /\ spoke' = [spoke EXCEPT ![w] = FALSE]
  /\ inactiveSince' = [inactiveSince EXCEPT ![w] = [s \in Slots |-> NotSeen]]

\* Wrong: marks the row whoever owns it.
releaseAnyOwner(w) ==
  /\ st[w] = "stop" /\ MemoryLost(w)
  /\ row' = IF row[slotOf[w]] = NoRow THEN row ELSE [row EXCEPT ![slotOf[w]].released = TRUE]
  /\ UNCHANGED <<slotOf, slot, starts, unregistered, pass>>

\* ...and then marks the row, if it still is this owner's.
releaseSlotOwnership(w) ==
  /\ st[w] = "stop" /\ MemoryLost(w)
  /\ row' = IF registry[w] /\ Owns(w)
            THEN [row EXCEPT ![slotOf[w]].released = TRUE] ELSE row
  /\ UNCHANGED <<slotOf, slot, starts, unregistered, pass>>

\* The process dies, or its start or its release fails.
Crash(w) ==
  /\ st[w] # "down" /\ MemoryLost(w)
  /\ slot' = IF Streams(w) THEN [slot EXCEPT ![slotOf[w]].by = None] ELSE slot
  /\ pass' = [pass EXCEPT ![w] = {}]
  /\ UNCHANGED <<slotOf, row, starts, unregistered>>

(***************************************************************************)
(* The cleaner.                                                            *)
(***************************************************************************)
\* One query reads all slots with their rows.
fetchSlotCandidates(w) ==
  /\ w \in Cleaners /\ Maintained(w) /\ pass[w] = {}
  /\ pass' = [pass EXCEPT ![w] =
       {[slot |-> s, active |-> slot[s].by # None, row |-> row[s],
         heard |-> {v \in Watchers : slotOf[v] = s /\ Maintained(v) /\ spoke[v]}]
        : s \in {x \in Slots : slot[x].exists}}]
  /\ UNCHANGED <<slotOf, slot, row, st, starts, registryVars, inactiveSince>>

\* Wrong: an unregistered slot is seen inactive for the first time, each time.
observeInactiveAnew(w, c) == IF c.active \/ c.row # NoRow THEN NotSeen ELSE 0

\* First-seen-inactive of an unregistered slot.
observeInactive(w, c) ==
  IF c.active \/ c.row # NoRow THEN NotSeen
  ELSE IF inactiveSince[w][c.slot] = NotSeen THEN 0 ELSE inactiveSince[w][c.slot]

\* Wrong: forgets to look at the heartbeat.
decideInactive(w, c, bulky, firstSeen) ==
  /\ c.slot # slotOf[w] /\ c.slot \in Matching /\ ~c.active /\ bulky

\* The orphan rules; the cleaner's own clock measures firstSeen, the
\* database's clock wrote the heartbeat.  bulky: the slot retains more WAL than
\* the threshold.
decide(w, c, bulky, firstSeen) ==
  /\ c.slot # slotOf[w] /\ c.slot \in Matching /\ ~c.active /\ bulky
  /\ \/ c.row.released
     \/ IF c.row = NoRow THEN firstSeen >= Stale ELSE c.row.age + Skew >= Stale

\* cleanupOnce examines one candidate; the server refuses to drop a slot that
\* is active or gone by now, which is only logged.
Droppable(s) == slot[s] = [exists |-> TRUE, by |-> None]

Examine(w, c) ==
  /\ c \in pass[w]
  /\ \E bulky \in IF AnyWAL THEN {TRUE} ELSE BOOLEAN :
       LET firstSeen == observeInactive(w, c)
           drops == decide(w, c, bulky, firstSeen) /\ Droppable(c.slot)
       IN /\ slot' = IF drops THEN [slot EXCEPT ![c.slot].exists = FALSE] ELSE slot
          /\ inactiveSince' = [inactiveSince EXCEPT ![w][c.slot] = IF drops THEN NotSeen ELSE firstSeen]
  /\ pass' = [pass EXCEPT ![w] = @ \ {c}]
  /\ UNCHANGED <<slotOf, row, st, starts, registryVars>>

(***************************************************************************)
(* Time.  The heartbeat's ticker fires every Beat, the first time Beat     *)
(* after the snapshot; how long the snapshot takes is not bounded.         *)
(***************************************************************************)
Older(n) == IF n = NotSeen \/ n = Stale THEN n ELSE n + 1

Tick ==
  /\ \A w \in Watchers : pass[w] = {} /\ (Maintained(w) => due[w] < Beat)
  /\ due' = [w \in Watchers |-> IF Maintained(w) THEN due[w] + 1 ELSE due[w]]
  /\ row' = [s \in Slots |-> IF row[s] = NoRow THEN NoRow
                             ELSE [row[s] EXCEPT !.age = Older(@)]]
  /\ inactiveSince' = [w \in Watchers |-> [s \in Slots |-> Older(inactiveSince[w][s])]]
  /\ UNCHANGED <<slotOf, slot, st, starts, registry, spoke, unregistered, pass>>

Starting(w) ==
  setupSlotOwnership(w) \/ createReplicationSlotIfNotExists(w) \/ startSlotMaintenance(w)
Cleaning(w) == \E c \in pass[w] : Examine(w, c)

SlotNext ==
  \/ \E w \in Watchers :
       \/ StartProcess(w) \/ Starting(w)
       \/ Connect(w) \/ Disconnect(w) \/ recreateUnusableSlot(w) \/ heartbeat(w)
       \/ StopWatcher(w) \/ releaseSlotOwnership(w) \/ Crash(w)
       \/ fetchSlotCandidates(w) \/ Cleaning(w)
  \/ Tick

SlotSpec == SlotInit /\ [][SlotNext]_slotVars

(***************************************************************************)
(* Fairness: time goes on; a pass makes progress; a running watcher        *)
(* heartbeats, retries its connection (listenLoop) and cleans up on its    *)
(* ticker.  Nobody has to stop, crash or come back, nor a snapshot to end. *)
(***************************************************************************)
FairSlotSpec ==
  /\ SlotSpec /\ SF_slotVars(Tick)
  /\ \A w \in Watchers :
       /\ WF_slotVars(recreateUnusableSlot(w)) /\ SF_slotVars(Connect(w))
       /\ WF_slotVars(heartbeat(w)) /\ WF_slotVars(fetchSlotCandidates(w)) /\ WF_slotVars(Cleaning(w))

-----------------------------------------------------------------------------
(***************************************************************************)
(* A row marked released has no owner that works with a registry: in a     *)
(* rolling update the watcher that stops does not release the slot its     *)
(* successor has claimed (slotregistry.go:34), and a registration takes    *)
(* the mark back (26-30).  An owner whose registration failed may stream   *)
(* from a slot that is still marked (listener.go:198-201).                 *)
(***************************************************************************)
ReleasedMeansStopped ==
  \A s \in Slots : row[s].released => ~registry[row[s].owner]

(***************************************************************************)
(* "Registered before the slot exists so a concurrent cleanup never sees   *)
(* an unowned slot" (listener.go:148-149), unless a watcher of the slot    *)
(* could not register (194-201).                                           *)
(***************************************************************************)
CleanupSeesOwners ==
  \A w \in Watchers : \A c \in pass[w] :
    c.row = NoRow => \E v \in unregistered : slotOf[v] = c.slot

Drops(w, c) ==
  /\ slot[c.slot].exists /\ ~slot'[c.slot].exists
  /\ pass'[w] = pass[w] \ {c} /\ c \in pass[w]

(***************************************************************************)
(* A slot is not dropped if its owner was running and its last heartbeat   *)
(* had gone through when the pass read the slots, although the owner       *)
(* reconnects, restarts or stops meanwhile: the registry tells "a slot     *)
(* whose owner is merely reconnecting from one nobody will ever resume"    *)
(* (slotregistry.go:14-15).  Before the first heartbeat, which a snapshot  *)
(* may delay for any time, and without a registration, it may be dropped.  *)
(***************************************************************************)
HeardOwnerKeepsSlot ==
  [][\A w \in Watchers : \A c \in pass[w] : Drops(w, c) => c.row.owner \notin c.heard]_slotVars

\* No watcher of s is up, nor will one start.
Abandoned(s) ==
  \A w \in Watchers : slotOf[w] = s => st[w] = "down" /\ starts[w] = MaxStarts[w]

(***************************************************************************)
(* An abandoned slot does not retain WAL for ever: a watcher of another    *)
(* slot that registered and stays up drops it, owned or not (cleanupOnce). *)
(***************************************************************************)
OrphansAreDropped ==
  \A s \in Matching, w \in Cleaners :
    (Abandoned(s) /\ Maintained(w) /\ slotOf[w] # s) ~> (~slot[s].exists \/ ~Maintained(w))

(***************************************************************************)
(* A running watcher gets its slot streamed, by itself or by the watcher   *)
(* it replaces, although a cleaner may have dropped it (listener.go:323).  *)
(***************************************************************************)
RunningGetsItsSlot ==
  \A w \in Watchers : st[w] = "run" ~> (slot[slotOf[w]].by # None \/ st[w] # "run")
=============================================================================
