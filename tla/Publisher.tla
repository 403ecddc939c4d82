----------------------------- MODULE Publisher -----------------------------
(***************************************************************************)
(* The NATS publisher, internal/nats/publisher.go and connection.go: one   *)
(* goroutine that drains its bus subscription and publishes every change   *)
(* to JetStream, retrying with the same message id until the broker acks.  *)
(*                                                                         *)
(* The module leaves the observers that publish() calls after an ack to    *)
(* the module that composes it with a listener: PublishAcked is the whole  *)
(* of publish() but that call.  The NATS client's connection state and the *)
(* JetStream stream with its duplicate window are external.                *)
(***************************************************************************)
EXTENDS Integers, Sequences

CONSTANT BufCap  \* capacity of the bus subscription (defaultChanBuffer)

ASSUME PublisherAssumption == BufCap \in Nat \ {0}

VARIABLES
  chan,        \* the publisher's buffered subscription, oldest first
  cur,         \* the event publish() is working on, or NoEvent
  pub,         \* where the publisher's goroutine is
  nats,        \* state of the NATS connection
  failed,      \* the failed channel holds an error
  ctxDone,     \* the process context is cancelled
  stream,      \* messages stored in JetStream, oldest first
  remembered   \* message ids inside JetStream's duplicate window

pubVars == <<chan, cur, pub, nats, failed, ctxDone, stream, remembered>>

(***************************************************************************)
(* Events.  `kind' tells how a change fares with the broker's size limit:  *)
(* a row fits, a large one fits once truncated to its key columns, a wide  *)
(* one only when stripped, a huge one never.  Transaction markers and      *)
(* heartbeats are on the bus too, and not publishable.                     *)
(***************************************************************************)
Form == {"full", "truncated", "stripped"}
Fitting == [row |-> Form, large |-> {"truncated", "stripped"}, wide |-> {"stripped"},
            huge |-> {}, marker |-> {}]

Event == [seq : Nat, id : Nat \X Nat, change : Nat \X Nat,
          kind : DOMAIN Fitting, form : Form]
NoEvent == [seq |-> 0, id |-> <<0, 0>>, change |-> <<0, 0>>,
            kind |-> "marker", form |-> "full"]
Message == [id : Nat \X Nat, change : Nat \X Nat, form : Form]

IsPublishable(e) == e.kind # "marker"
Fits(e) == e.form \in Fitting[e.kind]

PubTypeOK ==
  /\ chan \in Seq(Event) /\ Len(chan) <= BufCap
  /\ cur \in Event
  /\ pub \in {"await", "loop", "wait", "exited"}
  /\ nats \in {"connecting", "connected", "closed"}
  /\ failed \in BOOLEAN /\ ctxDone \in BOOLEAN
  /\ stream \in Seq(Message)
  /\ remembered \in SUBSET (Nat \X Nat)

PubInit ==
  /\ chan = <<>> /\ cur = NoEvent /\ pub = "await"
  /\ nats = "connecting" /\ failed = FALSE /\ ctxDone = FALSE
  /\ stream = <<>> /\ remembered = {}

\* A process that ends takes the publisher with it; JetStream stays.
PubEnds ==
  /\ chan' = <<>> /\ cur' = NoEvent /\ pub' = "await"
  /\ nats' = "connecting" /\ failed' = FALSE /\ ctxDone' = FALSE
  /\ UNCHANGED <<stream, remembered>>

Stored == {stream[i].change : i \in 1 .. Len(stream)}

\* The events the publisher has taken or will take.
Queue == {e \in {chan[k] : k \in 1 .. Len(chan)} \cup {cur} : IsPublishable(e)}

\* No ack will ever come again from this process.
Halted == pub = "exited" \/ ctxDone

(***************************************************************************)
(* The bus as a listener sees it: HandleEvent blocks while the buffer is   *)
(* full (the action is not enabled) and, once the publisher unsubscribed,  *)
(* returns without delivering to anyone.                                   *)
(***************************************************************************)
HandleEvent(e) ==
  IF pub = "exited"
  THEN UNCHANGED chan
  ELSE /\ Len(chan) < BufCap
       /\ chan' = Append(chan, e)

\* The goroutine returns: the deferred unsub drops the subscription.
Exit ==
  /\ pub' = "exited"
  /\ cur' = NoEvent
  /\ chan' = <<>>

\* awaitStream: the stream is found...
AwaitStream ==
  /\ pub = "await" /\ nats = "connected" /\ ~ctxDone
  /\ pub' = "loop"
  /\ UNCHANGED <<chan, cur, nats, failed, ctxDone, stream, remembered>>

\* Wrong: the fatal error is not reported.
AwaitFatalSilently ==
  /\ pub = "await" /\ nats # "connecting" /\ ~ctxDone
  /\ Exit
  /\ UNCHANGED <<nats, failed, ctxDone, stream, remembered>>

\* ...or missing, which is fatal like a closed connection.  A cancelled context
\* is not reported, and other lookup errors are retried.
AwaitFatal ==
  /\ pub = "await" /\ nats # "connecting" /\ ~ctxDone
  /\ Exit /\ failed' = TRUE
  /\ UNCHANGED <<nats, ctxDone, stream, remembered>>

\* publishLoop takes an event; deliver ignores what is not publishable.  With
\* the context cancelled the select may still choose the channel.
Take ==
  /\ pub = "loop" /\ cur = NoEvent /\ chan # <<>>
  /\ chan' = Tail(chan)
  /\ cur' = IF IsPublishable(Head(chan)) THEN Head(chan) ELSE NoEvent
  /\ UNCHANGED <<pub, nats, failed, ctxDone, stream, remembered>>

\* The goroutine sees the cancelled context between two events.
LoopCancelled ==
  /\ ctxDone /\ cur = NoEvent
  /\ pub \in {"await", "loop"}
  /\ Exit
  /\ UNCHANGED <<nats, failed, ctxDone, stream, remembered>>

\* JetStream stores a message unless its id is in the duplicate window.
Store(e) ==
  IF e.id \in remembered
  THEN UNCHANGED <<stream, remembered>>
  ELSE /\ stream' = Append(stream, [id |-> e.id, change |-> e.change, form |-> e.form])
       /\ remembered' = remembered \cup {e.id}

Publishing == pub = "loop" /\ cur # NoEvent
CanSend == Publishing /\ nats = "connected" /\ ~ctxDone

\* The broker stored the message and its ack arrived.
PublishAcked ==
  /\ CanSend /\ Fits(cur)
  /\ Store(cur)
  /\ cur' = NoEvent
  /\ UNCHANGED <<chan, pub, nats, failed, ctxDone>>

\* The broker stored the message but the attempt reports an error: retried
\* after a delay with the same message id.
PublishAckLost ==
  /\ CanSend /\ Fits(cur)
  /\ Store(cur)
  /\ UNCHANGED <<chan, cur, pub, nats, failed, ctxDone>>

\* Wrong: the event whose attempt failed is skipped.
PublishSkipsFailed ==
  /\ Publishing /\ nats # "connected"
  /\ pub' = "loop" /\ cur' = NoEvent
  /\ UNCHANGED <<chan, nats, failed, ctxDone, stream, remembered>>

\* The attempt fails because the connection is down: wait for it.
PublishDisconnected ==
  /\ Publishing /\ nats # "connected"
  /\ pub' = "wait"
  /\ UNCHANGED <<chan, cur, nats, failed, ctxDone, stream, remembered>>

\* The broker refuses the message's size: publish the key columns only, then
\* nothing but the position, then give up on the event.
Smaller == [full |-> "truncated", truncated |-> "stripped"]

\* Wrong: never tries the stripped form.
TooLargeNeverStrips ==
  /\ CanSend /\ ~Fits(cur)
  /\ cur' = IF cur.form = "full" THEN [cur EXCEPT !.form = "truncated"] ELSE NoEvent
  /\ UNCHANGED <<chan, pub, nats, failed, ctxDone, stream, remembered>>

PublishTooLarge ==
  /\ CanSend /\ ~Fits(cur)
  /\ cur' = IF cur.form = "stripped" THEN NoEvent
            ELSE [cur EXCEPT !.form = Smaller[cur.form]]
  /\ UNCHANGED <<chan, pub, nats, failed, ctxDone, stream, remembered>>

\* publish returns the context's error; deliver lets the loop continue.
PublishCancelled ==
  /\ ctxDone /\ cur # NoEvent
  /\ \/ pub = "loop" /\ nats = "connected"
     \/ pub = "wait" /\ nats = "connecting"
  /\ cur' = NoEvent /\ pub' = "loop"
  /\ UNCHANGED <<chan, nats, failed, ctxDone, stream, remembered>>

\* waitConnected returns: back up, or closed for good, which ends the loop.
WaitOver ==
  /\ pub = "wait" /\ nats = "connected"
  /\ pub' = "loop"
  /\ UNCHANGED <<chan, cur, nats, failed, ctxDone, stream, remembered>>

WaitClosed ==
  /\ pub = "wait" /\ nats = "closed"
  /\ Exit
  /\ UNCHANGED <<nats, failed, ctxDone, stream, remembered>>

(***************************************************************************)
(* The environment.  The client reconnects for ever, except after an auth  *)
(* error, when it closes and onClosed reports the failure.                 *)
(***************************************************************************)
NatsConnect ==
  /\ nats = "connecting" /\ nats' = "connected"
  /\ UNCHANGED <<chan, cur, pub, failed, ctxDone, stream, remembered>>

NatsDisconnect ==
  /\ nats = "connected" /\ nats' = "connecting"
  /\ UNCHANGED <<chan, cur, pub, failed, ctxDone, stream, remembered>>

NatsClosed ==
  /\ nats = "connecting" /\ nats' = "closed"
  /\ failed' = TRUE
  /\ UNCHANGED <<chan, cur, pub, ctxDone, stream, remembered>>

\* An id leaves the duplicate window.
WindowExpires(id) ==
  /\ id \in remembered
  /\ remembered' = remembered \ {id}
  /\ UNCHANGED <<chan, cur, pub, nats, failed, ctxDone, stream>>

\* A signal, or main reacting to Failed(), cancels the process context.
CancelContext ==
  /\ ~ctxDone /\ ctxDone' = TRUE
  /\ UNCHANGED <<chan, cur, pub, nats, failed, stream, remembered>>

\* Steps of the publisher's goroutine that call no observer.
PublisherStep ==
  \/ AwaitStream \/ AwaitFatal \/ Take \/ LoopCancelled
  \/ PublishAckLost \/ PublishDisconnected \/ PublishTooLarge
  \/ PublishCancelled \/ WaitOver \/ WaitClosed
=============================================================================
