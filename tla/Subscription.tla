----------------------------- MODULE Subscription -----------------------------
(***************************************************************************)
(* One live subscription, composed with the event store and the outbox     *)
(* daemons: the goroutine of Store.Subscribe takes messages from the Redis *)
(* channel and feeds them to a forwarder (the loop of StreamMarketUpdates, *)
(* or the goroutine of MarketPriceUpdated), which sends the wanted ones to *)
(* the client.  Pub/Sub keeps nothing for a subscriber that is not linked. *)
(***************************************************************************)
EXTENDS OutboxPublisher

CONSTANTS
  Wanted,          \* coins the client asked for
  Unreadable,      \* ids of events whose payload cannot be deserialized
  InboxLimit,      \* messages the Redis client buffers (100 in go-redis)
  FeedLimit,       \* capacity of eventsChan (100)
  OutLimit,        \* summaries under way to the client (1 in MarketPriceUpdated)
  MaxLinkFaults    \* how many failures there may be (bound)

ASSUME SubscriptionAssumption ==
  /\ Wanted \subseteq Coins /\ Unreadable \subseteq Nat
  /\ {InboxLimit, FeedLimit, OutLimit} \subseteq Nat \ {0} /\ MaxLinkFaults \in Nat

VARIABLES
  cancelled,   \* the context of the subscription is done
  linked,      \* Redis sends to this subscriber
  closed,      \* the Redis client has closed the message channel
  inbox,       \* messages received and not yet taken
  fpc,         \* where the goroutine of Subscribe is
  held,        \* the event it is sending
  feed,        \* eventsChan
  wpc,         \* where the forwarder is
  carried,     \* the event it is sending
  out,         \* summaries under way to the client
  delivered,   \* what the client has received
  accepted,    \* observed: all messages that have come into the inbox
  linkFaults   \* failures so far

link == <<linked, closed, inbox, accepted>>
feeder == <<fpc, held>>
forwarder == <<wpc, carried, out>>
subscriptionVars ==
  <<cancelled, link, feeder, feed, forwarder, delivered, linkFaults>>
liveVars == <<outboxVars, subscriptionVars>>

Readable(id) == id \notin Unreadable
WantedEvent(id) == Readable(id) /\ \E e \in events : e.id = id /\ e.aggregate_id \in Wanted
-----------------------------------------------------------------------------
LiveInit ==
  /\ OutboxInit
  /\ cancelled = FALSE
  /\ linked = FALSE /\ closed = FALSE /\ inbox = <<>> /\ accepted = <<>>
  /\ fpc = "none" /\ held = <<>> /\ feed = <<>>
  /\ wpc = "none" /\ carried = <<>> /\ out = <<>>
  /\ delivered = <<>> /\ linkFaults = 0

LinkFault == linkFaults < MaxLinkFaults /\ linkFaults' = linkFaults + 1

\* Redis passes the message it receives in this step on; a Redis client whose buffer is
\* full drops it.
Deliver ==
  \/ /\ channel' # channel /\ linked /\ Len(inbox) < InboxLimit
     /\ inbox' = Append(inbox, channel'[Len(channel')])
     /\ accepted' = Append(accepted, channel'[Len(channel')])
  \/ /\ channel' = channel \/ ~linked \/ Len(inbox) = InboxLimit
     /\ UNCHANGED <<inbox, accepted>>

WriteSide ==
  /\ OutboxNext
  /\ Deliver
  /\ UNCHANGED <<cancelled, linked, closed, feeder, feed, forwarder, delivered, linkFaults>>

\* The client calls; Subscribe starts its goroutine and returns the channel.
Subscribe ==
  /\ wpc = "none"
  /\ fpc' = "connecting" /\ wpc' = "receiving"
  /\ UNCHANGED <<outboxVars, cancelled, link, held, feed, carried, out, delivered, linkFaults>>

\* Receive confirms the subscription.
Connect ==
  /\ fpc = "connecting" /\ ~cancelled
  /\ linked' = TRUE /\ fpc' = "loop"
  /\ UNCHANGED <<outboxVars, cancelled, closed, inbox, accepted, held, feed, forwarder,
                 delivered, linkFaults>>

ConnectFails ==
  /\ fpc = "connecting"
  /\ LinkFault
  /\ fpc' = "waiting"
  /\ UNCHANGED <<outboxVars, cancelled, link, held, feed, forwarder, delivered>>

\* The backoff, or the second before reconnecting, is over.
Reconnect ==
  /\ fpc = "waiting"
  /\ fpc' = "connecting"
  /\ UNCHANGED <<outboxVars, cancelled, link, held, feed, forwarder, delivered, linkFaults>>

\* The next message: decoded, or skipped.
TakeMessage ==
  /\ fpc = "loop" /\ inbox # <<>>
  /\ inbox' = Tail(inbox)
  /\ IF Readable(Head(inbox)) THEN fpc' = "sending" /\ held' = <<Head(inbox)>>
     ELSE UNCHANGED feeder
  /\ UNCHANGED <<outboxVars, cancelled, linked, closed, accepted, feed, forwarder,
                 delivered, linkFaults>>

\* A full channel drops the event (a select with a default case).
DropWhenFull ==
  /\ fpc = "sending"
  /\ feed' = IF Len(feed) < FeedLimit THEN feed \o held ELSE feed
  /\ held' = <<>> /\ fpc' = "loop"
  /\ UNCHANGED <<outboxVars, cancelled, link, forwarder, delivered, linkFaults>>

\* eventsChan has room.
SendEvent ==
  /\ fpc = "sending" /\ Len(feed) < FeedLimit
  /\ feed' = feed \o held /\ held' = <<>> /\ fpc' = "loop"
  /\ UNCHANGED <<outboxVars, cancelled, link, forwarder, delivered, linkFaults>>

\* The messages that were received before the close are not taken.
SeeClosedUndrained ==
  /\ fpc = "loop" /\ closed
  /\ closed' = FALSE /\ inbox' = <<>> /\ fpc' = "waiting"
  /\ UNCHANGED <<outboxVars, cancelled, linked, accepted, held, feed, forwarder, delivered, linkFaults>>

\* The message channel is closed and drained: close the subscription, wait, reconnect.
SeeClosed ==
  /\ fpc = "loop" /\ closed /\ inbox = <<>>
  /\ closed' = FALSE /\ fpc' = "waiting"
  /\ UNCHANGED <<outboxVars, cancelled, linked, inbox, accepted, held, feed, forwarder,
                 delivered, linkFaults>>

\* A blocked send does not look at the context.
EndFeedUnlessSending ==
  /\ cancelled /\ fpc \in {"connecting", "waiting", "loop"}
  /\ fpc' = "ended"
  /\ linked' = FALSE /\ inbox' = <<>>
  /\ UNCHANGED <<outboxVars, cancelled, closed, accepted, held, feed, forwarder,
                 delivered, linkFaults>>

\* Wherever the goroutine waits it sees ctx.Done, closes the subscription and eventsChan.
EndFeed ==
  /\ cancelled /\ fpc \in {"connecting", "waiting", "loop", "sending"}
  /\ fpc' = "ended" /\ held' = <<>>
  /\ linked' = FALSE /\ inbox' = <<>>
  /\ UNCHANGED <<outboxVars, cancelled, closed, accepted, feed, forwarder, delivered, linkFaults>>

\* The forwarder takes the next event and passes over those of other coins.
TakeEvent ==
  /\ wpc = "receiving" /\ feed # <<>>
  /\ feed' = Tail(feed)
  /\ IF WantedEvent(Head(feed)) THEN wpc' = "sending" /\ carried' = <<Head(feed)>>
     ELSE UNCHANGED <<wpc, carried>>
  /\ UNCHANGED <<outboxVars, cancelled, link, feeder, out, delivered, linkFaults>>

\* Send, or the send to the channel of the resolver.
SendSummary ==
  /\ wpc = "sending" /\ Len(out) < OutLimit
  /\ out' = out \o carried /\ carried' = <<>> /\ wpc' = "receiving"
  /\ UNCHANGED <<outboxVars, cancelled, link, feeder, feed, delivered, linkFaults>>

\* The context is done, and what was under way to the client is dropped with it.
Leave ==
  /\ ~cancelled /\ cancelled' = TRUE
  /\ out' = <<>> /\ delivered' = <<>> /\ accepted' = <<>>
  /\ UNCHANGED <<outboxVars, linked, closed, inbox, feeder, feed>>

\* stream.Send fails (there is no such failure in MarketPriceUpdated): the handler
\* returns, which ends the context of the call.
SendFails ==
  /\ wpc = "sending"
  /\ LinkFault
  /\ wpc' = "ended" /\ carried' = <<>>
  /\ Leave

\* The forwarder sees ctx.Done, or that eventsChan is closed and empty, and returns.
EndForwarder ==
  /\ \/ cancelled /\ wpc \in {"receiving", "sending"}
     \/ fpc = "ended" /\ feed = <<>> /\ wpc = "receiving"
  /\ wpc' = "ended" /\ carried' = <<>>
  /\ UNCHANGED <<outboxVars, cancelled, link, feeder, feed, out, delivered, linkFaults>>

ClientReads ==
  /\ out # <<>> /\ ~cancelled
  /\ out' = Tail(out) /\ delivered' = Append(delivered, Head(out))
  /\ UNCHANGED <<outboxVars, cancelled, link, feeder, feed, wpc, carried, linkFaults>>

\* The client leaves, or the server stops the call.
Cancel ==
  /\ wpc # "none"
  /\ Leave
  /\ UNCHANGED <<wpc, carried, linkFaults>>

\* The connection to Redis breaks; the Redis client connects and subscribes again, or, once
\* it has been closed itself, closes the message channel.
LoseLink ==
  /\ linked
  /\ LinkFault
  /\ linked' = FALSE /\ closed' \in BOOLEAN
  /\ UNCHANGED <<outboxVars, cancelled, inbox, accepted, feeder, feed, forwarder, delivered>>

Relink ==
  /\ fpc \in {"loop", "sending"} /\ ~linked /\ ~closed
  /\ linked' = TRUE
  /\ UNCHANGED <<outboxVars, cancelled, closed, inbox, accepted, feeder, feed, forwarder,
                 delivered, linkFaults>>

Feed == Connect \/ Reconnect \/ TakeMessage \/ SendEvent \/ SeeClosed \/ EndFeed
Forward == TakeEvent \/ SendSummary \/ EndForwarder

LiveNext ==
  \/ WriteSide \/ Subscribe \/ Feed \/ ConnectFails \/ Forward \/ SendFails
  \/ ClientReads \/ Cancel \/ LoseLink \/ Relink

\* The daemons poll for ever, goroutines that can go on do, the client reads while it is
\* there and the Redis client reconnects.
LiveSpec ==
  /\ LiveInit /\ [][LiveNext]_liveVars
  /\ \A p \in Publishers : WF_liveVars(PublishBatch(p) /\ WriteSide)
  /\ WF_liveVars(Feed) /\ WF_liveVars(Forward) /\ WF_liveVars(ClientReads) /\ WF_liveVars(Relink)
-----------------------------------------------------------------------------
\* Every variable has a value of its type, no buffer passes its capacity, and a
\* goroutine that has ended has closed its subscription.
LiveTypeOK ==
  /\ cancelled \in BOOLEAN
  /\ linked \in BOOLEAN /\ closed \in BOOLEAN
  /\ fpc \in {"none", "connecting", "waiting", "loop", "sending", "ended"}
  /\ wpc \in {"none", "receiving", "sending", "ended"}
  /\ Len(inbox) <= InboxLimit /\ Len(feed) <= FeedLimit /\ Len(out) <= OutLimit
  /\ Len(held) = (IF fpc = "sending" THEN 1 ELSE 0)
  /\ Len(carried) = (IF wpc = "sending" THEN 1 ELSE 0)
  /\ linked => fpc \in {"loop", "sending"}
  /\ linkFaults \in 0..MaxLinkFaults

\* Everything that came over the link and is not skipped, from the client back to the inbox.
Pipeline == delivered \o out \o carried \o feed \o held \o inbox

\* How much of it is past the forwarder.
Forwarded == Len(delivered) + Len(out) + Len(carried)

\* q is p, in its order, without some of the messages that the client does not want.
ThinnedTo(p, q) ==
  \E pos \in [DOMAIN q -> DOMAIN p] :
    /\ \A i, j \in DOMAIN q : i < j => pos[i] < pos[j]
    /\ \A i \in DOMAIN q : q[i] = p[pos[i]]
    /\ \A k \in DOMAIN p : WantedEvent(p[k]) => \E i \in DOMAIN q : pos[i] = k

\* While the client is there, every message that came over the link and that the client
\* wants is delivered or in exactly one buffer, in the order of the channel, and nothing
\* else is past the forwarder: blocked sends, reconnections and messages that are skipped
\* lose, repeat or swap nothing.
FeedIsExact ==
  ~cancelled =>
    ThinnedTo(accepted, Pipeline) /\ \A i \in 1..Forwarded : WantedEvent(Pipeline[i])

\* An event that is committed while the client is linked reaches the client, through
\* outbox, Redis and both goroutines, unless Redis got it while the link was down or the
\* buffer full, or the client leaves.
CommitReachesClient ==
  \A id \in 1..MaxSerial :
    (linked /\ WantedEvent(id)) ~>
      \/ cancelled
      \/ \E i \in DOMAIN delivered : delivered[i] = id
      \/ id \in Published /\ \A i \in DOMAIN accepted : accepted[i] # id

\* Once its context is done, a subscription leaves no goroutine behind, even if nobody
\* reads and every buffer is full.
SubscriptionEnds == cancelled ~> (fpc = "ended" /\ wpc = "ended")
================================================================================
