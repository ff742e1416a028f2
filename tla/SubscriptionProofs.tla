-------------------------- MODULE SubscriptionProofs --------------------------
(***************************************************************************)
(* Proofs about the way of an event from Redis to a subscriber: what the   *)
(* goroutines of a subscription keep, and that the composed system is one  *)
(* of outbox daemons, so that all that is proved of those holds in it.     *)
(***************************************************************************)
EXTENDS Subscription, OutboxPublisherProofs, MessageSequences

Buffers ==
  /\ inbox \in Seq(Nat) /\ feed \in Seq(Nat) /\ out \in Seq(Nat) /\ held \in Seq(Nat)
  /\ carried \in Seq(Nat) /\ delivered \in Seq(Nat) /\ accepted \in Seq(Nat)

\* Subscribe starts both goroutines, only a context that is done ends the first, and the
\* Redis client closes its channel only under a goroutine that has subscribed.
Lifecycle ==
  /\ wpc = "none" => fpc = "none"
  /\ fpc = "ended" => cancelled
  /\ closed => ~linked /\ fpc \in {"loop", "sending", "ended"}

AcceptedIsPublished == \A i \in DOMAIN accepted : accepted[i] \in Published

LiveInv == PipelineInv /\ LiveTypeOK /\ Buffers /\ Lifecycle /\ AcceptedIsPublished

WantedIds == {id \in Nat : WantedEvent(id)}

\* FeedIsExact, without its condition.
Exact ==
  /\ Thinned(accepted, Pipeline, WantedIds)
  /\ \A i \in 1..Forwarded : Pipeline[i] \in WantedIds

\* No step of the subscription is a step of a session or a daemon.
LEMMA SubscriptionLeavesOutbox == [LiveNext]_liveVars => [OutboxNext]_outboxVars
<1>1. Feed => UNCHANGED outboxVars
  BY Zenon DEF Feed, Connect, Reconnect, TakeMessage, SendEvent, SeeClosed, EndFeed
<1>2. Forward => UNCHANGED outboxVars
  BY Zenon DEF Forward, TakeEvent, SendSummary, EndForwarder
<1>3. Subscribe \/ ConnectFails \/ ClientReads \/ LoseLink \/ Relink => UNCHANGED outboxVars
  BY Zenon DEF Subscribe, ConnectFails, ClientReads, LoseLink, Relink
<1>4. SendFails \/ Cancel => UNCHANGED outboxVars
  BY Zenon DEF SendFails, Cancel, Leave
<1>5. WriteSide => OutboxNext
  BY Zenon DEF WriteSide
<1>6. UNCHANGED liveVars => UNCHANGED outboxVars
  BY Zenon DEF liveVars
<1>7. QED
  BY <1>1, <1>2, <1>3, <1>4, <1>5, <1>6, Zenon DEF LiveNext

\* The system with a subscriber is one of sessions and outbox daemons, so that what is
\* proved of those holds in it.
THEOREM LiveUsesOutbox == LiveSpec => OutboxSpec
<1>1. LiveInit => OutboxInit
  BY Zenon DEF LiveInit
<1>2. QED
  BY <1>1, SubscriptionLeavesOutbox, PTL DEF LiveSpec, OutboxSpec

\* A step of a session or daemon commits events with ids that no event has, and Redis
\* receives at most one message.
LEMMA OutboxStep ==
  ASSUME PipelineInv, [OutboxNext]_outboxVars
  PROVE  /\ events \subseteq events'
         /\ \A e \in events' : e \in events \/ \A f \in events : f.id # e.id
         /\ channel' # channel => \E id \in Nat \ {0} : channel' = Append(channel, id)
<1> USE DEF PipelineInv, OutboxInv
<1>1. CASE StoreNext /\ UNCHANGED publisherVars
  <2>1. channel' = channel
    BY <1>1, Zenon DEF publisherVars
  <2>2. ASSUME NEW w \in Writers, Commit(w)
        PROVE  /\ events \subseteq events'
               /\ \A e \in events' : e \in events \/ \A f \in events : f.id # e.id
    BY <2>2, Zenon DEF Commit, FreshIds
  <2>3. events' = events \/ \E w \in Writers : Commit(w)
    BY <1>1, Zenon
    DEF StoreNext, AppendEvents, ProcessMarketData, AcquireLock, VersionMatches, VersionConflict,
        InsertEvent, InsertFails, InsertOutbox, Abort, tables
  <2>4. QED
    BY <2>1, <2>2, <2>3, Zenon
<1>2. ASSUME NEW p \in Publishers, Publish(p) \/ PublishFails(p)
      PROVE  events' = events /\ (channel' # channel => \E id \in Nat \ {0} : channel' = Append(channel, id))
  <2>1. NextUnsent(p) \in records[p] \ sent[p]
    BY <1>2, NextUnsentIsFirst, Zenon DEF Publish, PublishFails
  <2>2. NextUnsent(p).event_id \in Nat \ {0}
    BY <2>1 DEF DaemonTypeOK, OutboxRow
  <2>3. QED
    BY <1>2, <2>2, Zenon DEF Publish, PublishFails, storeVars, tables
<1>3. ASSUME NEW p \in Publishers,
             SelectBatch(p) \/ PublishedAll(p) \/ DeleteAndCommit(p) \/ RollbackBatch(p)
      PROVE  events' = events /\ channel' = channel
  BY <1>3, Zenon DEF SelectBatch, PublishedAll, DeleteAndCommit, RollbackBatch, EndBatch, storeVars, tables
<1>4. CASE UNCHANGED outboxVars
  BY <1>4, Zenon DEF outboxVars, publisherVars, storeVars, tables
<1>5. QED
  BY <1>1, <1>2, <1>3, <1>4, Zenon DEF OutboxNext, PublishBatch

\* So an id that Redis has received stays wanted or not.
LEMMA WantedIsStable ==
  ASSUME PipelineInv, [OutboxNext]_outboxVars
  PROVE  /\ WantedIds \subseteq WantedIds'
         /\ \A id \in Published : id \in WantedIds' => id \in WantedIds
<1>1. /\ events \subseteq events'
      /\ \A e \in events' : e \in events \/ \A f \in events : f.id # e.id
  BY OutboxStep, Zenon
<1>2. \A id \in Published : \E e \in events : e.id = id
  BY Zenon DEF PipelineInv, OutboxInv, PublishedIsCommitted
<1>3. QED
  BY <1>1, <1>2, Zenon DEF WantedIds, WantedEvent, Readable

\* What Redis passes on in this step.
LEMMA DeliverStep ==
  ASSUME PipelineInv, [OutboxNext]_outboxVars, Deliver, Buffers, AcceptedIsPublished
  PROVE  \/ UNCHANGED <<inbox, accepted>> /\ AcceptedIsPublished'
         \/ \E id \in Nat :
              /\ linked /\ Len(inbox) < InboxLimit
              /\ inbox' = Append(inbox, id) /\ accepted' = Append(accepted, id)
              /\ AcceptedIsPublished'
<1>1. channel \in Seq(Nat \ {0})
  BY Zenon DEF PipelineInv, OutboxInv, DaemonTypeOK
<1>2. Published \subseteq Published'
        /\ (channel' # channel =>
              \E id \in Nat \ {0} : id = channel'[Len(channel')] /\ Published' = Published \cup {id})
  <2>1. CASE channel' = channel
    BY <2>1, Zenon DEF Published
  <2>2. CASE channel' # channel
    <3>1. PICK id \in Nat \ {0} : channel' = Append(channel, id)
      BY <2>2, OutboxStep, Zenon
    <3>2. Published' = Published \cup {id}
      BY <1>1, <3>1, PublishedGrows, Zenon
    <3>3. channel'[Len(channel')] = id
      BY <1>1, <3>1
    <3>4. QED
      BY <3>2, <3>3, Zenon
  <2>3. QED
    BY <2>1, <2>2, Zenon
<1>3. CASE UNCHANGED <<inbox, accepted>>
  BY <1>2, <1>3, Zenon DEF AcceptedIsPublished
<1>4. CASE /\ channel' # channel /\ linked /\ Len(inbox) < InboxLimit
           /\ inbox' = Append(inbox, channel'[Len(channel')])
           /\ accepted' = Append(accepted, channel'[Len(channel')])
  <2>1. PICK id \in Nat \ {0} : id = channel'[Len(channel')] /\ Published' = Published \cup {id}
    BY <1>2, <1>4, Zenon
  <2>2. inbox' = Append(inbox, id) /\ accepted' = Append(accepted, id)
    BY <1>4, <2>1, Zenon
  <2>3. AcceptedIsPublished'
    <3>1. accepted \in Seq(Nat)
      BY Zenon DEF Buffers
    <3>2. \A i \in DOMAIN accepted' :
            \/ i \in DOMAIN accepted /\ accepted'[i] = accepted[i]
            \/ accepted'[i] = id
      BY <2>2, <3>1
    <3>3. QED
      BY <1>2, <2>1, <3>2, Zenon DEF AcceptedIsPublished
  <2>4. QED
    BY <1>4, <2>2, <2>3, Zenon
<1>5. QED
  BY <1>3, <1>4, Zenon DEF Deliver

\* The parts of the type invariant.
Places ==
  /\ cancelled \in BOOLEAN /\ linked \in BOOLEAN /\ closed \in BOOLEAN
  /\ fpc \in {"none", "connecting", "waiting", "loop", "sending", "ended"}
  /\ wpc \in {"none", "receiving", "sending", "ended"}
  /\ linked => fpc \in {"loop", "sending"}

Capacities ==
  /\ Len(inbox) <= InboxLimit /\ Len(feed) <= FeedLimit /\ Len(out) <= OutLimit
  /\ Len(held) = (IF fpc = "sending" THEN 1 ELSE 0)
  /\ Len(carried) = (IF wpc = "sending" THEN 1 ELSE 0)

LEMMA LiveTypeParts == LiveTypeOK <=> Places /\ Capacities /\ linkFaults \in 0..MaxLinkFaults
BY Zenon DEF LiveTypeOK, Places, Capacities

\* The goroutines and the link go through their states.
LEMMA LiveKeepsPlaces ==
  ASSUME Places, Lifecycle, [LiveNext]_liveVars
  PROVE  Places' /\ Lifecycle'
<1> USE DEF Places, Lifecycle, link, feeder, forwarder
<1>1. CASE WriteSide
  BY <1>1, Zenon DEF WriteSide
<1>2. CASE Subscribe
  BY <1>2, Zenon DEF Subscribe
<1>3. CASE Connect
  BY <1>3, Zenon DEF Connect
<1>4. CASE ConnectFails
  BY <1>4, Zenon DEF ConnectFails
<1>5. CASE Reconnect
  BY <1>5, Zenon DEF Reconnect
<1>6. CASE TakeMessage
  BY <1>6, Zenon DEF TakeMessage
<1>7. CASE SendEvent
  BY <1>7, Zenon DEF SendEvent
<1>8. CASE SeeClosed
  BY <1>8, Zenon DEF SeeClosed
<1>9. CASE EndFeed
  BY <1>9, Zenon DEF EndFeed
<1>10. CASE TakeEvent
  BY <1>10, Zenon DEF TakeEvent
<1>11. CASE SendSummary
  BY <1>11, Zenon DEF SendSummary
<1>12. CASE EndForwarder
  BY <1>12, Zenon DEF EndForwarder
<1>13. CASE SendFails
  BY <1>13, Zenon DEF SendFails, Leave
<1>14. CASE ClientReads
  BY <1>14, Zenon DEF ClientReads
<1>15. CASE Cancel
  BY <1>15, Zenon DEF Cancel, Leave
<1>16. CASE LoseLink
  BY <1>16, Zenon DEF LoseLink
<1>17. CASE Relink
  BY <1>17, Zenon DEF Relink
<1>18. CASE UNCHANGED liveVars
  BY <1>18, Zenon DEF liveVars, subscriptionVars
<1>19. QED
  BY <1>1, <1>2, <1>3, <1>4, <1>5, <1>6, <1>7, <1>8, <1>9, <1>10, <1>11, <1>12, <1>13, <1>14,
     <1>15, <1>16, <1>17, <1>18, Zenon DEF LiveNext, Feed, Forward

\* No buffer passes its capacity.
LEMMA LiveKeepsCapacities ==
  ASSUME LiveInv, [LiveNext]_liveVars
  PROVE  Capacities' /\ Buffers' /\ linkFaults' \in 0..MaxLinkFaults /\ AcceptedIsPublished'
<1>1. Capacities /\ Buffers /\ AcceptedIsPublished /\ linkFaults \in 0..MaxLinkFaults /\ Places
  BY LiveTypeParts, Zenon DEF LiveInv
<1>2. MaxLinkFaults \in Nat /\ InboxLimit \in Nat /\ FeedLimit \in Nat /\ OutLimit \in Nat
  BY SubscriptionAssumption, Zenon
<1>3. [OutboxNext]_outboxVars
  BY SubscriptionLeavesOutbox, Zenon
<1>a. <<>> \in Seq(Nat) /\ Len(<<>>) = 0 /\ 0 <= InboxLimit /\ 0 <= OutLimit
  BY <1>2
<1>4. CASE WriteSide
  <2>1. UNCHANGED <<fpc, held, feed, wpc, carried, out, delivered, linkFaults>>
    BY <1>4, Zenon DEF WriteSide, feeder, forwarder
  <2>2. Deliver
    BY <1>4, Zenon DEF WriteSide
  <2>3. CASE UNCHANGED <<inbox, accepted>> /\ AcceptedIsPublished'
    BY <1>1, <2>1, <2>3, Zenon DEF Capacities, Buffers
  <2>4. ASSUME NEW id \in Nat, Len(inbox) < InboxLimit, inbox' = Append(inbox, id),
               accepted' = Append(accepted, id), AcceptedIsPublished'
        PROVE  Capacities' /\ Buffers'
    BY <1>1, <1>2, <2>1, <2>4, BufferFacts DEF Capacities, Buffers
  <2>5. QED
    BY <1>1, <1>3, <2>1, <2>2, <2>3, <2>4, DeliverStep, Zenon DEF LiveInv
<1>5. ASSUME UNCHANGED channel, UNCHANGED accepted \/ accepted' = <<>> PROVE AcceptedIsPublished'
  BY <1>1, <1>5 DEF AcceptedIsPublished, Published
<1>6. ASSUME UNCHANGED outboxVars PROVE UNCHANGED channel
  BY <1>6, Zenon DEF outboxVars, publisherVars
<1> USE DEF Capacities, Buffers, link, feeder, forwarder
<1>7. ASSUME UNCHANGED <<inbox, accepted, held, feed, carried, out, delivered, wpc>>,
             UNCHANGED outboxVars, (fpc # "sending" /\ fpc' # "sending") \/ fpc' = fpc,
             linkFaults' = linkFaults \/ LinkFault
      PROVE  Capacities' /\ Buffers' /\ linkFaults' \in 0..MaxLinkFaults /\ AcceptedIsPublished'
  <2>1. linkFaults' \in 0..MaxLinkFaults
    BY <1>1, <1>2, <1>7, SMTT(40) DEF LinkFault
  <2>2. Capacities' /\ Buffers'
    BY <1>1, <1>7, Zenon
  <2>3. QED
    BY <1>5, <1>6, <1>7, <2>1, <2>2, Zenon
<1>8. CASE Subscribe
  <2>1. /\ UNCHANGED <<inbox, accepted, held, feed, carried, out, delivered, linkFaults>>
        /\ UNCHANGED outboxVars
        /\ fpc' = "connecting" /\ wpc = "none" /\ wpc' = "receiving"
    BY <1>8, Zenon DEF Subscribe
  <2>2. fpc = "none"
    BY <2>1, Zenon DEF LiveInv, Lifecycle
  <2>3. Capacities' /\ Buffers'
    BY <1>1, <2>1, <2>2, Zenon
  <2>4. QED
    BY <1>1, <1>5, <1>6, <2>1, <2>3, Zenon
<1>9. CASE Connect \/ Reconnect
  BY <1>7, <1>9, Zenon DEF Connect, Reconnect
<1>10. CASE ConnectFails \/ SeeClosed
  BY <1>7, <1>10, Zenon DEF ConnectFails, SeeClosed
<1>11. CASE LoseLink \/ Relink
  BY <1>7, <1>11, Zenon DEF LoseLink, Relink
<1>12. CASE TakeMessage
  <2>1. /\ inbox # <<>> /\ inbox' = Tail(inbox) /\ UNCHANGED outboxVars
        /\ UNCHANGED <<accepted, feed, carried, out, delivered, linkFaults, wpc>>
        /\ \/ fpc' = "sending" /\ held' = <<Head(inbox)>>
           \/ UNCHANGED <<fpc, held>>
    BY <1>12, Zenon DEF TakeMessage
  <2>2. inbox' \in Seq(Nat) /\ Len(inbox') <= InboxLimit
    BY <1>1, <1>2, <2>1, BufferFacts
  <2>3. held' \in Seq(Nat) /\ Len(held') = (IF fpc' = "sending" THEN 1 ELSE 0)
    BY <1>1, <2>1, BufferFacts, Zenon
  <2>4. QED
    BY <1>1, <1>5, <1>6, <2>1, <2>2, <2>3, Zenon
<1>13. CASE SendEvent
  <2>1. /\ fpc = "sending" /\ fpc' = "loop" /\ held' = <<>> /\ feed' = feed \o held
        /\ Len(feed) < FeedLimit /\ UNCHANGED outboxVars
        /\ UNCHANGED <<inbox, accepted, carried, out, delivered, linkFaults, wpc>>
    BY <1>13, Zenon DEF SendEvent
  <2>2. feed' \in Seq(Nat) /\ Len(feed') <= FeedLimit
    <3>1. Len(held) = 1 /\ Len(feed) \in Nat
      BY <1>1, <2>1
    <3>2. feed' \in Seq(Nat) /\ Len(feed') = Len(feed) + Len(held)
      BY <1>1, <2>1, BufferFacts, Zenon
    <3>3. QED
      BY <1>2, <2>1, <3>1, <3>2
  <2>3. held' \in Seq(Nat) /\ Len(held') = (IF fpc' = "sending" THEN 1 ELSE 0)
    BY <2>1, BufferFacts
  <2>4. QED
    BY <1>1, <1>5, <1>6, <2>1, <2>2, <2>3, Zenon
<1>14. CASE EndFeed
  <2>1. /\ fpc' = "ended" /\ held' = <<>> /\ inbox' = <<>> /\ UNCHANGED outboxVars
        /\ UNCHANGED <<accepted, feed, wpc, carried, out, delivered, linkFaults>>
    BY <1>14, Zenon DEF EndFeed
  <2>2. Len(held') = (IF fpc' = "sending" THEN 1 ELSE 0)
    BY <1>a, <2>1
  <2>3. QED
    BY <1>1, <1>5, <1>6, <1>a, <2>1, <2>2, Zenon
<1>15. CASE TakeEvent
  <2>1. /\ feed # <<>> /\ feed' = Tail(feed) /\ UNCHANGED outboxVars
        /\ UNCHANGED <<inbox, accepted, held, out, delivered, linkFaults, fpc>>
        /\ \/ wpc' = "sending" /\ carried' = <<Head(feed)>>
           \/ UNCHANGED <<wpc, carried>>
    BY <1>15, Zenon DEF TakeEvent
  <2>2. feed' \in Seq(Nat) /\ Len(feed') <= FeedLimit
    BY <1>1, <1>2, <2>1, BufferFacts
  <2>3. carried' \in Seq(Nat) /\ Len(carried') = (IF wpc' = "sending" THEN 1 ELSE 0)
    BY <1>1, <2>1, BufferFacts, Zenon
  <2>4. QED
    BY <1>1, <1>5, <1>6, <2>1, <2>2, <2>3, Zenon
<1>16. CASE SendSummary
  <2>1. /\ wpc = "sending" /\ wpc' = "receiving" /\ carried' = <<>> /\ out' = out \o carried
        /\ Len(out) < OutLimit /\ UNCHANGED outboxVars
        /\ UNCHANGED <<inbox, accepted, held, feed, delivered, linkFaults, fpc>>
    BY <1>16, Zenon DEF SendSummary
  <2>2. out' \in Seq(Nat) /\ Len(out') <= OutLimit
    <3>1. Len(carried) = 1 /\ Len(out) \in Nat
      BY <1>1, <2>1
    <3>2. out' \in Seq(Nat) /\ Len(out') = Len(out) + Len(carried)
      BY <1>1, <2>1, BufferFacts, Zenon
    <3>3. QED
      BY <1>2, <2>1, <3>1, <3>2
  <2>3. carried' \in Seq(Nat) /\ Len(carried') = (IF wpc' = "sending" THEN 1 ELSE 0)
    BY <2>1, BufferFacts
  <2>4. QED
    BY <1>1, <1>5, <1>6, <2>1, <2>2, <2>3, Zenon
<1>17. CASE EndForwarder
  <2>1. /\ wpc' = "ended" /\ carried' = <<>> /\ UNCHANGED outboxVars
        /\ UNCHANGED <<inbox, accepted, held, feed, out, delivered, linkFaults, fpc>>
    BY <1>17, Zenon DEF EndForwarder
  <2>2. Len(carried') = (IF wpc' = "sending" THEN 1 ELSE 0)
    BY <1>a, <2>1
  <2>3. QED
    BY <1>1, <1>5, <1>6, <1>a, <2>1, <2>2, Zenon
<1>18. CASE SendFails
  <2>1. /\ wpc' = "ended" /\ carried' = <<>> /\ out' = <<>> /\ delivered' = <<>> /\ accepted' = <<>>
        /\ UNCHANGED <<inbox, held, feed, fpc>> /\ UNCHANGED outboxVars /\ LinkFault
    BY <1>18, Zenon DEF SendFails, Leave
  <2>2. linkFaults' \in 0..MaxLinkFaults
    BY <1>1, <1>2, <2>1 DEF LinkFault
  <2>3. Len(carried') = (IF wpc' = "sending" THEN 1 ELSE 0)
    BY <1>a, <2>1
  <2>4. QED
    BY <1>1, <1>5, <1>6, <1>a, <2>1, <2>2, <2>3, Zenon
<1>19. CASE ClientReads
  <2>1. /\ out # <<>> /\ out' = Tail(out) /\ delivered' = Append(delivered, Head(out))
        /\ UNCHANGED <<inbox, accepted, held, feed, wpc, carried, linkFaults, fpc>>
        /\ UNCHANGED outboxVars
    BY <1>19, Zenon DEF ClientReads
  <2>2. out' \in Seq(Nat) /\ Len(out') <= OutLimit
    BY <1>1, <1>2, <2>1, BufferFacts
  <2>3. delivered' \in Seq(Nat)
    BY <1>1, <2>1, BufferFacts, Zenon
  <2>4. QED
    BY <1>1, <1>5, <1>6, <2>1, <2>2, <2>3, Zenon
<1>20. CASE Cancel
  <2>1. /\ out' = <<>> /\ delivered' = <<>> /\ accepted' = <<>> /\ UNCHANGED outboxVars
        /\ UNCHANGED <<inbox, held, feed, fpc, wpc, carried, linkFaults>>
    BY <1>20, Zenon DEF Cancel, Leave
  <2>2. QED
    BY <1>1, <1>5, <1>6, <1>a, <2>1, Zenon
<1>21. CASE UNCHANGED liveVars
  BY <1>1, <1>5, <1>6, <1>21, Zenon DEF liveVars, subscriptionVars
<1>22. QED
  BY <1>4, <1>8, <1>9, <1>10, <1>11, <1>12, <1>13, <1>14, <1>15, <1>16, <1>17, <1>18, <1>19, <1>20,
     <1>21, Zenon
  DEF LiveNext, Feed, Forward

\* Before the client calls there is nothing in the buffers.
LEMMA LiveInitInv == LiveInit => LiveInv
<1> SUFFICES ASSUME LiveInit PROVE LiveInv
  BY Zenon
<1>1. PipelineInv
  BY OutboxInitInv, Zenon DEF LiveInit
<1>2. Places /\ Lifecycle
  BY Zenon DEF LiveInit, Places, Lifecycle
<1>3. Capacities /\ linkFaults \in 0..MaxLinkFaults
  BY SubscriptionAssumption DEF LiveInit, Capacities
<1>4. Buffers /\ AcceptedIsPublished
  BY DEF LiveInit, Buffers, AcceptedIsPublished
<1>5. QED
  BY <1>1, <1>2, <1>3, <1>4, LiveTypeParts, Zenon DEF LiveInv

LEMMA LiveNextInv == LiveInv /\ [LiveNext]_liveVars => LiveInv'
<1> SUFFICES ASSUME LiveInv, [LiveNext]_liveVars PROVE LiveInv'
  BY Zenon
<1>1. PipelineInv'
  BY SubscriptionLeavesOutbox, OutboxNextInv, Zenon DEF LiveInv
<1>2. Places' /\ Lifecycle'
  BY LiveTypeParts, LiveKeepsPlaces, Zenon DEF LiveInv
<1>3. Capacities' /\ Buffers' /\ linkFaults' \in 0..MaxLinkFaults /\ AcceptedIsPublished'
  BY LiveKeepsCapacities, Zenon
<1>4. LiveTypeOK'
  BY <1>2, <1>3, Zenon DEF LiveTypeOK, Places, Capacities
<1>5. QED
  BY <1>1, <1>2, <1>3, <1>4, Zenon DEF LiveInv
-----------------------------------------------------------------------------
\* The inductive invariant of sessions, daemons and subscription together.
THEOREM LiveInvariant == LiveSpec => []LiveInv
BY LiveInitInv, LiveNextInv, PTL DEF LiveSpec

\* No buffer between Redis and the client passes its capacity, and a goroutine of
\* Subscribe that has returned has closed its subscription.
THEOREM LiveTypeCorrect == LiveSpec => []LiveTypeOK
<1>1. LiveInv => LiveTypeOK
  BY Zenon DEF LiveInv
<1>2. QED
  BY <1>1, LiveInvariant, PTL

\* Subscribers and their failures do not lose a committed event its place in the outbox or
\* the channel.
THEOREM LiveLosesNothing == LiveSpec => []NoEventLost
BY LiveUsesOutbox, OutboxLosesNothing, PTL

\* Sessions, outbox daemons and subscribers together implement one atomic append-only log
\* per aggregate.
THEOREM LiveImplementsLog == LiveSpec => ImplementsLog
BY LiveUsesOutbox, OutboxImplementsLog, PTL

\* With one daemon the order of versions holds for the channel that subscribers hear.
THEOREM LiveVersionOrder ==
  ASSUME SinglePublisher
  PROVE  LiveSpec => []PublishedInVersionOrder
BY SinglePublisher, LiveUsesOutbox, VersionOrderReachesRedis, PTL
-----------------------------------------------------------------------------
LEMMA PipelineTypes ==
  ASSUME Buffers
  PROVE  /\ delivered \o out \in Seq(Nat) /\ delivered \o out \o carried \in Seq(Nat)
         /\ delivered \o out \o carried \o feed \in Seq(Nat)
         /\ delivered \o out \o carried \o feed \o held \in Seq(Nat) /\ Pipeline \in Seq(Nat)
         /\ Forwarded \in Nat /\ Len(delivered \o out \o carried) = Forwarded
         /\ Len(Pipeline) \in Nat /\ Forwarded <= Len(Pipeline)
<1>1. /\ delivered \o out \in Seq(Nat) /\ delivered \o out \o carried \in Seq(Nat)
      /\ Len(delivered \o out \o carried) = Len(delivered) + Len(out) + Len(carried)
  BY BufferFacts DEF Buffers
<1>2. Len(delivered) \in Nat /\ Len(out) \in Nat /\ Len(carried) \in Nat
  BY DEF Buffers
<1> DEFINE s == delivered \o out \o carried
<1>3. s \in Seq(Nat) /\ feed \in Seq(Nat) /\ held \in Seq(Nat) /\ inbox \in Seq(Nat)
  BY <1>1, Zenon DEF Buffers
<1> HIDE DEF s
<1>4. s \o feed \in Seq(Nat) /\ s \o feed \o held \in Seq(Nat) /\ s \o feed \o held \o inbox \in Seq(Nat)
  BY <1>3, BufferFacts, Zenon
<1>5. Len(s \o feed \o held \o inbox) = Len(s) + Len(feed) + Len(held) + Len(inbox)
  BY <1>3, <1>4, BufferFacts
<1>6. Len(s) \in Nat /\ Len(feed) \in Nat /\ Len(held) \in Nat /\ Len(inbox) \in Nat
  BY <1>3
<1>7. Pipeline = s \o feed \o held \o inbox
  BY Zenon DEF Pipeline, s
<1>8. Len(Pipeline) \in Nat /\ Len(s) <= Len(Pipeline)
  BY <1>5, <1>6, <1>7
<1>9. Len(s) = Forwarded /\ Forwarded \in Nat
  BY <1>1, <1>2 DEF Forwarded, s
<1>10. QED
  BY <1>1, <1>4, <1>7, <1>8, <1>9, Zenon DEF s

\* A step that hands messages on leaves the pipeline as it is.
LEMMA HandingOnKeepsExact ==
  ASSUME Exact, events' = events, accepted' = accepted, Pipeline' = Pipeline, Forwarded' = Forwarded
  PROVE  Exact'
<1>1. WantedIds' = WantedIds
  BY Zenon DEF WantedIds, WantedEvent
<1>2. QED
  BY <1>1, Zenon DEF Exact

\* A place before the removed one is still a place.
LEMMA PlaceBeforeDropped ==
  ASSUME NEW a \in Nat, NEW b \in Nat, NEW m, m = a - 1, NEW d \in 1..a, d > b, NEW i \in 1..b
  PROVE  i \in 1..m /\ i < d
OBVIOUS

\* A step that skips a message which the client does not want takes it out of the pipeline.
LEMMA SkippingKeepsExact ==
  ASSUME Exact, events' = events, accepted' = accepted, accepted \in Seq(Nat),
         Pipeline \in Seq(Nat), Pipeline' \in Seq(Nat), Forwarded' = Forwarded, Forwarded \in Nat,
         Len(Pipeline) \in Nat,
         NEW d \in 1..Len(Pipeline), d > Forwarded, Pipeline[d] \notin WantedIds,
         Len(Pipeline') = Len(Pipeline) - 1,
         \A i \in 1..Len(Pipeline') : Pipeline'[i] = IF i < d THEN Pipeline[i] ELSE Pipeline[i + 1]
  PROVE  Exact'
<1>1. WantedIds' = WantedIds
  BY Zenon DEF WantedIds, WantedEvent
<1> DEFINE p == accepted
           q == Pipeline
           r == Pipeline'
           n == Forwarded
           ids == WantedIds
<1>2. Thinned(p, q, ids) /\ \A i \in 1..n : q[i] \in ids
  BY Zenon DEF Exact
<1>3. /\ p \in Seq(Nat) /\ q \in Seq(Nat) /\ r \in Seq(Nat) /\ n \in Nat
      /\ Len(q) \in Nat /\ d \in 1..Len(q) /\ d > n /\ q[d] \notin ids /\ Len(r) = Len(q) - 1
      /\ \A i \in 1..Len(r) : r[i] = IF i < d THEN q[i] ELSE q[i + 1]
  BY Zenon
<1> HIDE DEF p, q, r, n, ids
<1>4. Thinned(p, r, ids)
  BY <1>2, <1>3, ThinnedDrop, Zenon
<1>5. \A i \in 1..n : r[i] \in ids
  <2>1. SUFFICES ASSUME NEW i \in 1..n PROVE r[i] \in ids
    BY Zenon
  <2>2. i \in 1..Len(r) /\ i < d
    BY <1>3, PlaceBeforeDropped, Zenon
  <2>3. QED
    BY <1>2, <1>3, <2>2, Zenon
<1>6. Exact' <=> Thinned(p, r, ids) /\ \A i \in 1..n : r[i] \in ids
  BY <1>1, Zenon DEF Exact, p, r, n, ids
<1>7. QED
  BY <1>4, <1>5, <1>6, Zenon

\* Sessions, daemons and Redis: what the link brings comes in at the end.
LEMMA WriteSideKeepsExact ==
  ASSUME LiveInv, Buffers', Exact, WriteSide
  PROVE  Exact'
<1>1. [OutboxNext]_outboxVars /\ Deliver /\ UNCHANGED <<held, feed, carried, out, delivered>>
  BY Zenon DEF WriteSide, feeder, forwarder
<1>2. /\ WantedIds \subseteq WantedIds'
      /\ \A id \in Published : id \in WantedIds' => id \in WantedIds
  BY <1>1, WantedIsStable, Zenon DEF LiveInv
<1>3. \A k \in DOMAIN accepted : accepted[k] \in WantedIds' => accepted[k] \in WantedIds
  BY <1>2, Zenon DEF LiveInv, AcceptedIsPublished
<1>4. Thinned(accepted, Pipeline, WantedIds')
  BY <1>3, ThinnedIds, Zenon DEF Exact
<1>5. Forwarded' = Forwarded
  BY <1>1, Zenon DEF Forwarded
<1>6. \A i \in 1..Forwarded' : Pipeline[i] \in WantedIds'
  BY <1>2, <1>5, Zenon DEF Exact
<1>7. CASE UNCHANGED <<inbox, accepted>>
  <2>1. Pipeline' = Pipeline
    BY <1>1, <1>7, Zenon DEF Pipeline
  <2>2. QED
    BY <1>4, <1>6, <1>7, <2>1, Zenon DEF Exact
<1>8. ASSUME NEW id \in Nat, inbox' = Append(inbox, id), accepted' = Append(accepted, id)
      PROVE  Exact'
  <2>1. Pipeline' = Append(Pipeline, id)
    <3> DEFINE s == delivered \o out \o carried \o feed \o held
    <3>1. s \in Seq(Nat) /\ inbox \in Seq(Nat)
      BY PipelineTypes, Zenon DEF LiveInv, Buffers
    <3>2. Pipeline = s \o inbox /\ Pipeline' = s \o Append(inbox, id)
      BY <1>1, <1>8, Zenon DEF Pipeline
    <3> HIDE DEF s
    <3>3. QED
      BY <3>1, <3>2, MoveIn, Zenon
  <2>2. accepted \in Seq(Nat) /\ Pipeline \in Seq(Nat) /\ Forwarded \in Nat /\ Forwarded <= Len(Pipeline)
    BY PipelineTypes, Zenon DEF LiveInv, Buffers
  <2>3. Thinned(Append(accepted, id), Append(Pipeline, id), WantedIds')
    BY <1>4, <2>2, ThinnedAppend, Zenon
  <2>4. \A i \in 1..Forwarded : Append(Pipeline, id)[i] = Pipeline[i]
    BY <2>2
  <2>5. QED
    BY <1>5, <1>6, <1>8, <2>1, <2>3, <2>4, Zenon DEF Exact
<1>9. QED
  BY <1>1, <1>7, <1>8, DeliverStep, Zenon DEF LiveInv

\* A message that cannot be decoded is skipped: nobody wants it.
LEMMA UndecodedKeepsExact ==
  ASSUME LiveInv, Buffers', Exact, TakeMessage, ~Readable(Head(inbox))
  PROVE  Exact'
<1> DEFINE s == delivered \o out \o carried \o feed \o held
           d == Len(s) + 1
<1>1. /\ inbox # <<>> /\ inbox' = Tail(inbox) /\ UNCHANGED outboxVars
      /\ UNCHANGED <<accepted, held, feed, carried, out, delivered>>
  BY Zenon DEF TakeMessage, feeder, forwarder
<1>2. s \in Seq(Nat) /\ inbox \in Seq(Nat) /\ accepted \in Seq(Nat) /\ Pipeline \in Seq(Nat)
        /\ Forwarded \in Nat /\ Len(Pipeline) \in Nat
  BY PipelineTypes, Zenon DEF LiveInv, Buffers
<1>3. Pipeline = s \o inbox \o <<>> /\ Pipeline' = s \o Tail(inbox) \o <<>>
  <2>1. Pipeline = s \o inbox /\ Pipeline' = s \o Tail(inbox)
    BY <1>1, Zenon DEF Pipeline
  <2> HIDE DEF s
  <2>2. s \o inbox \in Seq(Nat) /\ s \o Tail(inbox) \in Seq(Nat)
    BY <1>1, <1>2, BufferFacts, Zenon
  <2>3. QED
    BY <2>1, <2>2, ConcatEmptySeq, Zenon
<1>4. Len(s) >= Forwarded
  <2> DEFINE r == delivered \o out \o carried
  <2>1. r \in Seq(Nat) /\ Len(r) = Forwarded /\ feed \in Seq(Nat) /\ held \in Seq(Nat) /\ s = r \o feed \o held
    BY PipelineTypes, Zenon DEF LiveInv, Buffers
  <2> HIDE DEF r, s
  <2>2. Len(s) = Len(r) + Len(feed) + Len(held)
    BY <2>1, BufferFacts
  <2>3. Len(feed) \in Nat /\ Len(held) \in Nat
    BY <2>1
  <2>4. QED
    BY <1>2, <2>1, <2>2, <2>3
<1>5. Head(inbox) \notin WantedIds
  BY Zenon DEF WantedIds, WantedEvent
<1>6. events' = events /\ Forwarded' = Forwarded
  BY <1>1, Zenon DEF Forwarded, outboxVars, storeVars, tables
<1> HIDE DEF s
<1>7. /\ Pipeline' \in Seq(Nat) /\ Len(Pipeline') = Len(Pipeline) - 1
      /\ d \in 1..Len(Pipeline) /\ Pipeline[d] = Head(inbox)
      /\ \A i \in 1..Len(Pipeline') : Pipeline'[i] = IF i < d THEN Pipeline[i] ELSE Pipeline[i + 1]
  <2>1. <<>> \in Seq(Nat)
    OBVIOUS
  <2>2. Without(Pipeline', Pipeline, Len(s) + 1, Head(inbox))
    BY <1>1, <1>2, <1>3, <2>1, DropHead, Zenon
  <2>3. QED
    BY <2>2, Zenon DEF Without
<1>8. d > Forwarded
  BY <1>2, <1>4
<1> HIDE DEF d
<1>9. accepted' = accepted /\ Pipeline[d] \notin WantedIds
  BY <1>1, <1>5, <1>7, Zenon
<1>10. QED
  BY <1>2, <1>6, <1>7, <1>8, <1>9, SkippingKeepsExact, Zenon

\* The forwarder passes over an event of another coin.
LEMMA PassingOverKeepsExact ==
  ASSUME LiveInv, Buffers', Exact, TakeEvent, ~WantedEvent(Head(feed))
  PROVE  Exact'
<1> DEFINE s == delivered \o out \o carried
           u == held \o inbox
           d == Len(s) + 1
<1>1. /\ feed # <<>> /\ feed' = Tail(feed) /\ UNCHANGED outboxVars
      /\ UNCHANGED <<accepted, held, inbox, carried, out, delivered>>
  BY Zenon DEF TakeEvent, feeder, link
<1>2. /\ s \in Seq(Nat) /\ feed \in Seq(Nat) /\ held \in Seq(Nat) /\ inbox \in Seq(Nat)
      /\ accepted \in Seq(Nat) /\ Pipeline \in Seq(Nat) /\ Forwarded \in Nat /\ Len(s) = Forwarded
      /\ Len(Pipeline) \in Nat
  BY PipelineTypes, Zenon DEF LiveInv, Buffers
<1>3. u \in Seq(Nat)
  BY <1>2, BufferFacts, Zenon
<1>4. Pipeline = s \o feed \o u /\ Pipeline' = s \o Tail(feed) \o u
  <2>1. Pipeline = s \o feed \o held \o inbox /\ Pipeline' = s \o Tail(feed) \o held \o inbox
    BY <1>1, Zenon DEF Pipeline
  <2> HIDE DEF s
  <2>2. s \o feed \in Seq(Nat) /\ s \o Tail(feed) \in Seq(Nat)
    BY <1>1, <1>2, BufferFacts, Zenon
  <2>3. ASSUME NEW t \in Seq(Nat) PROVE t \o held \o inbox = t \o u
    <3>1. held \in Seq(Nat) /\ inbox \in Seq(Nat)
      BY <1>2, Zenon
    <3>2. QED
      BY <3>1
  <2>4. QED
    BY <2>1, <2>2, <2>3, Zenon
<1>5. Head(feed) \notin WantedIds
  BY Zenon DEF WantedIds
<1>6. events' = events /\ Forwarded' = Forwarded
  BY <1>1, Zenon DEF Forwarded, outboxVars, storeVars, tables
<1> HIDE DEF s, u
<1>7. /\ Pipeline' \in Seq(Nat) /\ Len(Pipeline') = Len(Pipeline) - 1
      /\ d \in 1..Len(Pipeline) /\ Pipeline[d] = Head(feed)
      /\ \A i \in 1..Len(Pipeline') : Pipeline'[i] = IF i < d THEN Pipeline[i] ELSE Pipeline[i + 1]
  <2>1. s \in Seq(Nat) /\ feed \in Seq(Nat) /\ feed # <<>>
    BY <1>1, <1>2, Zenon
  <2>2. Without(Pipeline', Pipeline, Len(s) + 1, Head(feed))
    BY <1>3, <1>4, <2>1, DropHead, Zenon
  <2>3. QED
    BY <2>2, Zenon DEF Without
<1>8. d > Forwarded
  BY <1>2
<1> HIDE DEF d
<1>9. accepted' = accepted /\ Pipeline[d] \notin WantedIds
  BY <1>1, <1>5, <1>7, Zenon
<1>10. QED
  BY <1>2, <1>6, <1>7, <1>8, <1>9, SkippingKeepsExact, Zenon

\* The goroutine of Subscribe decodes a message, or sends one on.
LEMMA FeederKeepsExact ==
  ASSUME LiveInv, Exact, (TakeMessage /\ Readable(Head(inbox))) \/ SendEvent
  PROVE  Exact'
<1>1. /\ feed \in Seq(Nat) /\ held \in Seq(Nat) /\ inbox \in Seq(Nat)
      /\ delivered \o out \o carried \in Seq(Nat) /\ delivered \o out \o carried \o feed \in Seq(Nat)
  BY PipelineTypes, Zenon DEF LiveInv, Buffers
<1>2. Len(held) = (IF fpc = "sending" THEN 1 ELSE 0)
  BY Zenon DEF LiveInv, LiveTypeOK
<1>3. CASE TakeMessage /\ Readable(Head(inbox))
  <2>1. /\ inbox # <<>> /\ inbox' = Tail(inbox) /\ held' = <<Head(inbox)>> /\ fpc = "loop"
        /\ UNCHANGED outboxVars /\ UNCHANGED <<accepted, feed, carried, out, delivered>>
    BY <1>3, Zenon DEF TakeMessage, forwarder
  <2>2. held = <<>>
    BY <1>1, <1>2, <2>1
  <2> DEFINE s == delivered \o out \o carried \o feed
  <2>3. s \in Seq(Nat)
    BY <1>1, Zenon
  <2>4. Pipeline' = s \o <<Head(inbox)>> \o Tail(inbox) /\ Pipeline = s \o <<>> \o inbox
    BY <2>1, <2>2, Zenon DEF Pipeline
  <2>5. events' = events /\ Forwarded' = Forwarded
    BY <2>1, Zenon DEF Forwarded, outboxVars, storeVars, tables
  <2> HIDE DEF s
  <2>6. Pipeline' = Pipeline
    BY <1>1, <2>1, <2>3, <2>4, MoveHead, Zenon
  <2>7. QED
    BY <2>1, <2>5, <2>6, HandingOnKeepsExact, Zenon
<1>4. CASE SendEvent
  <2>1. /\ feed' = feed \o held /\ held' = <<>>
        /\ UNCHANGED outboxVars /\ UNCHANGED <<accepted, inbox, carried, out, delivered>>
    BY <1>4, Zenon DEF SendEvent, forwarder, link
  <2> DEFINE s == delivered \o out \o carried
  <2>2. s \in Seq(Nat)
    BY <1>1, Zenon
  <2>3. Pipeline' = s \o (feed \o held) \o <<>> \o inbox /\ Pipeline = s \o feed \o held \o inbox
    BY <2>1, Zenon DEF Pipeline
  <2>4. events' = events /\ Forwarded' = Forwarded
    BY <2>1, Zenon DEF Forwarded, outboxVars, storeVars, tables
  <2> HIDE DEF s
  <2>5. s \o (feed \o held) \o <<>> = s \o feed \o held
    BY <1>1, <2>2, MoveAll, ZenonT(40)
  <2>6. QED
    BY <2>1, <2>3, <2>4, <2>5, HandingOnKeepsExact, Zenon
<1>5. QED
  BY <1>3, <1>4, Zenon

\* The forwarder sends an event on, or the client reads it.
LEMMA ForwarderKeepsExact ==
  ASSUME LiveInv, Exact, SendSummary \/ ClientReads
  PROVE  Exact'
<1>1. delivered \in Seq(Nat) /\ out \in Seq(Nat) /\ carried \in Seq(Nat)
  BY Zenon DEF LiveInv, Buffers
<1>2. Len(delivered) \in Nat /\ Len(out) \in Nat /\ Len(carried) \in Nat
  BY <1>1
<1>3. CASE SendSummary
  <2>1. /\ out' = out \o carried /\ carried' = <<>>
        /\ UNCHANGED outboxVars /\ UNCHANGED <<accepted, inbox, held, feed, delivered>>
    BY <1>3, Zenon DEF SendSummary, feeder, link
  <2>2. delivered \o (out \o carried) \o <<>> = delivered \o out \o carried
    BY <1>1, MoveAll, Zenon
  <2>3. Pipeline' = Pipeline
    BY <2>1, <2>2, Zenon DEF Pipeline
  <2>4. Forwarded' = Forwarded
    <3>1. Len(out') = Len(out) + Len(carried) /\ Len(carried') = 0
      BY <1>1, <2>1, BufferFacts, Zenon
    <3>2. QED
      BY <1>2, <2>1, <3>1 DEF Forwarded
  <2>5. QED
    BY <2>1, <2>3, <2>4, HandingOnKeepsExact, Zenon DEF outboxVars, storeVars, tables
<1>4. CASE ClientReads
  <2>1. /\ out # <<>> /\ out' = Tail(out) /\ delivered' = Append(delivered, Head(out))
        /\ UNCHANGED outboxVars /\ UNCHANGED <<accepted, inbox, held, feed, carried>>
    BY <1>4, Zenon DEF ClientReads, feeder, link
  <2>2. Append(delivered, Head(out)) \o Tail(out) = delivered \o out
    BY <1>1, <2>1, MoveHead, Zenon
  <2>3. Pipeline' = Pipeline
    BY <2>1, <2>2, Zenon DEF Pipeline
  <2>4. Forwarded' = Forwarded
    <3>1. Len(out') = Len(out) - 1 /\ Len(delivered') = Len(delivered) + 1
      BY <1>1, <2>1, BufferFacts, Zenon
    <3>2. QED
      BY <1>2, <2>1, <3>1 DEF Forwarded
  <2>5. QED
    BY <2>1, <2>3, <2>4, HandingOnKeepsExact, Zenon DEF outboxVars, storeVars, tables
<1>5. QED
  BY <1>3, <1>4, Zenon

\* The forwarder takes an event that the client wants.
LEMMA TakingKeepsExact ==
  ASSUME LiveInv, Exact, TakeEvent, WantedEvent(Head(feed))
  PROVE  Exact'
<1> DEFINE s == delivered \o out
<1>1. /\ feed # <<>> /\ feed' = Tail(feed) /\ carried' = <<Head(feed)>> /\ wpc = "receiving"
      /\ UNCHANGED outboxVars /\ UNCHANGED <<accepted, held, inbox, out, delivered>>
  BY Zenon DEF TakeEvent, feeder, link
<1>2. /\ s \in Seq(Nat) /\ feed \in Seq(Nat) /\ carried \in Seq(Nat) /\ Forwarded \in Nat
      /\ held \in Seq(Nat) /\ inbox \in Seq(Nat) /\ delivered \in Seq(Nat) /\ out \in Seq(Nat)
  BY PipelineTypes, Zenon DEF LiveInv, Buffers
<1>3. carried = <<>>
  BY <1>1, <1>2 DEF LiveInv, LiveTypeOK
<1>4. Pipeline' = Pipeline
  <2>1. s \o <<Head(feed)>> \o Tail(feed) = s \o <<>> \o feed
    <3> HIDE DEF s
    <3>1. QED
      BY <1>1, <1>2, MoveHead, Zenon
  <2>2. QED
    BY <1>1, <1>3, <2>1, Zenon DEF Pipeline
<1>5. Forwarded' = Forwarded + 1 /\ Forwarded = Len(s)
  BY <1>1, <1>2, <1>3, BufferFacts DEF Forwarded
<1>6. Pipeline[Forwarded + 1] = Head(feed)
  <2> DEFINE u == held \o inbox
  <2>1. u \in Seq(Nat)
    BY <1>2, BufferFacts, Zenon
  <2>2. Pipeline = s \o feed \o u
    <3>1. Pipeline = s \o <<>> \o feed \o held \o inbox
      BY <1>3, Zenon DEF Pipeline
    <3> HIDE DEF s
    <3>2. s \o <<>> = s
      BY <1>2, ConcatEmptySeq, Zenon
    <3>3. s \o feed \in Seq(Nat) /\ held \in Seq(Nat) /\ inbox \in Seq(Nat)
      BY <1>2, BufferFacts, Zenon
    <3>4. s \o feed \o held \o inbox = s \o feed \o u
      <4>1. ASSUME NEW t \in Seq(Nat) PROVE t \o held \o inbox = t \o u
        <5>1. held \in Seq(Nat) /\ inbox \in Seq(Nat)
          BY <3>3, Zenon
        <5>2. QED
          BY <5>1, SMTT(40)
      <4>2. QED
        BY <3>3, <4>1, Zenon
    <3>5. QED
      BY <3>1, <3>2, <3>4, Zenon
  <2> HIDE DEF s, u
  <2>3. s \in Seq(Nat) /\ feed \in Seq(Nat) /\ feed # <<>>
    BY <1>1, <1>2, Zenon
  <2>4. Without(s \o Tail(feed) \o u, Pipeline, Len(s) + 1, Head(feed))
    BY <2>1, <2>2, <2>3, DropHead, Zenon
  <2>5. QED
    BY <1>5, <2>4, Zenon DEF Without
<1>7. Head(feed) \in WantedIds
  BY <1>1, <1>2, BufferFacts, Zenon DEF WantedIds
<1>8. WantedIds' = WantedIds
  BY <1>1, Zenon DEF WantedIds, WantedEvent, outboxVars, storeVars, tables
<1>9. \A i \in 1..(Forwarded + 1) : Pipeline[i] \in WantedIds
  <2>1. \A i \in 1..(Forwarded + 1) : i \in 1..Forwarded \/ i = Forwarded + 1
    BY <1>2
  <2>2. QED
    BY <1>6, <1>7, <2>1, Zenon DEF Exact
<1>10. QED
  BY <1>1, <1>4, <1>5, <1>8, <1>9, Zenon DEF Exact

\* While the client is there, every step keeps the feed exact.
LEMMA LiveKeepsExact ==
  ASSUME LiveInv, ~cancelled, Exact, [LiveNext]_liveVars, ~cancelled'
  PROVE  Exact'
<1>1. CASE WriteSide
  BY <1>1, LiveNextInv, WriteSideKeepsExact, Zenon DEF LiveInv
<1>2. CASE TakeMessage
  BY <1>2, LiveNextInv, UndecodedKeepsExact, FeederKeepsExact, Zenon DEF LiveInv
<1>3. CASE TakeEvent
  BY <1>3, LiveNextInv, PassingOverKeepsExact, TakingKeepsExact, Zenon DEF LiveInv
<1>4. CASE SendEvent \/ SendSummary \/ ClientReads
  BY <1>4, FeederKeepsExact, ForwarderKeepsExact, Zenon
<1>5. ASSUME UNCHANGED outboxVars,
             UNCHANGED <<accepted, inbox, held, feed, carried, out, delivered>>
      PROVE  Exact'
  <2>1. events' = events /\ Pipeline' = Pipeline /\ Forwarded' = Forwarded
    BY <1>5, Zenon DEF Pipeline, Forwarded, outboxVars, storeVars, tables
  <2>2. QED
    BY <1>5, <2>1, HandingOnKeepsExact, Zenon
<1>6. CASE Subscribe \/ Connect \/ ConnectFails \/ Reconnect
  BY <1>5, <1>6, Zenon DEF Subscribe, Connect, ConnectFails, Reconnect, link, forwarder
<1>7. CASE SeeClosed \/ LoseLink \/ Relink
  BY <1>5, <1>7, Zenon DEF SeeClosed, LoseLink, Relink, feeder, forwarder
<1>8. CASE UNCHANGED liveVars
  BY <1>5, <1>8, Zenon DEF liveVars, subscriptionVars, link, feeder, forwarder
<1>9. ~EndFeed /\ ~EndForwarder /\ ~SendFails /\ ~Cancel
  BY Zenon DEF EndFeed, EndForwarder, SendFails, Cancel, Leave, LiveInv, Lifecycle
<1>10. QED
  BY <1>1, <1>2, <1>3, <1>4, <1>6, <1>7, <1>8, <1>9, Zenon DEF LiveNext, Feed, Forward

\* Blocked sends, a buffer that is full, breaks of the connection, reconnections, messages
\* that cannot be decoded and events of other coins lose, repeat or swap nothing between
\* the link and the client, whatever the capacities: what came over the link and is wanted
\* is delivered, or waits in exactly one buffer, in the order of the channel.
THEOREM FeedLosesNothing == LiveSpec => []FeedIsExact
<1> DEFINE WhileThere == ~cancelled => Exact
<1>1. LiveInit => WhileThere
  <2> SUFFICES ASSUME LiveInit PROVE Exact
    BY Zenon
  <2>1. accepted = <<>> /\ Pipeline = <<>> /\ Forwarded = 0
    BY DEF LiveInit, Pipeline, Forwarded
  <2>2. Thinned(<<>>, <<>>, WantedIds)
    <3>1. <<>> \in [DOMAIN <<>> -> DOMAIN <<>>]
      OBVIOUS
    <3>2. DOMAIN <<>> = {}
      OBVIOUS
    <3>3. QED
      BY <3>1, <3>2, Zenon DEF Thinned
  <2>3. QED
    BY <2>1, <2>2 DEF Exact
<1>2. LiveInv /\ WhileThere /\ [LiveNext]_liveVars => WhileThere'
  <2> SUFFICES ASSUME LiveInv, WhileThere, [LiveNext]_liveVars, ~cancelled' PROVE Exact'
    BY Zenon
  <2>1. ~cancelled
    BY Zenon DEF LiveNext, WriteSide, Subscribe, Feed, Connect, Reconnect, TakeMessage, SendEvent,
       SeeClosed, EndFeed, ConnectFails, Forward, TakeEvent, SendSummary, EndForwarder, SendFails,
       Leave, ClientReads, Cancel, LoseLink, Relink, liveVars, subscriptionVars
  <2>2. QED
    BY <2>1, LiveKeepsExact, Zenon
<1>3. LiveInv /\ WhileThere => FeedIsExact
  <2> SUFFICES ASSUME LiveInv, Exact
               PROVE  ThinnedTo(accepted, Pipeline) /\ \A i \in 1..Forwarded : WantedEvent(Pipeline[i])
    BY Zenon DEF FeedIsExact
  <2>1. \A k \in DOMAIN accepted : accepted[k] \in Nat
    BY DEF LiveInv, Buffers
  <2>2. \A k \in DOMAIN accepted : WantedEvent(accepted[k]) => accepted[k] \in WantedIds
    BY <2>1, Zenon DEF WantedIds
  <2>3. ThinnedTo(accepted, Pipeline)
    BY <2>2, Zenon DEF Exact, Thinned, ThinnedTo
  <2>4. \A i \in 1..Forwarded : WantedEvent(Pipeline[i])
    BY Zenon DEF Exact, WantedIds
  <2>5. QED
    BY <2>3, <2>4, Zenon
<1>4. QED
  BY <1>1, <1>2, <1>3, LiveInvariant, PTL DEF LiveSpec
================================================================================
