--------------------------------- MODULE PubSub ---------------------------------
(***************************************************************************)
(* The message broker: msgbroker over Google Pub/Sub (msgbroker/gpubsub).  *)
(*                                                                         *)
(* One topic is followed from the time that neither it nor a subscription  *)
(* exists.  Daemons that listen to it start, create what is missing and    *)
(* receive; a daemon publishes to it.  Topics share nothing but the lock   *)
(* of a daemon's cache, and no daemon publishes to a topic it listens to.  *)
(* All replicas of a daemon share one subscription, named after it.        *)
(*                                                                         *)
(* Pub/Sub is external: a message is kept by every subscription that       *)
(* exists when it is published until it is acked, is handed out again when *)
(* it is nacked or its ack deadline passes, and messages are not ordered.  *)
(***************************************************************************)
EXTENDS Messages, FiniteSets

CONSTANTS
    Daemons,        \* the processes, each <<name, replica>>
    Contents,       \* what a topic's publisher is asked to publish
    MaxPublished,   \* bound: messages
    MaxCrashes      \* bound: stops of a process, failed publishes and listeners

ASSUME PubSubAssumption ==
    MaxPublished \in Nat /\ MaxCrashes \in Nat /\ IsFiniteSet(Daemons)

Events == {"auction-started", "auction-bid-received", "auction-winner-selected",
           "auction-winner-acked", "auction-proposal-cid-delivered"}

\* RegisterHandlers: the topics of the interfaces that the service of a daemon
\* implements.
Listens ==
    [brokerd     |-> {"new-batch-created", "new-batch-prepared", "finalized-deal",
                      "auction-closed"},
     packerd     |-> {"ready-to-batch"},
     piecerd     |-> {"new-batch-created"},
     dealerd     |-> {"ready-to-create-deals"},
     auctioneerd |-> {"ready-to-auction", "deal-proposal-accepted",
                      "boost-deal-proposal-accepted", "finalized-deal"},
     apid        |-> Events \union {"auction-closed"}]

Topics == UNION {Listens[d] : d \in DOMAIN Listens}

ASSUME ContentsAssumption ==
    \A t \in Topics : \A content \in Contents[t] : IsContent(t, content)

VARIABLES
    topic,      \* the topic that is followed
    exists,     \* Pub/Sub has it
    subs,       \* the subscriptions Pub/Sub has: names of daemons
    pc,         \* where each process is
    cached,     \* the processes whose topicCache has the topic
    asked,      \* the content the publisher is asked to publish, or Absent
    published,  \* the messages Pub/Sub took: content, bytes and subscriptions then
    backlog,    \* [sub, id]: not acked
    leases,     \* handlers that run: process, message and whether the deadline passed
    heard,      \* [sub, id, content]: calls of a listener that returned no error
    crashes

pubsubVars == <<topic, exists, subs, pc, cached, asked, published, backlog, leases,
                heard, crashes>>

Listeners == {d \in Daemons : d[1] \in DOMAIN Listens /\ topic \in Listens[d[1]]}

Publisher == <<"publisher", 1>>

IDs == 1..Len(published)

PubSubInit ==
    /\ topic \in Topics
    /\ exists = FALSE /\ subs = {}
    /\ pc = [d \in Daemons \union {Publisher} |-> IF d = Publisher THEN "up" ELSE "down"]
    /\ cached = {} /\ asked = Absent /\ published = <<>>
    /\ backlog = {} /\ leases = {} /\ heard = {} /\ crashes = 0

At(d, there) == pc' = [pc EXCEPT ![d] = there]

--------------------------------------------------------------------------------
(* getTopic, for a process d that goes on at `next` and, when it fails, at `failed`: *)
(* RegisterTopicHandler fails the start of the daemon, PublishMsg its caller.        *)

NextOf(d) == IF d = Publisher THEN "publish" ELSE "look"

FailedOf(d) == IF d = Publisher THEN "up" ELSE "down"

Asked(d) == IF d = Publisher THEN asked' = Absent ELSE UNCHANGED asked

\* The lookup in the cache and Exists.
TopicExists(d) ==
    /\ pc[d] = "exists"
    /\ IF d \in cached \/ exists
       THEN cached' = cached \union {d} /\ At(d, NextOf(d))
       ELSE UNCHANGED cached /\ At(d, "create")
    /\ UNCHANGED <<topic, exists, subs, asked, published, backlog, leases, heard, crashes>>

\* CreateTopic fails when another process created the topic meanwhile.
CreateTopic(d) ==
    /\ pc[d] = "create"
    /\ IF exists
       THEN At(d, FailedOf(d)) /\ Asked(d) /\ UNCHANGED <<exists, cached>>
       ELSE /\ exists' = TRUE /\ cached' = cached \union {d} /\ At(d, NextOf(d))
            /\ UNCHANGED asked
    /\ UNCHANGED <<topic, subs, published, backlog, leases, heard, crashes>>

--------------------------------------------------------------------------------
(* RegisterTopicHandler. *)

\* The daemon is started, by the cluster, when it is down.
Start(d) ==
    /\ d \in Listeners /\ pc[d] = "down"
    /\ At(d, "exists")
    /\ UNCHANGED <<topic, exists, subs, cached, asked, published, backlog, leases, heard,
                   crashes>>

\* The loop over the subscriptions of the topic.
LookForSubscription(d) ==
    /\ pc[d] = "look"
    /\ At(d, IF d[1] \in subs THEN "up" ELSE "createSub")
    /\ UNCHANGED <<topic, exists, subs, cached, asked, published, backlog, leases, heard,
                   crashes>>

\* CreateSubscription fails when another replica created it meanwhile: the daemon
\* does not start, and its cache is gone with it.
CreateSubscription(d) ==
    /\ pc[d] = "createSub"
    /\ IF d[1] \in subs
       THEN At(d, "down") /\ cached' = cached \ {d} /\ UNCHANGED subs
       ELSE At(d, "up") /\ subs' = subs \union {d[1]} /\ UNCHANGED cached
    /\ UNCHANGED <<topic, exists, asked, published, backlog, leases, heard, crashes>>

--------------------------------------------------------------------------------
(* PublishMsg. *)

\* Called by the publishing function of the topic, if that accepts the content.
PublishMsg(content) ==
    /\ pc[Publisher] = "up" /\ Len(published) < MaxPublished
    /\ ToMessage(topic, content, "op") # Absent
    /\ asked' = Present(content)
    /\ At(Publisher, "exists")
    /\ UNCHANGED <<topic, exists, subs, cached, published, backlog, leases, heard, crashes>>

\* Pub/Sub takes the message, whether or not pr.Get returns in time.
Publish ==
    /\ pc[Publisher] = "publish"
    /\ LET id == Len(published) + 1
       IN  /\ published' = Append(published,
                                  [content |-> asked[1], subs |-> subs,
                                   bytes |-> ToMessage(topic, asked[1], "op")[1]])
           /\ backlog' = backlog \union [sub : subs, id : {id}]
    /\ At(Publisher, "up") /\ asked' = Absent
    /\ UNCHANGED <<topic, exists, subs, cached, leases, heard, crashes>>

\* The publish fails and nothing is sent.
PublishFails ==
    /\ pc[Publisher] = "publish" /\ crashes < MaxCrashes
    /\ crashes' = crashes + 1
    /\ At(Publisher, "up") /\ asked' = Absent
    /\ UNCHANGED <<topic, exists, subs, cached, published, backlog, leases, heard>>

--------------------------------------------------------------------------------
(* Receive. *)

Lease(d, id) == [daemon |-> d, id |-> id, late |-> FALSE]

\* The handler is called.
Deliver(d, id) ==
    /\ pc[d] = "up" /\ [sub |-> d[1], id |-> id] \in backlog
    /\ \A l \in leases : l.id = id /\ l.daemon[1] = d[1] => l.late
    /\ leases' = leases \union {Lease(d, id)}
    /\ UNCHANGED <<topic, exists, subs, pc, cached, asked, published, backlog, heard, crashes>>

\* The ack deadline passes while the handler runs; MaxExtension is negative, so it
\* is not extended.
DeadlinePasses(l) ==
    /\ l \in leases /\ ~l.late
    /\ leases' = (leases \ {l}) \union {[l EXCEPT !.late = TRUE]}
    /\ UNCHANGED <<topic, exists, subs, pc, cached, asked, published, backlog, heard, crashes>>

\* What the handler makes of the message of lease l.
Received(l) == ToListener(topic, published[l.id].bytes)

\* The handler's conversion fails, the listener returns an error or its context ends:
\* nacked, and handed out again.
Nack(l) ==
    /\ l \in leases
    /\ IF Received(l) = Absent THEN UNCHANGED crashes
       ELSE crashes < MaxCrashes /\ crashes' = crashes + 1
    /\ leases' = leases \ {l}
    /\ UNCHANGED <<topic, exists, subs, pc, cached, asked, published, backlog, heard>>

\* A late ack may come too late for Pub/Sub.
Acked(l) ==
    \/ backlog' = backlog \ {[sub |-> l.daemon[1], id |-> l.id]}
    \/ l.late /\ UNCHANGED backlog

\* Mutant: the message is acked even when the handler fails.
AckAlways(l) ==
    /\ l \in leases
    /\ leases' = leases \ {l}
    /\ \/ UNCHANGED heard
       \/ /\ Received(l) # Absent
          /\ heard' = heard \union {[sub |-> l.daemon[1], id |-> l.id,
                                     content |-> Received(l)[1]]}
    /\ Acked(l)
    /\ UNCHANGED <<topic, exists, subs, pc, cached, asked, published, crashes>>

\* The handler returns nil: the listener did, with what the handler made of the
\* message.
Ack(l) ==
    /\ l \in leases
    /\ Received(l) # Absent
    /\ heard' = heard \union {[sub |-> l.daemon[1], id |-> l.id, content |-> Received(l)[1]]}
    /\ leases' = leases \ {l}
    /\ Acked(l)
    /\ UNCHANGED <<topic, exists, subs, pc, cached, asked, published, crashes>>

\* A listening daemon stops: Close, or a crash.  What its handlers did is not acked.
Stop(d) ==
    /\ d \in Listeners /\ pc[d] # "down" /\ crashes < MaxCrashes
    /\ crashes' = crashes + 1
    /\ At(d, "down")
    /\ cached' = cached \ {d}
    /\ leases' = {l \in leases : l.daemon # d}
    /\ UNCHANGED <<topic, exists, subs, asked, published, backlog, heard>>

--------------------------------------------------------------------------------
Handle(d, id) == \E l \in leases : l.daemon = d /\ l.id = id /\ Ack(l)

DaemonStep(d) ==
    TopicExists(d) \/ CreateTopic(d) \/ Start(d) \/ LookForSubscription(d)
        \/ CreateSubscription(d)

PubSubNext ==
    \/ \E d \in Daemons \union {Publisher} : DaemonStep(d)
    \/ \E content \in Contents[topic] : PublishMsg(content)
    \/ Publish \/ PublishFails
    \/ \E d \in Listeners, id \in IDs : Deliver(d, id)
    \/ \E l \in leases : DeadlinePasses(l) \/ Nack(l) \/ Ack(l)
    \/ \E d \in Listeners : Stop(d)

\* Processes go on, Pub/Sub hands out what it has, and handlers return.
PubSubFairness ==
    /\ \A d \in Daemons \union {Publisher} : WF_pubsubVars(DaemonStep(d))
    /\ WF_pubsubVars(Publish)
    /\ \A d \in Daemons, id \in 1..MaxPublished :
          /\ WF_pubsubVars(d \in Listeners /\ id \in IDs /\ Deliver(d, id))
          /\ WF_pubsubVars(Handle(d, id))

PubSubSpec == PubSubInit /\ [][PubSubNext]_pubsubVars /\ PubSubFairness

--------------------------------------------------------------------------------
\* What a listener is to hear of a content: the id of a bid, the batch and the provider
\* of an accepted proposal are not part of it, and providers and the cid of a delivered
\* proposal are strings.
Meant(t, v) ==
    CASE t = "new-batch-created" -> [v EXCEPT !.carURL = Parse(v.carURL)]
      [] t = "deal-proposal-accepted" ->
            [auction |-> v.auction, bid |-> v.bid, proposalCid |-> v.proposalCid]
      [] t = "boost-deal-proposal-accepted" ->
            [auction |-> v.auction, bid |-> v.bid, dealUID |-> v.dealUID]
      [] t = "ready-to-auction" -> [v EXCEPT !.providers = TextAll(v.providers)]
      [] t = "auction-proposal-cid-delivered" ->
            [v EXCEPT !.bidder = Text(v.bidder), !.proposalCid = Text(v.proposalCid)]
      [] t = "auction-started" -> [v EXCEPT !.auction.status = Text(v.auction.status)]
      [] t \in {"auction-bid-received", "auction-winner-selected",
               "auction-winner-acked"} ->
            [auction |-> [v.auction EXCEPT !.status = Text(@)],
             bid |-> [f \in DOMAIN v.bid \ {"id"} |-> v.bid[f]]]
      [] OTHER -> v

\* A listener is called with what the publisher was given: nothing is lost, changed or
\* mixed up between PublishMsg... and On... on any topic.
HeardAsSent == \A h \in heard : h.content = Meant(topic, published[h.id].content)

\* A subscription gives a message up only after a listener of it returned no error,
\* whatever stops, fails or takes too long.
NothingLost ==
    \A id \in IDs : \A s \in published[id].subs :
        \/ [sub |-> s, id |-> id] \in backlog
        \/ \E h \in heard : h.sub = s /\ h.id = id

\* What a publishing function accepts and Pub/Sub takes is heard at some time by every
\* daemon that has a subscription: no handler refuses for ever what a publisher sent.
EveryMessageHeard ==
    \A id \in 1..MaxPublished :
        id \in IDs ~> (/\ id \in IDs
                      /\ \A s \in published[id].subs :
                            \E h \in heard : h.sub = s /\ h.id = id)

================================================================================
