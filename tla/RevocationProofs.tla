-------------------------- MODULE RevocationProofs --------------------------
(***************************************************************************)
(* Theorems about Revocation, for every set of keys, services and          *)
(* publishers, every token lifetime, and any number of failures.           *)
(***************************************************************************)
EXTENDS Revocation, SequenceTheorems, TLAPS

Cutoffs == 0..MaxTime
Loops == [pc : {"subscribe", "loop"}]
Resyncs == [pc : {"resync"}, unread : SUBSET Key, found : [Key -> Cutoffs]]
Publishing == [pc : {"record", "announce"}, key : Key, at : Time]

-----------------------------------------------------------------------------
(* Type correctness                                                        *)

\* A Watch goroutine in a resync holds what it has read.
LEMMA InResync ==
    ASSUME TypeOK, NEW s \in Service, In(s, "resync")
    PROVE  watch[s] \in Resyncs
BY DEF TypeOK, In, Resyncs, Cutoffs

\* A publisher that is not idle holds an event.
LEMMA InPublish ==
    ASSUME TypeOK, NEW p \in Publisher, pub[p].pc \in {"record", "announce"}
    PROVE  pub[p] \in Publishing
BY DEF TypeOK, Idle, Publishing

\* What a key is found to hold is a cutoff.
LEMMA LookupType ==
    ASSUME TypeOK, NEW k \in Key
    PROVE  Lookup(k) \in Cutoffs
BY ClockAssumption DEF TypeOK, Lookup, Cutoffs

\* Starting or leaving a resync leaves the watch well typed.
LEMMA WatchType ==
    /\ Reading \in Resyncs
    /\ \A s \in Service : Resumed(s) \in Loops
BY ClockAssumption DEF Reading, Resyncs, Empty, Cutoffs, Resumed, Loops

\* The parts of the type that Publish and Watch write.
StoreType == store \in [Key -> [at : Cutoffs, until : Nat]]
PubType == pub \in [Publisher -> {Idle} \cup Publishing]
ListType == list \in [Service -> [Key -> Cutoffs]]
GoroutineType == watch \in [Service -> Loops \cup Resyncs]

LEMMA TypeParts ==
    TypeOK <=> /\ now \in Time
               /\ StoreType /\ PubType /\ ListType /\ GoroutineType
               /\ link \in [Service -> {"none", "up", "down"}]
               /\ inbox \in [Service -> Seq(Event)]
               /\ degraded \in [Service -> BOOLEAN]
               /\ made \subseteq Event
               /\ forgotten \subseteq Key
               /\ faults \in Nat
BY DEF TypeOK, StoreType, PubType, ListType, GoroutineType,
       Loops, Resyncs, Publishing, Cutoffs

LEMMA TypePartsNext ==
    TypeOK' <=> /\ now' \in Time
                /\ StoreType' /\ PubType' /\ ListType' /\ GoroutineType'
                /\ link' \in [Service -> {"none", "up", "down"}]
                /\ inbox' \in [Service -> Seq(Event)]
                /\ degraded' \in [Service -> BOOLEAN]
                /\ made' \subseteq Event
                /\ forgotten' \subseteq Key
                /\ faults' \in Nat
BY DEF TypeOK, StoreType, PubType, ListType, GoroutineType,
       Loops, Resyncs, Publishing, Cutoffs

\* The steps of Publish keep the type.
LEMMA PublishType ==
    ASSUME TypeOK, NEW p \in Publisher, Publish(p)
    PROVE  TypeOK'
<1> USE TypeParts, TypePartsNext DEF StoreType, PubType, ListType, GoroutineType
<1>1. ASSUME NEW k \in Key, Stamp(p, k) PROVE TypeOK'
  <2>1. /\ [pc |-> "record", key |-> k, at |-> now] \in Publishing
        /\ [key |-> k, at |-> now] \in Event
    BY DEF Publishing, Event
  <2>2. PubType' /\ made' \subseteq Event
    BY <1>1, <2>1 DEF Stamp
  <2>3. QED
    BY <1>1, <2>2 DEF Stamp
<1>2. CASE Record(p)
  <2>1. pub[p] \in Publishing
    BY <1>2, InPublish DEF Record
  <2>2. now + Life \in Nat /\ pub[p].at \in Cutoffs /\ pub[p].key \in Key
    BY <2>1, ClockAssumption DEF Publishing, Time, Cutoffs
  <2>3. StoreType' /\ forgotten' \subseteq Key
    BY <1>2, <2>2 DEF Record
  <2>4. [pub[p] EXCEPT !.pc = "announce"] \in Publishing
    BY <2>1 DEF Publishing
  <2>5. PubType'
    BY <1>2, <2>4 DEF Record
  <2>6. QED
    BY <1>2, <2>3, <2>5 DEF Record
<1>3. CASE Announce(p)
  <2>1. [key |-> pub[p].key, at |-> pub[p].at] \in Event
    BY <1>3, InPublish DEF Announce, Publishing, Event
  <2>2. \A s \in Service :
            Append(inbox[s], [key |-> pub[p].key, at |-> pub[p].at]) \in Seq(Event)
    BY <2>1, AppendProperties
  <2>3. inbox' \in [Service -> Seq(Event)] /\ PubType'
    BY <1>3, <2>2 DEF Announce
  <2>4. QED
    BY <1>3, <2>3 DEF Announce
<1>4. CASE PublishFails(p)
  <2>1. PubType' /\ faults' \in Nat
    BY <1>4 DEF PublishFails
  <2>2. QED
    BY <1>4, <2>1 DEF PublishFails
<1>5. QED
  BY <1>1, <1>2, <1>3, <1>4 DEF Publish

\* The steps of Watch keep the type.
LEMMA WatchStepType ==
    ASSUME TypeOK, NEW s \in Service, WatchStep(s)
    PROVE  TypeOK'
<1> USE TypeParts, TypePartsNext DEF StoreType, PubType, ListType, GoroutineType
<1>0. Reading \in Resyncs /\ Resumed(s) \in Loops /\ [pc |-> "loop"] \in Loops
  BY WatchType DEF Loops
<1>1. CASE StartResync(s)
  <2>1. GoroutineType'
    BY <1>0, <1>1 DEF StartResync
  <2>2. QED
    BY <1>1, <2>1 DEF StartResync
<1>2. ASSUME NEW k \in Key, ReadKey(s, k) PROVE TypeOK'
  <2>1. watch[s] \in Resyncs
    BY <1>2, InResync DEF ReadKey
  <2>2. Lookup(k) \in Cutoffs
    BY LookupType
  <2>3. [watch[s] EXCEPT !.unread = @ \ {k}, !.found[k] = Lookup(k)] \in Resyncs
    BY <2>1, <2>2 DEF Resyncs
  <2>4. GoroutineType'
    BY <1>2, <2>3 DEF ReadKey
  <2>5. QED
    BY <1>2, <2>4 DEF ReadKey
<1>3. ASSUME NEW k \in Key, SkipKey(s, k) PROVE TypeOK'
  <2>1. watch[s] \in Resyncs
    BY <1>3, InResync DEF SkipKey
  <2>2. [watch[s] EXCEPT !.unread = @ \ {k}] \in Resyncs
    BY <2>1 DEF Resyncs
  <2>3. GoroutineType'
    BY <1>3, <2>2 DEF SkipKey
  <2>4. forgotten' \subseteq Key /\ faults' \in Nat
    BY <1>3 DEF SkipKey
  <2>5. QED
    BY <1>3, <2>3, <2>4 DEF SkipKey
<1>4. CASE FinishResync(s)
  <2>1. watch[s] \in Resyncs
    BY <1>4, InResync DEF FinishResync
  <2>2. watch[s].found \in [Key -> Cutoffs]
    BY <2>1 DEF Resyncs
  <2>3. ListType' /\ GoroutineType' /\ degraded' \in [Service -> BOOLEAN]
    BY <1>0, <1>4, <2>2 DEF FinishResync
  <2>4. QED
    BY <1>4, <2>3 DEF FinishResync
<1>5. CASE ResyncFails(s)
  <2>1. GoroutineType' /\ degraded' \in [Service -> BOOLEAN] /\ faults' \in Nat
    BY <1>0, <1>5 DEF ResyncFails
  <2>2. QED
    BY <1>5, <2>1 DEF ResyncFails
<1>6. CASE Subscribe(s)
  <2>1. GoroutineType' /\ link' \in [Service -> {"none", "up", "down"}]
    BY <1>0, <1>6 DEF Subscribe
  <2>2. QED
    BY <1>6, <2>1 DEF Subscribe
<1>7. CASE ApplyNext(s)
  <2>1. Head(inbox[s]) \in Event /\ Tail(inbox[s]) \in Seq(Event)
    BY <1>7, HeadTailProperties DEF ApplyNext
  <2>2. \A held \in Cutoffs : Applied(held, Head(inbox[s]).key, Head(inbox[s]).at) \in Cutoffs
    BY <2>1 DEF Applied, Event, Time, Cutoffs
  <2>3. inbox' \in [Service -> Seq(Event)] /\ ListType'
    BY <1>7, <2>1, <2>2 DEF ApplyNext, Event
  <2>4. QED
    BY <1>7, <2>3 DEF ApplyNext
<1>8. CASE Prune(s)
  <2>1. ListType'
    BY <1>8, ClockAssumption DEF Prune, Cutoffs
  <2>2. QED
    BY <1>8, <2>1 DEF Prune
<1>9. CASE ChannelCloses(s)
  <2>1. /\ GoroutineType' /\ degraded' \in [Service -> BOOLEAN] /\ faults' \in Nat
        /\ link' \in [Service -> {"none", "up", "down"}]
    BY <1>0, <1>9 DEF ChannelCloses
  <2>2. QED
    BY <1>9, <2>1 DEF ChannelCloses
<1>10. QED
  BY <1>1, <1>2, <1>3, <1>4, <1>5, <1>6, <1>7, <1>8, <1>9 DEF WatchStep, Resync

LEMMA TypeStep == TypeOK /\ [Next]_vars => TypeOK'
<1> SUFFICES ASSUME TypeOK, [Next]_vars PROVE TypeOK'
  OBVIOUS
<1> USE TypeParts, TypePartsNext DEF StoreType, PubType, ListType, GoroutineType
<1>1. CASE UNCHANGED vars
  BY <1>1 DEF vars
<1>2. ASSUME NEW s \in Service, Disconnect(s) \/ Reconnect(s) PROVE TypeOK'
  <2>0. /\ link \in [Service -> {"none", "up", "down"}]
        /\ faults \in Nat
    OBVIOUS
  <2>1. CASE Disconnect(s)
    <3>1. link' \in [Service -> {"none", "up", "down"}] /\ faults' \in Nat
      BY ONLY <2>0, <2>1 DEF Disconnect
    <3>2. QED
      BY <2>1, <3>1 DEF Disconnect
  <2>2. CASE Reconnect(s)
    <3>1. link' \in [Service -> {"none", "up", "down"}]
      BY ONLY <2>0, <2>2 DEF Reconnect
    <3>2. QED
      BY <2>2, <3>1 DEF Reconnect
  <2>3. QED
    BY <1>2, <2>1, <2>2
<1>3. ASSUME NEW s \in Service, Restart(s) PROVE TypeOK'
  <2>1. Empty \in [Key -> Cutoffs]
    BY ClockAssumption DEF Empty, Cutoffs
  <2>2. <<>> \in Seq(Event)
    OBVIOUS
  <2>3. /\ ListType' /\ GoroutineType' /\ inbox' \in [Service -> Seq(Event)]
        /\ degraded' \in [Service -> BOOLEAN] /\ faults' \in Nat
        /\ link' \in [Service -> {"none", "up", "down"}]
    BY <1>3, <2>1, <2>2, WatchType DEF Restart
  <2>4. QED
    BY <1>3, <2>3 DEF Restart
<1>4. CASE Tick
  BY <1>4, ClockAssumption DEF Tick, Time
<1>5. QED
  BY <1>1, <1>2, <1>3, <1>4, PublishType, WatchStepType DEF Next

LEMMA InitTypeOK == Init => TypeOK
<1>1. <<>> \in Seq(Event)
  OBVIOUS
<1>2. QED
  BY <1>1, WatchType, TypeParts, ClockAssumption
  DEF Init, StoreType, PubType, ListType, GoroutineType, Empty, Cutoffs, Time

\* Every variable stays in its type, whatever is lost or fails on the way.
THEOREM RevocationTypeCorrect == Spec => []TypeOK
BY InitTypeOK, TypeStep, PTL DEF Spec

-----------------------------------------------------------------------------
(* Nothing that matters is forgotten                                       *)

\* A cutoff c of key k is either too old to refuse a living token or no later
\* than the one the store holds.
Kept(k, c) == c + Life <= now \/ c <= store[k].at

\* A key outlives every token issued before the cutoff it holds.
StoreOutlives == \A k \in Key : store[k].at # 0 => store[k].at + Life <= store[k].until

\* Events are stamped before they are published.
StampedInPast == \A p \in Publisher : pub[p] # Idle => pub[p].at <= now

\* The durable write comes first: what is announced is recorded.
AnnouncedKept ==
    \A k \in Key \ forgotten, p \in Publisher :
        pub[p].pc = "announce" /\ pub[p].key = k => Kept(k, pub[p].at)

InboxKept ==
    \A k \in Key \ forgotten, s \in Service : \A i \in 1..Len(inbox[s]) :
        inbox[s][i].key = k => Kept(k, inbox[s][i].at)

ListKept == \A k \in Key \ forgotten, s \in Service : Kept(k, list[s][k])

\* What a resync has read so far is recorded, and covers what the list held.
FoundKept ==
    \A k \in Key \ forgotten, s \in Service :
        In(s, "resync") =>
            /\ Kept(k, watch[s].found[k])
            /\ k \notin watch[s].unread =>
                  \/ list[s][k] + Life <= now
                  \/ list[s][k] <= watch[s].found[k]

Memory == /\ StoreOutlives /\ StampedInPast /\ AnnouncedKept
          /\ InboxKept /\ ListKept /\ FoundKept

\* What is kept stays kept: the clock only advances, and a SET that narrows a
\* living record puts its key among the forgotten.
LEMMA KeptStep ==
    ASSUME TypeOK, StoreOutlives, [Next]_vars,
           NEW k \in Key, k \notin forgotten', NEW c \in Cutoffs, Kept(k, c)
    PROVE  Kept(k, c)'
<1>1. store[k].at \in Nat /\ store[k].until \in Nat /\ now \in Nat /\ c \in Nat
  BY ClockAssumption DEF TypeOK, Cutoffs, Time
<1>2. now' \in {now, now + 1}
  BY DEF Next, vars, Publish, WatchStep, Resync, Stamp, Record, Announce, PublishFails,
         StartResync, ReadKey, FinishResync, Subscribe, SkipKey, ResyncFails, ApplyNext,
         Prune, ChannelCloses, Disconnect, Reconnect, Restart, Tick
<1>3. CASE \E p \in Publisher : Record(p) /\ pub[p].key = k
  <2>1. PICK p \in Publisher : Record(p) /\ pub[p].key = k
    BY <1>3
  <2>2. pub[p].at \in Nat /\ store'[k].at = pub[p].at /\ now' = now /\ Lookup(k) <= pub[p].at
    <3>1. pub[p] \in Publishing /\ Lookup(k) \in Cutoffs
      BY <2>1, InPublish, LookupType DEF Record
    <3>2. pub[p].at \in Nat /\ Lookup(k) \in Nat
      BY <3>1, ClockAssumption DEF Publishing, Time, Cutoffs
    <3>3. QED
      BY <2>1, <3>2 DEF Record, TypeOK
  <2>3. CASE now < store[k].until
    BY <1>1, <2>2, <2>3, ClockAssumption DEF Kept, Lookup
  <2>4. CASE ~(now < store[k].until)
    BY <1>1, <2>2, <2>4, ClockAssumption DEF Kept, StoreOutlives
  <2>5. QED
    BY <2>3, <2>4
<1>4. CASE ~\E p \in Publisher : Record(p) /\ pub[p].key = k
  <2>1. store'[k] = store[k]
    <3>1. ASSUME NEW p \in Publisher, Record(p) PROVE store'[k] = store[k]
      BY <1>4, <3>1 DEF Record, TypeOK
    <3>2. CASE ~\E p \in Publisher : Record(p)
      BY <3>2 DEF Next, vars, Publish, WatchStep, Resync, Stamp, Announce, PublishFails,
         StartResync, ReadKey, FinishResync, Subscribe, SkipKey, ResyncFails, ApplyNext,
         Prune, ChannelCloses, Disconnect, Reconnect, Restart, Tick
    <3>3. QED
      BY <3>1, <3>2
  <2>2. QED
    BY <1>1, <1>2, <2>1, ClockAssumption DEF Kept
<1>5. QED
  BY <1>3, <1>4

\* A key's record is set with a whole token lifetime to run.
LEMMA StoreOutlivesStep ==
    ASSUME TypeOK, StoreOutlives, StampedInPast, [Next]_vars
    PROVE  StoreOutlives'
<1> SUFFICES ASSUME NEW k \in Key, store'[k].at # 0
             PROVE  store'[k].at + Life <= store'[k].until
  BY DEF StoreOutlives
<1>1. CASE \E p \in Publisher : Record(p)
  <2>1. PICK p \in Publisher : Record(p)
    BY <1>1
  <2>2. pub[p] \in Publishing /\ pub[p].at <= now
    BY <2>1, InPublish DEF Record, StampedInPast, Idle
  <2>3. CASE pub[p].key = k
    <3>1. store'[k] = [at |-> pub[p].at, until |-> now + Life]
      BY <2>1, <2>3 DEF Record, TypeOK
    <3>2. QED
      BY <2>2, <3>1, ClockAssumption DEF Publishing, Time, TypeOK
  <2>4. CASE pub[p].key # k
    BY <2>1, <2>4 DEF Record, TypeOK, StoreOutlives
  <2>5. QED
    BY <2>3, <2>4
<1>2. CASE ~\E p \in Publisher : Record(p)
  <2>1. store' = store
    BY <1>2 DEF Next, vars, Publish, WatchStep, Resync, Stamp, Announce, PublishFails,
         StartResync, ReadKey, FinishResync, Subscribe, SkipKey, ResyncFails, ApplyNext,
         Prune, ChannelCloses, Disconnect, Reconnect, Restart, Tick
  <2>2. QED
    BY <2>1 DEF StoreOutlives
<1>3. QED
  BY <1>1, <1>2

\* What a step of Publish, or any other step, does to one publisher.
LEMMA PublisherStep ==
    ASSUME TypeOK, [Next]_vars, NEW p \in Publisher
    PROVE  \/ pub'[p] = pub[p] /\ now' \in {now, now + 1}
           \/ pub'[p] = Idle
           \/ pub'[p].pc = "record" /\ pub'[p].at = now /\ now' = now
           \/ Record(p)
<1>1. CASE \E q \in Publisher : Publish(q)
  <2>1. PICK q \in Publisher : Publish(q)
    BY <1>1
  <2>2. PubType
    BY TypeParts
  <2>3. ASSUME NEW k \in Key, Stamp(q, k)
        PROVE  IF p = q THEN pub'[p].pc = "record" /\ pub'[p].at = now /\ now' = now
                        ELSE pub'[p] = pub[p] /\ now' = now
    BY <2>2, <2>3 DEF Stamp, PubType
  <2>4. CASE Record(q)
    BY <2>2, <2>4 DEF Record, PubType
  <2>5. CASE Announce(q) \/ PublishFails(q)
    BY <2>2, <2>5 DEF Announce, PublishFails, PubType
  <2>6. QED
    BY <2>1, <2>3, <2>4, <2>5 DEF Publish
<1>2. CASE \E s \in Service : WatchStep(s)
  <2>1. PICK s \in Service : WatchStep(s)
    BY <1>2
  <2>2. CASE Resync(s)
    BY <2>2 DEF Resync, StartResync, ReadKey, FinishResync, Subscribe
  <2>3. CASE ~Resync(s)
    BY <2>1, <2>3 DEF WatchStep, SkipKey, ResyncFails, ApplyNext, Prune, ChannelCloses
  <2>4. QED
    BY <2>2, <2>3
<1>3. CASE UNCHANGED vars \/ Tick
  BY <1>3 DEF vars, Tick
<1>4. CASE \E s \in Service : Disconnect(s) \/ Reconnect(s) \/ Restart(s)
  BY <1>4 DEF Disconnect, Reconnect, Restart
<1>5. QED
  BY <1>1, <1>2, <1>3, <1>4 DEF Next

\* Who may write the copy of one service: its own Watch, a restart, and, for
\* the inbox alone, whoever announces.
LEMMA ServiceStep ==
    ASSUME TypeOK, [Next]_vars, NEW s \in Service
    PROVE  \/ WatchStep(s)
           \/ Restart(s)
           \/ /\ list'[s] = list[s]
              /\ watch'[s] = watch[s]
              /\ \/ inbox'[s] = inbox[s]
                 \/ \E p \in Publisher :
                       /\ Announce(p)
                       /\ inbox'[s] = Append(inbox[s], [key |-> pub[p].key, at |-> pub[p].at])
<1> USE DEF TypeOK
<1>1. ASSUME NEW q \in Service, q # s, WatchStep(q) \/ Restart(q)
      PROVE  list'[s] = list[s] /\ watch'[s] = watch[s] /\ inbox'[s] = inbox[s]
  <2>1. CASE Resync(q)
    BY <1>1, <2>1 DEF Resync, StartResync, ReadKey, FinishResync, Subscribe
  <2>2. CASE ~Resync(q)
    BY <1>1, <2>2 DEF WatchStep, SkipKey, ResyncFails, ApplyNext, Prune, ChannelCloses, Restart
  <2>3. QED
    BY <2>1, <2>2
<1>2. ASSUME NEW p \in Publisher, Announce(p)
      PROVE  /\ list'[s] = list[s] /\ watch'[s] = watch[s]
             /\ \/ inbox'[s] = inbox[s]
                \/ inbox'[s] = Append(inbox[s], [key |-> pub[p].key, at |-> pub[p].at])
  BY <1>2 DEF Announce
<1>3. ASSUME NEW p \in Publisher, Publish(p), ~Announce(p)
      PROVE  list'[s] = list[s] /\ watch'[s] = watch[s] /\ inbox'[s] = inbox[s]
  BY <1>3 DEF Publish, Stamp, Record, PublishFails
<1>4. ASSUME NEW q \in Service, Disconnect(q) \/ Reconnect(q)
      PROVE  list'[s] = list[s] /\ watch'[s] = watch[s] /\ inbox'[s] = inbox[s]
  BY <1>4 DEF Disconnect, Reconnect
<1>5. CASE Tick \/ UNCHANGED vars
  BY <1>5 DEF Tick, vars
<1>6. QED
  BY <1>1, <1>2, <1>3, <1>4, <1>5 DEF Next

\* The clock never goes back, and forgotten keys stay forgotten.
LEMMA ClockStep ==
    ASSUME TypeOK, [Next]_vars
    PROVE  now \in Nat /\ now' \in Nat /\ now <= now' /\ forgotten \subseteq forgotten'
<1>0. now \in Nat
  BY DEF TypeOK, Time
<1>1. now' \in {now, now + 1}
  BY DEF Next, vars, Publish, WatchStep, Resync, Stamp, Record, Announce, PublishFails,
         StartResync, ReadKey, FinishResync, Subscribe, SkipKey, ResyncFails, ApplyNext,
         Prune, ChannelCloses, Disconnect, Reconnect, Restart, Tick
<1>2. forgotten \subseteq forgotten'
  BY DEF Next, vars, Publish, WatchStep, Resync, Stamp, Record, Announce, PublishFails,
         StartResync, ReadKey, FinishResync, Subscribe, SkipKey, ResyncFails, ApplyNext,
         Prune, ChannelCloses, Disconnect, Reconnect, Restart, Tick
<1>3. QED
  BY <1>0, <1>1, <1>2

LEMMA MemoryStep == TypeOK /\ TypeOK' /\ Memory /\ [Next]_vars => Memory'
<1> SUFFICES ASSUME TypeOK, TypeOK', Memory, [Next]_vars PROVE Memory'
  OBVIOUS
<1> USE DEF Memory
<1>0. now \in Nat /\ now' \in Nat /\ now <= now' /\ forgotten \subseteq forgotten'
  BY ClockStep
<1>1. StoreOutlives'
  BY StoreOutlivesStep
<1>2. StampedInPast'
  <2> SUFFICES ASSUME NEW p \in Publisher, pub'[p] # Idle PROVE pub'[p].at <= now'
    BY DEF StampedInPast
  <2>1. CASE pub'[p] = pub[p]
    <3>1. pub[p] \in Publishing
      BY <2>1, TypeParts DEF PubType
    <3>2. QED
      BY <1>0, <2>1, <3>1 DEF StampedInPast, Publishing, Time
  <2>2. CASE Record(p)
    <3>1. pub'[p].at = pub[p].at /\ pub[p] # Idle /\ now' = now
      BY <2>2, TypeParts DEF Record, PubType, Idle
    <3>2. QED
      BY <3>1 DEF StampedInPast
  <2>3. QED
    BY <1>0, <2>1, <2>2, PublisherStep
<1>3. AnnouncedKept'
  <2> SUFFICES ASSUME NEW k \in Key, k \notin forgotten', NEW p \in Publisher,
                      pub'[p].pc = "announce", pub'[p].key = k
               PROVE  Kept(k, pub[p].at)'
    BY DEF AnnouncedKept, Kept
  <2>1. CASE pub'[p] = pub[p]
    <3>1. pub[p] \in Publishing
      BY <2>1, InPublish
    <3>2. pub[p].at \in Cutoffs /\ Kept(k, pub[p].at)
      BY <1>0, <2>1, <3>1 DEF AnnouncedKept, Publishing, Time, Cutoffs
    <3>3. QED
      BY <2>1, <3>2, KeptStep
  <2>2. CASE Record(p)
    <3>1. pub'[p].at = pub[p].at /\ pub[p].key = k /\ store'[k].at = pub[p].at
      BY <2>2, TypeParts DEF Record, PubType, TypeOK
    <3>2. pub[p].at \in Nat
      BY <2>2, InPublish DEF Record, Publishing, Time
    <3>3. QED
      BY <3>1, <3>2 DEF Kept
  <2>3. QED
    BY <2>1, <2>2, PublisherStep DEF Idle
<1>4. InboxKept'
  <2> SUFFICES ASSUME NEW k \in Key, k \notin forgotten', NEW s \in Service,
                      NEW i \in 1..Len(inbox'[s]), inbox'[s][i].key = k
               PROVE  Kept(k, inbox[s][i].at)'
    BY DEF InboxKept, Kept
  <2>0. inbox[s] \in Seq(Event) /\ inbox'[s] \in Seq(Event)
    BY DEF TypeOK
  <2>1. ASSUME NEW c \in Cutoffs, Kept(k, c) PROVE Kept(k, c)'
    BY <2>1, KeptStep
  <2>2. ASSUME NEW j \in 1..Len(inbox[s]), inbox'[s][i] = inbox[s][j]
        PROVE  Kept(k, inbox[s][i].at)'
    <3>1. inbox[s][j] \in Event /\ inbox[s][j].key = k
      BY <2>0, <2>2
    <3>2. inbox[s][j].at \in Cutoffs /\ Kept(k, inbox[s][j].at)
      BY <1>0, <2>0, <3>1 DEF InboxKept, Event, Time, Cutoffs
    <3>3. QED
      BY <2>1, <2>2, <3>2 DEF Kept
  <2>3. CASE inbox'[s] = inbox[s]
    BY <2>2, <2>3
  <2>4. ASSUME NEW p \in Publisher, Announce(p),
               inbox'[s] = Append(inbox[s], [key |-> pub[p].key, at |-> pub[p].at])
        PROVE  Kept(k, inbox[s][i].at)'
    <3>1. pub[p] \in Publishing /\ pub[p].pc = "announce"
      BY <2>4, InPublish DEF Announce
    <3>2. [key |-> pub[p].key, at |-> pub[p].at] \in Event
      BY <3>1 DEF Publishing, Event
    <3>3. CASE i \in 1..Len(inbox[s])
      BY <2>0, <2>2, <2>4, <3>2, <3>3, AppendProperties
    <3>4. CASE i \notin 1..Len(inbox[s])
      <4>1. inbox'[s][i] = [key |-> pub[p].key, at |-> pub[p].at]
        BY <2>0, <2>4, <3>2, <3>4, AppendProperties
      <4>2. pub[p].at \in Cutoffs /\ Kept(k, pub[p].at)
        BY <1>0, <3>1, <4>1 DEF AnnouncedKept, Publishing, Time, Cutoffs
      <4>3. QED
        BY <2>1, <4>1, <4>2 DEF Kept
    <3>5. QED
      BY <3>3, <3>4
  <2>5. CASE ApplyNext(s)
    <3>1. inbox'[s] = Tail(inbox[s]) /\ inbox[s] # <<>>
      BY <2>5 DEF ApplyNext, TypeOK
    <3>2. i + 1 \in 1..Len(inbox[s]) /\ inbox'[s][i] = inbox[s][i + 1]
      BY <2>0, <3>1, HeadTailProperties
    <3>3. QED
      BY <2>2, <3>2
  <2>6. CASE Restart(s)
    <3>1. inbox'[s] = <<>>
      BY <2>6 DEF Restart, TypeOK
    <3>2. QED
      BY <3>1
  <2>7. CASE WatchStep(s) /\ ~ApplyNext(s)
    <3>1. inbox'[s] = inbox[s]
      BY <2>7 DEF WatchStep, Resync, StartResync, ReadKey, FinishResync, Subscribe,
                  SkipKey, ResyncFails, Prune, ChannelCloses
    <3>2. QED
      BY <2>3, <3>1
  <2>8. QED
    BY <2>3, <2>4, <2>5, <2>6, <2>7, ServiceStep
<1>5. ListKept'
  <2> SUFFICES ASSUME NEW k \in Key, k \notin forgotten', NEW s \in Service
               PROVE  Kept(k, list[s][k])'
    BY DEF ListKept
  <2>0. list[s][k] \in Cutoffs /\ Kept(k, list[s][k]) /\ 0 \in Cutoffs /\ Kept(k, 0)
    BY <1>0, ClockAssumption DEF ListKept, TypeOK, Cutoffs, Kept
  <2>1. ASSUME NEW c \in Cutoffs, Kept(k, c), list'[s][k] = c PROVE Kept(k, list[s][k])'
    BY <2>1, KeptStep DEF Kept
  <2>2. CASE list'[s][k] \in {0, list[s][k]}
    BY <2>0, <2>1, <2>2
  <2>3. CASE ApplyNext(s)
    <3>1. inbox[s] \in Seq(Event) /\ inbox[s] # <<>>
      BY <2>3 DEF ApplyNext, TypeOK
    <3>2. Head(inbox[s]) = inbox[s][1] /\ 1 \in 1..Len(inbox[s]) /\ Head(inbox[s]) \in Event
      BY <3>1, HeadTailProperties
    <3>3. CASE Head(inbox[s]).key = k
      <4>1. Kept(k, Head(inbox[s]).at) /\ Head(inbox[s]).at \in Cutoffs
        BY <1>0, <3>2, <3>3 DEF InboxKept, Event, Time, Cutoffs
      <4>2. list'[s][k] = Applied(list[s][k], k, Head(inbox[s]).at)
        BY <2>3, <3>3 DEF ApplyNext, TypeOK
      <4>3. list'[s][k] \in {list[s][k], Head(inbox[s]).at}
        BY <4>2 DEF Applied
      <4>4. QED
        BY <2>1, <2>2, <4>1, <4>3
    <3>4. CASE Head(inbox[s]).key # k
      <4>1. list'[s][k] = list[s][k]
        BY <2>3, <3>2, <3>4 DEF ApplyNext, TypeOK, Event
      <4>2. QED
        BY <2>2, <4>1
    <3>5. QED
      BY <3>3, <3>4
  <2>4. CASE FinishResync(s)
    <3>1. watch[s] \in Resyncs /\ In(s, "resync")
      BY <2>4, InResync DEF FinishResync
    <3>2. watch[s].found[k] \in Cutoffs /\ Kept(k, watch[s].found[k])
      BY <1>0, <3>1 DEF FoundKept, Resyncs
    <3>3. list'[s][k] = watch[s].found[k]
      BY <2>4 DEF FinishResync, TypeOK
    <3>4. QED
      BY <2>1, <3>2, <3>3
  <2>5. CASE Prune(s)
    <3>1. list'[s][k] \in {0, list[s][k]}
      BY <2>5 DEF Prune, TypeOK
    <3>2. QED
      BY <2>2, <3>1
  <2>6. CASE Restart(s)
    <3>1. list'[s][k] = 0
      BY <2>6 DEF Restart, TypeOK, Empty
    <3>2. QED
      BY <2>2, <3>1
  <2>7. CASE WatchStep(s) /\ ~ApplyNext(s) /\ ~FinishResync(s) /\ ~Prune(s)
    <3>1. list' = list
      BY <2>7 DEF WatchStep, Resync, StartResync, ReadKey, Subscribe,
                  SkipKey, ResyncFails, ChannelCloses
    <3>2. QED
      BY <2>2, <3>1
  <2>8. QED
    BY <2>2, <2>3, <2>4, <2>5, <2>6, <2>7, ServiceStep
<1>6. FoundKept'
  <2> SUFFICES ASSUME NEW k \in Key, k \notin forgotten', NEW s \in Service, In(s, "resync")'
               PROVE  /\ Kept(k, watch[s].found[k])'
                      /\ k \notin watch'[s].unread =>
                            \/ list'[s][k] + Life <= now'
                            \/ list'[s][k] <= watch'[s].found[k]
    BY DEF FoundKept
  <2>0. /\ list[s][k] \in Nat
        /\ 0 \in Cutoffs /\ Kept(k, 0)
        /\ store[k].at \in Nat /\ store[k].until \in Nat
    BY ClockAssumption DEF TypeOK, Cutoffs, Kept
  <2>1. ASSUME NEW c \in Cutoffs, Kept(k, c), watch'[s].found[k] = c
        PROVE  Kept(k, watch[s].found[k])'
    BY <2>1, KeptStep DEF Kept
  <2>2. CASE watch'[s] = Reading
    <3>1. watch'[s].found[k] = 0 /\ k \in watch'[s].unread
      BY <2>2 DEF Reading, Empty
    <3>2. QED
      BY <2>0, <2>1, <3>1
  <2>3. CASE watch'[s] = watch[s] /\ list'[s] = list[s]
    <3>1. In(s, "resync") /\ watch[s] \in Resyncs
      BY <2>3, InResync DEF In
    <3>2. watch[s].found[k] \in Cutoffs
      BY <3>1 DEF Resyncs
    <3>3. QED
      BY <1>0, <2>0, <2>1, <2>3, <3>1, <3>2, ClockAssumption DEF FoundKept
  <2>4. ASSUME NEW j \in Key, ReadKey(s, j) \/ SkipKey(s, j)
        PROVE  /\ Kept(k, watch[s].found[k])'
               /\ k \notin watch'[s].unread =>
                     \/ list'[s][k] + Life <= now'
                     \/ list'[s][k] <= watch'[s].found[k]
    <3>1. In(s, "resync") /\ watch[s] \in Resyncs
      BY <2>4, InResync DEF ReadKey, SkipKey
    <3>2. watch[s].found \in [Key -> Cutoffs]
      BY <3>1 DEF Resyncs
    <3>3. list' = list /\ now' = now /\ watch'[s].unread = watch[s].unread \ {j}
      BY <2>4, <3>1, TypeParts DEF ReadKey, SkipKey, GoroutineType, Resyncs
    <3>4. CASE j # k
      <4>1. watch'[s].found[k] = watch[s].found[k]
        <5>1. GoroutineType
          BY TypeParts
        <5>2. CASE ReadKey(s, j)
          BY <3>1, <3>2, <3>4, <5>1, <5>2 DEF ReadKey, GoroutineType, Resyncs
        <5>3. CASE SkipKey(s, j)
          BY <3>1, <3>2, <5>1, <5>3 DEF SkipKey, GoroutineType, Resyncs
        <5>4. QED
          BY <2>4, <5>2, <5>3
      <4>2. Kept(k, watch[s].found[k]) /\ watch[s].found[k] \in Cutoffs
        BY <1>0, <3>1, <3>2 DEF FoundKept
      <4>3. Kept(k, watch[s].found[k])'
        BY <2>1, <4>1, <4>2
      <4>4. k \notin watch'[s].unread =>
                list[s][k] + Life <= now \/ list[s][k] <= watch[s].found[k]
        BY <1>0, <3>1, <3>3, <3>4 DEF FoundKept
      <4>5. QED
        BY <3>3, <4>1, <4>3, <4>4
    <3>5. CASE j = k /\ ReadKey(s, j)
      <4>1. watch'[s].found[k] = Lookup(k)
        BY <3>1, <3>2, <3>5, TypeParts DEF ReadKey, GoroutineType, Resyncs
      <4>2. Lookup(k) \in Cutoffs /\ Kept(k, Lookup(k))
        BY <2>0, LookupType DEF Lookup, Kept
      <4>3. Kept(k, list[s][k])
        BY <1>0 DEF ListKept
      <4>4. list[s][k] + Life <= now \/ list[s][k] <= Lookup(k)
        BY <1>0, <2>0, <4>3, ClockAssumption DEF Kept, Lookup, StoreOutlives
      <4>5. QED
        BY <2>1, <3>3, <4>1, <4>2, <4>4
    <3>6. CASE j = k /\ SkipKey(s, j)
      <4>1. watch'[s].found[k] = watch[s].found[k] /\ Lookup(k) = 0
        BY <3>1, <3>2, <3>6, TypeParts DEF SkipKey, GoroutineType, Resyncs
      <4>2. Kept(k, list[s][k]) /\ Kept(k, watch[s].found[k])
        BY <1>0, <3>1 DEF ListKept, FoundKept
      <4>3. list[s][k] + Life <= now \/ list[s][k] = 0
        BY <1>0, <2>0, <4>1, <4>2, ClockAssumption DEF Kept, Lookup, StoreOutlives
      <4>4. watch[s].found[k] \in Cutoffs /\ 0 <= watch[s].found[k]
        BY <3>2, ClockAssumption DEF Cutoffs
      <4>5. QED
        BY <2>1, <3>3, <4>1, <4>2, <4>3, <4>4
    <3>7. QED
      BY <2>4, <3>4, <3>5, <3>6
  <2>5. CASE FinishResync(s) \/ ResyncFails(s) \/ Subscribe(s)
    <3>1. watch'[s].pc # "resync"
      BY <2>5, TypeParts DEF FinishResync, ResyncFails, Subscribe, Resumed, GoroutineType
    <3>2. QED
      BY <3>1 DEF In
  <2>6. CASE ApplyNext(s) \/ Prune(s)
    <3>1. watch'[s].pc # "resync"
      BY <2>6 DEF ApplyNext, Prune, In
    <3>2. QED
      BY <3>1 DEF In
  <2>7. CASE StartResync(s) \/ ChannelCloses(s) \/ Restart(s)
    <3>1. watch'[s] = Reading
      BY <2>7, TypeParts DEF StartResync, ChannelCloses, Restart, GoroutineType
    <3>2. QED
      BY <2>2, <3>1
  <2>8. QED
    BY <2>3, <2>4, <2>5, <2>6, <2>7, ServiceStep DEF WatchStep, Resync
<1>7. QED
  BY <1>1, <1>2, <1>3, <1>4, <1>5, <1>6

LEMMA MemoryInvariant == Spec => [](TypeOK /\ Memory)
<1>1. Init => TypeOK /\ Memory
  <2>1. CASE Init
    <3>1. StoreOutlives /\ StampedInPast /\ AnnouncedKept /\ ListKept
      BY <2>1, ClockAssumption
      DEF Init, StoreOutlives, StampedInPast, AnnouncedKept, ListKept, Kept, Idle, Empty
    <3>2. InboxKept /\ FoundKept
      BY <2>1, ClockAssumption
      DEF Init, InboxKept, FoundKept, Kept, Reading, Empty
    <3>3. QED
      BY <2>1, <3>1, <3>2, InitTypeOK DEF Memory
  <2>2. QED
    BY <2>1
<1>2. TypeOK /\ Memory /\ [Next]_vars => (TypeOK /\ Memory)'
  BY TypeStep, MemoryStep
<1>3. QED
  BY <1>1, <1>2, PTL DEF Spec

\* A refused token stays refused until it expires, whatever Watch rereads,
\* prunes or applies, unless its service restarts or Redis lost the record
\* (Publish: the durable write first; Apply: the later cutoff stands).
THEOREM RefusalsLast == Spec => RefusedStaysRefused
<1>1. TypeOK /\ Memory /\ [Next]_vars
        => [\A s \in Service, k \in Key \ forgotten', iat \in Time :
               /\ Refuses(s, k, iat)
               /\ k \in Session => iat <= list[s][k]
               /\ ~Expired(iat)'
               => Refuses(s, k, iat)' \/ Restarted(s)]_vars
  <2> SUFFICES ASSUME TypeOK, Memory, [Next]_vars,
                      NEW s \in Service, NEW k \in Key, k \notin forgotten', NEW iat \in Time,
                      Refuses(s, k, iat),
                      k \in Session => iat <= list[s][k],
                      ~(iat + Life <= now')
               PROVE  Refuses(s, k, iat)' \/ Restarted(s)
    BY DEF Expired
  <2>0. /\ list[s][k] \in Nat /\ list[s][k] # 0 /\ iat \in Nat
        /\ iat <= list[s][k]
        /\ k \in Holder => iat < list[s][k]
    BY KindAssumption, ClockAssumption DEF Refuses, TypeOK, Time, Key
  <2>a. now \in Nat /\ now' \in Nat /\ now <= now' /\ k \notin forgotten
    BY ClockStep
  <2>1. CASE list'[s][k] = list[s][k]
    BY <2>0, <2>1 DEF Refuses
  <2>2. CASE ApplyNext(s)
    <3>1. Head(inbox[s]) \in Event
      BY <2>2, HeadTailProperties DEF ApplyNext, TypeOK
    <3>2. CASE Head(inbox[s]).key = k
      <4>1. list'[s][k] = Applied(list[s][k], k, Head(inbox[s]).at)
        BY <2>2, <3>2 DEF ApplyNext, TypeOK
      <4>2. Head(inbox[s]).at \in Nat \ {0}
        BY <3>1 DEF Event, Time
      <4>3. list'[s][k] \in Nat \ {0} /\ (k \in Holder => list[s][k] <= list'[s][k])
        BY <2>0, <4>1, <4>2 DEF Applied
      <4>4. QED
        BY <2>0, <4>3 DEF Refuses
    <3>3. CASE Head(inbox[s]).key # k
      BY <2>1, <2>2, <3>1, <3>3 DEF ApplyNext, TypeOK, Event
    <3>4. QED
      BY <3>2, <3>3
  <2>3. CASE FinishResync(s)
    <3>1. watch[s] \in Resyncs /\ In(s, "resync") /\ k \notin watch[s].unread /\ now' = now
      BY <2>3, InResync DEF FinishResync
    <3>2. list'[s][k] = watch[s].found[k] /\ watch[s].found[k] \in Nat
      BY <2>3, <3>1, ClockAssumption DEF FinishResync, TypeOK, Resyncs, Cutoffs
    <3>3. list[s][k] + Life <= now \/ list[s][k] <= watch[s].found[k]
      BY <2>a, <3>1 DEF Memory, FoundKept
    <3>4. list[s][k] <= list'[s][k]
      BY <2>0, <2>a, <3>1, <3>2, <3>3, ClockAssumption
    <3>5. QED
      BY <2>0, <3>2, <3>4 DEF Refuses
  <2>4. CASE Prune(s)
    <3>1. now' = now /\ list'[s][k] = IF list[s][k] + Life < now THEN 0 ELSE list[s][k]
      BY <2>4 DEF Prune, TypeOK
    <3>2. QED
      BY <2>0, <2>1, <2>a, <3>1, ClockAssumption
  <2>5. CASE Restart(s)
    BY <2>5 DEF Restart, Restarted, TypeOK
  <2>6. CASE WatchStep(s) /\ ~ApplyNext(s) /\ ~FinishResync(s) /\ ~Prune(s)
    <3>1. list' = list
      BY <2>6 DEF WatchStep, Resync, StartResync, ReadKey, Subscribe,
                  SkipKey, ResyncFails, ChannelCloses
    <3>2. QED
      BY <2>1, <3>1
  <2>7. CASE list'[s] = list[s]
    BY <2>1, <2>7
  <2>8. QED
    BY <2>2, <2>3, <2>4, <2>5, <2>6, <2>7, ServiceStep
<1>2. QED
  BY <1>1, MemoryInvariant, PTL DEF Spec, RefusedStaysRefused

-----------------------------------------------------------------------------
(* Refusals are earned                                                     *)

\* Cutoff c of key k is none, or that of a revocation asked for.
Given(k, c) == c = 0 \/ [key |-> k, at |-> c] \in made

\* Wherever a cutoff may be on its way from the call that made it to a list and
\* back: with the publisher, in the store, announced, read by a resync, held.
PublishedGiven == \A p \in Publisher : pub[p] # Idle => Given(pub[p].key, pub[p].at)
StoreGiven == \A k \in Key : Given(k, store[k].at)
InboxGiven ==
    \A s \in Service : \A i \in 1..Len(inbox[s]) : Given(inbox[s][i].key, inbox[s][i].at)
ListGiven == \A s \in Service, k \in Key : Given(k, list[s][k])
FoundGiven == \A s \in Service, k \in Key : In(s, "resync") => Given(k, watch[s].found[k])

Earned == PublishedGiven /\ StoreGiven /\ InboxGiven /\ ListGiven /\ FoundGiven

LEMMA MadeGrows == ASSUME [Next]_vars PROVE made \subseteq made'
BY DEF Next, vars, Publish, WatchStep, Resync, Stamp, Record, Announce, PublishFails,
       StartResync, ReadKey, FinishResync, Subscribe, SkipKey, ResyncFails, ApplyNext,
       Prune, ChannelCloses, Disconnect, Reconnect, Restart, Tick

\* A cutoff a publisher stamps is that of the revocation it was asked for.
LEMMA PublishGiven ==
    ASSUME TypeOK, Earned, [Next]_vars
    PROVE  PublishedGiven' /\ StoreGiven'
<1>0. made \subseteq made' /\ PubType /\ StoreType
  BY MadeGrows, TypeParts
<1>a. ASSUME UNCHANGED <<pub, store>> PROVE PublishedGiven' /\ StoreGiven'
  BY <1>0, <1>a DEF Earned, PublishedGiven, StoreGiven, Given
<1>1. ASSUME NEW q \in Publisher, NEW k \in Key, Stamp(q, k)
      PROVE  PublishedGiven' /\ StoreGiven'
  <2>1. /\ pub' = [pub EXCEPT ![q] = [pc |-> "record", key |-> k, at |-> now]]
        /\ [key |-> k, at |-> now] \in made' /\ store' = store
    BY <1>1 DEF Stamp
  <2> QED
    BY <1>0, <2>1 DEF Earned, PublishedGiven, StoreGiven, Given, PubType
<1>2. ASSUME NEW q \in Publisher, Record(q) PROVE PublishedGiven' /\ StoreGiven'
  <2>1. pub[q] \in Publishing /\ pub[q] # Idle
    BY <1>2, InPublish DEF Record, Idle
  <2>2. pub'[q].key = pub[q].key /\ pub'[q].at = pub[q].at
        /\ \A p \in Publisher \ {q} : pub'[p] = pub[p]
    BY <1>0, <1>2, <2>1 DEF Record, PubType, Publishing
  <2>3. PublishedGiven'
    BY <1>0, <2>1, <2>2 DEF Earned, PublishedGiven, Given
  <2>4. /\ store'[pub[q].key].at = pub[q].at
        /\ \A k \in Key \ {pub[q].key} : store'[k] = store[k]
    BY <1>0, <1>2, <2>1 DEF Record, StoreType, Publishing
  <2>5. StoreGiven'
    BY <1>0, <2>1, <2>4 DEF Earned, PublishedGiven, StoreGiven, Given
  <2> QED
    BY <2>3, <2>5
<1>3. ASSUME NEW q \in Publisher, Announce(q) \/ PublishFails(q)
      PROVE  PublishedGiven' /\ StoreGiven'
  <2>1. pub' = [pub EXCEPT ![q] = Idle] /\ store' = store
    BY <1>3 DEF Announce, PublishFails
  <2> QED
    BY <1>0, <2>1 DEF Earned, PublishedGiven, StoreGiven, Given, PubType
<1>4. ASSUME NEW s \in Service, WatchStep(s) \/ Disconnect(s) \/ Reconnect(s) \/ Restart(s)
      PROVE  UNCHANGED <<pub, store>>
  BY <1>4 DEF WatchStep, Resync, StartResync, ReadKey, FinishResync, Subscribe, SkipKey,
     ResyncFails, ApplyNext, Prune, ChannelCloses, Disconnect, Reconnect, Restart
<1> QED
  BY <1>a, <1>1, <1>2, <1>3, <1>4 DEF Next, Publish, Tick, vars

\* What reaches an inbox was announced, and what is applied was in the inbox.
LEMMA InboxEarned ==
    ASSUME TypeOK, Earned, [Next]_vars
    PROVE  InboxGiven'
<1> SUFFICES ASSUME NEW s \in Service, NEW i \in 1..Len(inbox'[s])
             PROVE  Given(inbox[s][i].key, inbox[s][i].at)'
  BY DEF InboxGiven
<1>0. inbox[s] \in Seq(Event) /\ made \subseteq made'
  BY MadeGrows DEF TypeOK
<1>1. ASSUME NEW j \in 1..Len(inbox[s]), inbox'[s][i] = inbox[s][j]
      PROVE  Given(inbox[s][i].key, inbox[s][i].at)'
  BY <1>0, <1>1 DEF Earned, InboxGiven, Given
<1>2. CASE inbox'[s] = inbox[s]
  BY <1>1, <1>2
<1>3. ASSUME NEW p \in Publisher, Announce(p),
             inbox'[s] = Append(inbox[s], [key |-> pub[p].key, at |-> pub[p].at])
      PROVE  Given(inbox[s][i].key, inbox[s][i].at)'
  <2>1. pub[p] \in Publishing /\ pub[p] # Idle
    BY <1>3, InPublish DEF Announce, Idle
  <2>2. [key |-> pub[p].key, at |-> pub[p].at] \in Event
    BY <2>1 DEF Publishing, Event
  <2>3. CASE i \in 1..Len(inbox[s])
    BY <1>0, <1>1, <1>3, <2>2, <2>3, AppendProperties
  <2>4. CASE i \notin 1..Len(inbox[s])
    <3>1. inbox'[s][i] = [key |-> pub[p].key, at |-> pub[p].at]
      BY <1>0, <1>3, <2>2, <2>4, AppendProperties
    <3> QED
      BY <1>0, <2>1, <3>1 DEF Earned, PublishedGiven, Given
  <2> QED
    BY <2>3, <2>4
<1>4. CASE ApplyNext(s)
  <2>1. inbox'[s] = Tail(inbox[s]) /\ inbox[s] # <<>>
    BY <1>4 DEF ApplyNext, TypeOK
  <2>2. i + 1 \in 1..Len(inbox[s]) /\ inbox'[s][i] = inbox[s][i + 1]
    BY <1>0, <2>1, HeadTailProperties
  <2> QED
    BY <1>1, <2>2
<1>5. CASE Restart(s)
  <2>1. inbox'[s] = <<>>
    BY <1>5 DEF Restart, TypeOK
  <2> QED
    BY <2>1
<1>6. CASE WatchStep(s) /\ ~ApplyNext(s)
  BY <1>2, <1>6 DEF WatchStep, Resync, StartResync, ReadKey, FinishResync, Subscribe,
     SkipKey, ResyncFails, Prune, ChannelCloses
<1> QED
  BY <1>2, <1>3, <1>4, <1>5, <1>6, ServiceStep

\* The list takes on what it held, what was announced, and what a resync read.
LEMMA ListEarned ==
    ASSUME TypeOK, Earned, [Next]_vars
    PROVE  ListGiven'
<1> SUFFICES ASSUME NEW s \in Service, NEW k \in Key PROVE Given(k, list[s][k])'
  BY DEF ListGiven
<1>0. made \subseteq made' /\ Given(k, list[s][k])
  BY MadeGrows DEF Earned, ListGiven
<1>1. ASSUME NEW c, Given(k, c), list'[s][k] = c PROVE Given(k, list[s][k])'
  BY <1>0, <1>1 DEF Given
<1>2. CASE list'[s][k] \in {0, list[s][k]}
  BY <1>0, <1>1, <1>2 DEF Given
<1>3. CASE ApplyNext(s)
  <2>1. inbox[s] \in Seq(Event) /\ inbox[s] # <<>>
    BY <1>3 DEF ApplyNext, TypeOK
  <2>2. Head(inbox[s]) = inbox[s][1] /\ 1 \in 1..Len(inbox[s]) /\ Head(inbox[s]) \in Event
    BY <2>1, HeadTailProperties
  <2>3. CASE Head(inbox[s]).key = k
    <3>1. Given(k, Head(inbox[s]).at)
      BY <2>2, <2>3 DEF Earned, InboxGiven
    <3>2. list'[s][k] \in {list[s][k], Head(inbox[s]).at}
      BY <1>3, <2>3 DEF ApplyNext, TypeOK, Applied
    <3> QED
      BY <1>1, <1>2, <3>1, <3>2
  <2>4. CASE Head(inbox[s]).key # k
    BY <1>2, <1>3, <2>2, <2>4 DEF ApplyNext, TypeOK, Event
  <2> QED
    BY <2>3, <2>4
<1>4. CASE FinishResync(s)
  <2>1. In(s, "resync") /\ list'[s][k] = watch[s].found[k]
    BY <1>4 DEF FinishResync, TypeOK
  <2> QED
    BY <1>1, <2>1 DEF Earned, FoundGiven
<1>5. CASE Prune(s)
  BY <1>2, <1>5 DEF Prune, TypeOK
<1>6. CASE Restart(s)
  <2>1. list'[s][k] = 0
    BY <1>6 DEF Restart, TypeOK, Empty
  <2> QED
    BY <1>2, <2>1
<1>7. CASE WatchStep(s) /\ ~ApplyNext(s) /\ ~FinishResync(s) /\ ~Prune(s)
  BY <1>2, <1>7 DEF WatchStep, Resync, StartResync, ReadKey, Subscribe,
     SkipKey, ResyncFails, ChannelCloses
<1> QED
  BY <1>2, <1>3, <1>4, <1>5, <1>6, <1>7, ServiceStep

\* A resync reads what the store holds.
LEMMA FoundEarned ==
    ASSUME TypeOK, TypeOK', Earned, [Next]_vars
    PROVE  FoundGiven'
<1> SUFFICES ASSUME NEW s \in Service, NEW k \in Key, In(s, "resync")'
             PROVE  Given(k, watch[s].found[k])'
  BY DEF FoundGiven
<1>0. made \subseteq made' /\ GoroutineType
  BY MadeGrows, TypeParts
<1>1. CASE watch'[s] = watch[s]
  BY <1>0, <1>1 DEF Earned, FoundGiven, Given, In
<1>2. CASE watch'[s] = Reading
  BY <1>2 DEF Reading, Empty, Given
<1>3. ASSUME NEW j \in Key, ReadKey(s, j) PROVE Given(k, watch[s].found[k])'
  <2>1. In(s, "resync") /\ watch[s] \in Resyncs
    BY <1>3, InResync DEF ReadKey
  <2>2. watch'[s].found[k] \in {Lookup(k), watch[s].found[k]}
    BY <1>0, <1>3, <2>1 DEF ReadKey, GoroutineType, Resyncs
  <2>3. Given(k, Lookup(k)) /\ Given(k, watch[s].found[k])
    BY <2>1 DEF Earned, StoreGiven, FoundGiven, Lookup, Given
  <2> QED
    BY <1>0, <2>2, <2>3 DEF Given
<1>4. ASSUME NEW j \in Key, SkipKey(s, j) PROVE Given(k, watch[s].found[k])'
  <2>1. In(s, "resync") /\ watch[s] \in Resyncs
    BY <1>4, InResync DEF SkipKey
  <2>2. watch'[s].found = watch[s].found
    BY <1>0, <1>4, <2>1 DEF SkipKey, GoroutineType, Resyncs
  <2> QED
    BY <1>0, <2>1, <2>2 DEF Earned, FoundGiven, Given
<1>5. CASE FinishResync(s) \/ ResyncFails(s) \/ Subscribe(s) \/ ApplyNext(s) \/ Prune(s)
  <2>1. watch'[s].pc # "resync"
    BY <1>0, <1>5 DEF FinishResync, ResyncFails, Subscribe, Resumed, ApplyNext, Prune, In,
       GoroutineType
  <2> QED
    BY <2>1 DEF In
<1>6. CASE StartResync(s) \/ ChannelCloses(s) \/ Restart(s)
  BY <1>0, <1>2, <1>6 DEF StartResync, ChannelCloses, Restart, GoroutineType
<1> QED
  BY <1>1, <1>3, <1>4, <1>5, <1>6, ServiceStep DEF WatchStep, Resync

\* A token is refused only for a revocation its holder was really given, made after the
\* token was issued: a list holds no cutoff that no one asked for, however announcements
\* are reordered, records overwritten and resyncs interrupted (Apply, Replace).
THEOREM RefusalsComeFromRevocations == Spec => []RefusalsAreEarned
<1>1. Init => Earned
  BY DEF Init, Earned, PublishedGiven, StoreGiven, InboxGiven, ListGiven, FoundGiven,
     Given, Empty, Reading, Idle
<1>2. TypeOK /\ TypeOK' /\ Earned /\ [Next]_vars => Earned'
  BY PublishGiven, InboxEarned, ListEarned, FoundEarned DEF Earned
<1>3. TypeOK /\ [Next]_vars => TypeOK'
  BY TypeStep
<1>4. Earned => RefusalsAreEarned
  BY DEF Earned, ListGiven, Given, RefusalsAreEarned, Refuses
<1> QED
  BY <1>1, <1>2, <1>3, <1>4, InitTypeOK, PTL DEF Spec
=============================================================================
