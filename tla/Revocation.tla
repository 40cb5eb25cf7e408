----------------------------- MODULE Revocation -----------------------------
(***************************************************************************)
(* How an access token stops working before it expires                     *)
(* (internal/platform/revocation).                                         *)
(*                                                                         *)
(* The authentication service writes each revocation to Redis under a key  *)
(* of its own and then announces it on a channel.  Every service keeps a   *)
(* list in memory, fed by the channel and rebuilt from the keys every 30   *)
(* seconds; a request is refused from the list alone.  A single-device     *)
(* token is never asked of the list but of the authentication service      *)
(* (ValidateToken): what reaches it is in the modules Sessions and Access. *)
(*                                                                         *)
(* One tick of the clock is the resolution of time.Now().  The list of a   *)
(* service changes only in its Watch goroutine, so each step of Watch is   *)
(* an action; a resync is the SCAN, with one GET per key in any order.     *)
(***************************************************************************)
EXTENDS Naturals, Sequences, FiniteSets

CONSTANTS
    Holder,     \* keys of kind user and company: a cutoff on the issue time
    Session,    \* keys of kind session: the session is over
    Service,    \* processes keeping a list
    Publisher,  \* goroutines of the authentication service in Publish
    Life,       \* maxTokenLife: the lifetime of an access token
    Second,     \* ticks per second: the issue time is kept in whole seconds
    MaxTime,    \* bound on the clock
    MaxEvents,  \* bound on the revocations made
    MaxFaults   \* bound on the failures

Key == Holder \cup Session
Time == 1..MaxTime

ASSUME KindAssumption == Holder \cap Session = {}
ASSUME ClockAssumption == /\ Life \in Nat \ {0}
                          /\ Second \in Nat \ {0}
                          /\ MaxTime \in Nat \ {0}
ASSUME BoundAssumption == MaxEvents \in Nat /\ MaxFaults \in Nat

VARIABLES
    now,       \* the clock
    store,     \* the Redis keys: the cutoff each holds and when it lapses
    pub,       \* the Publish calls under way
    list,      \* per service: the cutoff held for each key, 0 for none
    watch,     \* per service: where its Watch goroutine is
    link,      \* per service: the subscription
    inbox,     \* per service: announcements delivered, not yet applied
    degraded,  \* per service: List.degraded
    made,      \* history: the revocations asked for
    forgotten, \* history: keys whose record was narrowed or not read
    faults     \* failures so far

vars == <<now, store, pub, list, watch, link, inbox, degraded, made, forgotten, faults>>

Event == [key : Key, at : Time]
Empty == [k \in Key |-> 0]
Idle == [pc |-> "idle"]

\* What GET finds: the cutoff under a key whose TTL has not run out, 0 otherwise.
Lookup(k) == IF now < store[k].until THEN store[k].at ELSE 0

-----------------------------------------------------------------------------
(* What the list answers                                                   *)

\* Does service s refuse a token because of key k?
Refuses(s, k, iat) == /\ list[s][k] # 0
                      /\ k \in Holder => iat < list[s][k]

\* List.Revoked, which the middleware asks of a token that is not bound to one device,
\* for one naming the keys in ks (its session, its user and its company) and issued
\* at iat.
Revoked(s, ks, iat) == \E k \in ks : Refuses(s, k, iat)

\* A token is refused on its own expiry once it has lived for Life.
Expired(iat) == iat + Life <= now

\* The issue time a token minted at t carries: jwt.NumericDate drops the fraction.
IssuedAt(t) == t - (t % Second)

\* Mutant: the latest announcement wins, whatever its cutoff.
Applied_Overwrite(held, k, at) == at

\* List.Apply: a session entry is overwritten, a cutoff only ever moves later.
Applied(held, k, at) ==
    IF k \in Holder /\ held # 0 /\ at <= held THEN held ELSE at

-----------------------------------------------------------------------------
(* Publish                                                                 *)

\* Mutant: the caller leaves the event unstamped, and so does Publish.
Stamp_Zero(p, k) ==
    /\ pub[p] = Idle
    /\ Cardinality(made) < MaxEvents
    /\ [key |-> k, at |-> now] \notin made
    /\ pub' = [pub EXCEPT ![p] = [pc |-> "record", key |-> k, at |-> 0]]
    /\ made' = made \cup {[key |-> k, at |-> now]}
    /\ UNCHANGED <<now, store, list, watch, link, inbox, degraded, forgotten, faults>>

\* The caller stamps the event and calls Publish; no two stamps of one key are
\* the same nanosecond.
\* (RevokeAllForUser, RevokeOtherSingleDeviceSessions, announceCompany)
Stamp(p, k) ==
    /\ pub[p] = Idle
    /\ Cardinality(made) < MaxEvents
    /\ [key |-> k, at |-> now] \notin made
    /\ pub' = [pub EXCEPT ![p] = [pc |-> "record", key |-> k, at |-> now]]
    /\ made' = made \cup {[key |-> k, at |-> now]}
    /\ UNCHANGED <<now, store, list, watch, link, inbox, degraded, forgotten, faults>>

\* SET with a TTL.  It does not look at what the key held: the later of two SETs
\* stands, even when its cutoff is the earlier one.
Record(p) ==
    /\ pub[p].pc = "record"
    /\ LET k == pub[p].key IN
         /\ store' = [store EXCEPT ![k] = [at |-> pub[p].at, until |-> now + Life]]
         /\ forgotten' = IF pub[p].at < Lookup(k) THEN forgotten \cup {k} ELSE forgotten
    /\ pub' = [pub EXCEPT ![p].pc = "announce"]
    /\ UNCHANGED <<now, list, watch, link, inbox, degraded, made, faults>>

\* PUBLISH: whoever is subscribed at this moment gets it, and nobody else.
Announce(p) ==
    /\ pub[p].pc = "announce"
    /\ inbox' = [s \in Service |->
           IF link[s] = "up"
           THEN Append(inbox[s], [key |-> pub[p].key, at |-> pub[p].at])
           ELSE inbox[s]]
    /\ pub' = [pub EXCEPT ![p] = Idle]
    /\ UNCHANGED <<now, store, list, watch, link, degraded, made, forgotten, faults>>

\* SET fails and nothing is announced, or PUBLISH fails; the caller logs it.
PublishFails(p) ==
    /\ faults < MaxFaults
    /\ pub[p] # Idle
    /\ pub' = [pub EXCEPT ![p] = Idle]
    /\ faults' = faults + 1
    /\ UNCHANGED <<now, store, list, watch, link, inbox, degraded, made, forgotten>>

-----------------------------------------------------------------------------
(* Watch                                                                   *)

\* A resync that has read nothing yet.
Reading == [pc |-> "resync", unread |-> Key, found |-> Empty]
In(s, pc) == watch[s].pc = pc

\* The ticker fires.
StartResync(s) ==
    /\ In(s, "loop")
    /\ watch' = [watch EXCEPT ![s] = Reading]
    /\ UNCHANGED <<now, store, pub, list, link, inbox, degraded, made, forgotten, faults>>

\* All: the GET of one key.
ReadKey(s, k) ==
    /\ In(s, "resync")
    /\ k \in watch[s].unread
    /\ watch' = [watch EXCEPT ![s].unread = @ \ {k}, ![s].found[k] = Lookup(k)]
    /\ UNCHANGED <<now, store, pub, list, link, inbox, degraded, made, forgotten, faults>>

\* All: any error from GET counts as a key that has just lapsed.
SkipKey(s, k) ==
    /\ faults < MaxFaults
    /\ In(s, "resync")
    /\ k \in watch[s].unread
    /\ watch' = [watch EXCEPT ![s].unread = @ \ {k}]
    /\ forgotten' = IF Lookup(k) # 0 THEN forgotten \cup {k} ELSE forgotten
    /\ faults' = faults + 1
    /\ UNCHANGED <<now, store, pub, list, link, inbox, degraded, made>>

\* After a resync Watch subscribes, unless it already has a subscription.
Resumed(s) == [pc |-> IF link[s] = "none" THEN "subscribe" ELSE "loop"]

\* Mutant: a resync only adds to the list.
FinishResync_Merge(s) ==
    /\ In(s, "resync")
    /\ watch[s].unread = {}
    /\ list' = [list EXCEPT ![s] = [k \in Key |-> IF @[k] # 0 THEN @[k] ELSE watch[s].found[k]]]
    /\ degraded' = [degraded EXCEPT ![s] = FALSE]
    /\ watch' = [watch EXCEPT ![s] = Resumed(s)]
    /\ UNCHANGED <<now, store, pub, link, inbox, made, forgotten, faults>>

\* List.Replace: what was read becomes the list, and nothing else stays in it.
FinishResync(s) ==
    /\ In(s, "resync")
    /\ watch[s].unread = {}
    /\ list' = [list EXCEPT ![s] = watch[s].found]
    /\ degraded' = [degraded EXCEPT ![s] = FALSE]
    /\ watch' = [watch EXCEPT ![s] = Resumed(s)]
    /\ UNCHANGED <<now, store, pub, link, inbox, made, forgotten, faults>>

\* SCAN fails: the list stays as it was, and is marked degraded.
ResyncFails(s) ==
    /\ faults < MaxFaults
    /\ In(s, "resync")
    /\ degraded' = [degraded EXCEPT ![s] = TRUE]
    /\ watch' = [watch EXCEPT ![s] = Resumed(s)]
    /\ faults' = faults + 1
    /\ UNCHANGED <<now, store, pub, list, link, inbox, made, forgotten>>

\* Subscribe, after the resync and not before it.
Subscribe(s) ==
    /\ In(s, "subscribe")
    /\ link' = [link EXCEPT ![s] = "up"]
    /\ watch' = [watch EXCEPT ![s] = [pc |-> "loop"]]
    /\ UNCHANGED <<now, store, pub, list, inbox, degraded, made, forgotten, faults>>

\* Mutant: an announcement takes effect from when it arrives.
ApplyNext_Arrival(s) ==
    /\ In(s, "loop")
    /\ inbox[s] # <<>>
    /\ LET e == Head(inbox[s]) IN
         list' = [list EXCEPT ![s][e.key] = Applied(@, e.key, now)]
    /\ inbox' = [inbox EXCEPT ![s] = Tail(@)]
    /\ UNCHANGED <<now, store, pub, watch, link, degraded, made, forgotten, faults>>

\* One announcement is applied to the list.
ApplyNext(s) ==
    /\ In(s, "loop")
    /\ inbox[s] # <<>>
    /\ LET e == Head(inbox[s]) IN
         list' = [list EXCEPT ![s][e.key] = Applied(@, e.key, e.at)]
    /\ inbox' = [inbox EXCEPT ![s] = Tail(@)]
    /\ UNCHANGED <<now, store, pub, watch, link, degraded, made, forgotten, faults>>

\* List.Prune: forget what is older than any token.
Prune(s) ==
    /\ In(s, "loop")
    /\ list' = [list EXCEPT ![s] =
           [k \in Key |-> IF @[k] + Life < now THEN 0 ELSE @[k]]]
    /\ UNCHANGED <<now, store, pub, watch, link, inbox, degraded, made, forgotten, faults>>

\* The message channel is closed: mark, resync, subscribe again.
ChannelCloses(s) ==
    /\ faults < MaxFaults
    /\ In(s, "loop")
    /\ link[s] # "none"
    /\ inbox[s] = <<>>
    /\ link' = [link EXCEPT ![s] = "none"]
    /\ degraded' = [degraded EXCEPT ![s] = TRUE]
    /\ watch' = [watch EXCEPT ![s] = Reading]
    /\ faults' = faults + 1
    /\ UNCHANGED <<now, store, pub, list, inbox, made, forgotten>>

\* The connection under the subscription is lost, and the client library gets it
\* back, with Watch none the wiser: what was announced in between is lost.
Disconnect(s) ==
    /\ faults < MaxFaults
    /\ link[s] = "up"
    /\ link' = [link EXCEPT ![s] = "down"]
    /\ faults' = faults + 1
    /\ UNCHANGED <<now, store, pub, list, watch, inbox, degraded, made, forgotten>>

Reconnect(s) ==
    /\ link[s] = "down"
    /\ link' = [link EXCEPT ![s] = "up"]
    /\ UNCHANGED <<now, store, pub, list, watch, inbox, degraded, made, forgotten, faults>>

\* The service restarts: an empty list, and Watch from the top.
Restart(s) ==
    /\ faults < MaxFaults
    /\ list' = [list EXCEPT ![s] = Empty]
    /\ watch' = [watch EXCEPT ![s] = Reading]
    /\ link' = [link EXCEPT ![s] = "none"]
    /\ inbox' = [inbox EXCEPT ![s] = <<>>]
    /\ degraded' = [degraded EXCEPT ![s] = FALSE]
    /\ faults' = faults + 1
    /\ UNCHANGED <<now, store, pub, made, forgotten>>

Tick ==
    /\ now < MaxTime
    /\ now' = now + 1
    /\ UNCHANGED <<store, pub, list, watch, link, inbox, degraded, made, forgotten, faults>>

-----------------------------------------------------------------------------

Init ==
    /\ now = 1
    /\ store = [k \in Key |-> [at |-> 0, until |-> 0]]
    /\ pub = [p \in Publisher |-> Idle]
    /\ list = [s \in Service |-> Empty]
    /\ watch = [s \in Service |-> Reading]
    /\ link = [s \in Service |-> "none"]
    /\ inbox = [s \in Service |-> <<>>]
    /\ degraded = [s \in Service |-> FALSE]
    /\ made = {}
    /\ forgotten = {}
    /\ faults = 0

\* The ticker, the resync it starts, and the subscription that follows.
Resync(s) ==
    \/ StartResync(s)
    \/ \E k \in Key : ReadKey(s, k)
    \/ FinishResync(s)
    \/ Subscribe(s)

Publish(p) ==
    \/ \E k \in Key : Stamp(p, k)
    \/ Record(p)
    \/ Announce(p)
    \/ PublishFails(p)

WatchStep(s) ==
    \/ Resync(s)
    \/ \E k \in Key : SkipKey(s, k)
    \/ ResyncFails(s)
    \/ ApplyNext(s)
    \/ Prune(s)
    \/ ChannelCloses(s)

Next ==
    \/ \E p \in Publisher : Publish(p)
    \/ \E s \in Service : \/ WatchStep(s)
                          \/ Disconnect(s)
                          \/ Reconnect(s)
                          \/ Restart(s)
    \/ Tick

Spec == Init /\ [][Next]_vars

\* The ticker goes on firing and Watch goes on serving it.  Neither the clock nor
\* the channel is fair: a revocation must not depend on tokens expiring first,
\* nor on its announcement arriving.
FairSpec == Spec /\ \A s \in Service : WF_vars(Resync(s))

-----------------------------------------------------------------------------
(* Properties                                                              *)

TypeOK ==
    /\ now \in Time
    /\ store \in [Key -> [at : 0..MaxTime, until : Nat]]
    /\ pub \in [Publisher -> {Idle} \cup
                   [pc : {"record", "announce"}, key : Key, at : Time]]
    /\ list \in [Service -> [Key -> 0..MaxTime]]
    /\ watch \in [Service -> [pc : {"subscribe", "loop"}] \cup
                   [pc : {"resync"}, unread : SUBSET Key, found : [Key -> 0..MaxTime]]]
    /\ link \in [Service -> {"none", "up", "down"}]
    /\ inbox \in [Service -> Seq(Event)]
    /\ degraded \in [Service -> BOOLEAN]
    /\ made \subseteq Event
    /\ forgotten \subseteq Key
    /\ faults \in Nat

\* A token is refused only for a revocation its holder was really given, made
\* after the token was issued: nothing that Watch applies, rereads or forgets
\* ever pushes a cutoff past the last revocation (Apply, Replace).
RefusalsAreEarned ==
    \A s \in Service, k \in Key, iat \in Time :
        Refuses(s, k, iat) =>
            \E e \in made : e.key = k /\ (k \in Holder => iat < e.at)

\* Of a service that refused something: it has just restarted.
Restarted(s) == list'[s] = Empty /\ watch'[s] = Reading

\* A service that refuses a token goes on refusing it until it expires, whatever
\* resyncs, prunes and reordered announcements come, unless the service restarts
\* or Redis lost or misread the record ("the durable write happens FIRST").
RefusedStaysRefused ==
    [][\A s \in Service, k \in Key \ forgotten', iat \in Time :
          /\ Refuses(s, k, iat)
          /\ k \in Session => iat <= list[s][k]
          /\ ~Expired(iat)'
          => Refuses(s, k, iat)' \/ Restarted(s)]_vars

\* What the keys hold refuses the token.
Recorded(k, iat) == Lookup(k) # 0 /\ (k \in Holder => iat < Lookup(k))

\* A recorded revocation reaches every service in the end, with no help from the
\* channel: an announcement missed over a restart, a lost connection or a failed
\* PUBLISH is made up for by a resync.
RecordsReachEveryList ==
    \A s \in Service, k \in Key, iat \in Time :
        Recorded(k, iat) ~> Refuses(s, k, iat) \/ ~Recorded(k, iat)

\* "Tokens minted afterwards — a fresh login by the same person — are unaffected,
\* which is what makes "sign in again" a working remedy" (revocation.go:110-112).
SignInAgainWorks ==
    \A s \in Service, k \in Holder :
        (\A e \in made : e.key = k => e.at < now) => ~Refuses(s, k, IssuedAt(now))
=============================================================================
