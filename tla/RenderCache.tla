----------------------------- MODULE RenderCache -----------------------------
(***************************************************************************)
(* The redis strategy of lib/render-cache: the in-process Map of every     *)
(* replica (lib/cache, the L1) over one shared redis (the L2), with the    *)
(* read path of core/server.js, the writers of the render delegates and    *)
(* event invalidation.  Commands of one replica are executed in the order  *)
(* they were sent; their replies, the renders and the invalidations of     *)
(* several replicas interleave.  The data rendered is a version number     *)
(* that every save advances; a lifetime is the ticks that are left.        *)
(***************************************************************************)
EXTENDS Integers, Sequences, FiniteSets, SequencesExt

CONSTANTS
    Replicas, Pages,
    Requests,  \* GETs of a route that is cached in redis with a ttl and events
    Replica,   \* the replica a request reaches
    Page,      \* the page it asks for
    Static,    \* pages rendered by a template, the others are JSON
    Cap,       \* _maxEntries of the Map
    Ttl,
    MaxSaves, MaxRemovals, MaxErrors, \* bounds on what the environment does
    None

ASSUME RenderCacheAssumption ==
    /\ IsFiniteSet(Pages)
    /\ Replica \in [Requests -> Replicas]
    /\ Page \in [Requests -> Pages]
    /\ {Cap, Ttl} \subseteq Nat \ {0}
    /\ {MaxSaves, MaxRemovals, MaxErrors} \subseteq Nat

VARIABLES
    version, \* the data that pages are rendered from
    l1,      \* copies in the Map of a replica
    since,   \* pages of a Map that were accessed after a page of it was
    events,  \* pages of a replica registered to the event
    l2,      \* what redis holds
    sent,    \* commands of a replica that redis has not executed
    at,      \* where each request is
    held,    \* the copy a request holds
    excuse,  \* why a replica may hold a superseded copy (history)
    removals, errors

vars == <<version, l1, since, events, l2, sent, at, held, excuse, removals, errors>>

Versions == 0..MaxSaves
Copy == [body : Versions, left : 1..Ttl]
ASSUME NoneAssumption == None \notin Copy

Place == {"idle", "getting", "got", "aging", "aged", "rendering", "storing", "done"}

Command == [op : {"set"}, page : Pages, copy : Copy]
           \cup [op : {"del"}, page : Pages, copy : {None}]
           \cup [op : {"get", "pttl"}, by : Requests]

Cached(p) == {k \in Pages : l1[p][k] # None}

Rendered == [body |-> version, left |-> Ttl]

Init ==
    /\ version = 0
    /\ l1 = [p \in Replicas |-> [k \in Pages |-> None]]
    /\ since = [p \in Replicas |-> [k \in Pages |-> {}]]
    /\ events = [p \in Replicas |-> {}]
    /\ l2 = [k \in Pages |-> None]
    /\ sent = [p \in Replicas |-> <<>>]
    /\ at = [r \in Requests |-> "idle"]
    /\ held = [r \in Requests |-> None]
    /\ excuse = [p \in Replicas |-> [k \in Pages |-> "none"]]
    /\ removals = 0 /\ errors = 0

-----------------------------------------------------------------------------
(* The read path.                                                           *)

MoveTo(r, place) == at' = [at EXCEPT ![r] = place]

Done(r) == MoveTo(r, "done") /\ held' = [held EXCEPT ![r] = None]

Send(p, commands) == sent' = [sent EXCEPT ![p] = @ \o commands]

(* The pages of `gone` leave a Map and k is the last one accessed.          *)
Accessed(p, k, gone) ==
    since' = [since EXCEPT ![p] =
                [j \in Pages |-> IF j \in Cached(p) \ (gone \cup {k}) THEN (@[j] \ gone) \cup {k}
                                                                   ELSE {}]]

(* A hit of the Map is served and becomes the most recently accessed copy.  *)
Serve(r) ==
    /\ at[r] = "idle"
    /\ Page[r] \in Cached(Replica[r])
    /\ MoveTo(r, "done")
    /\ Accessed(Replica[r], Page[r], {})
    /\ UNCHANGED <<version, l1, events, l2, sent, held, excuse, removals, errors>>

Ask(r, op, place) ==
    /\ MoveTo(r, place)
    /\ Send(Replica[r], <<[op |-> op, by |-> r]>>)
    /\ UNCHANGED <<version, l1, since, events, l2, held, excuse, removals, errors>>

(* warm() on a miss: GET, and PTTL once GET has returned a value.           *)
WarmRead(r) ==
    /\ at[r] = "idle"
    /\ Page[r] \notin Cached(Replica[r])
    /\ Ask(r, "get", "getting")

AskAge(r) ==
    /\ at[r] = "got" /\ held[r] # None
    /\ Ask(r, "pttl", "aging")

(* Neither tier has the page: it is rendered from the data as it is now.    *)
Render(r) ==
    /\ at[r] \in {"got", "aged"} /\ held[r] = None
    /\ MoveTo(r, "rendering")
    /\ held' = [held EXCEPT ![r] = Rendered]
    /\ UNCHANGED <<version, l1, since, events, l2, sent, excuse, removals, errors>>

(* lib/cache set(): a new key in a full Map evicts the least recently       *)
(* accessed one, and delete() drops the registrations of what it removes.   *)
Evictions(p, k) ==
    IF k \notin Cached(p) /\ Cardinality(Cached(p)) >= Cap
    THEN {{v} : v \in {j \in Cached(p) : since[p][j] = Cached(p) \ {j}}}
    ELSE {{}}

Put(p, k, c, gone) ==
    /\ l1' = [l1 EXCEPT ![p] =
                 [j \in Pages |-> IF j = k THEN c ELSE IF j \in gone THEN None ELSE @[j]]]
    /\ Accessed(p, k, gone)

(* The Map is filled for what is left of the shared entry's life, and the   *)
(* registration is restored from the route, without a pause between.        *)
Warmed(r) ==
    LET p == Replica[r]  k == Page[r] IN
    /\ at[r] = "aged" /\ held[r] # None
    /\ \E gone \in Evictions(p, k) :
        /\ Put(p, k, held[r], gone)
        /\ events' = [events EXCEPT ![p] = (@ \ gone) \cup {k}]
    /\ Done(r)
    /\ UNCHANGED <<version, l2, sent, excuse, removals, errors>>

-----------------------------------------------------------------------------
(* writeCache() of the render delegates: set() stores in the Map and sends  *)
(* the copy to redis; setEvents() follows after an await.  The template     *)
(* delegates do neither for a page that is cached by now.                   *)

KeepCached(r) ==
    /\ at[r] = "rendering"
    /\ Page[r] \in Static \cap Cached(Replica[r])
    /\ Done(r)
    /\ UNCHANGED <<version, l1, since, events, l2, sent, excuse, removals, errors>>

Store(r) ==
    LET p == Replica[r]  k == Page[r] IN
    /\ at[r] = "rendering"
    /\ k \notin Static \cap Cached(p)
    /\ \E gone \in Evictions(p, k) :
        /\ Put(p, k, held[r], gone)
        /\ events' = [events EXCEPT ![p] = @ \ gone]
    /\ Send(p, <<[op |-> "set", page |-> k, copy |-> held[r]]>>)
    /\ MoveTo(r, "storing")
    /\ UNCHANGED <<version, l2, held, excuse, removals, errors>>

SetEvents(r) ==
    /\ at[r] = "storing"
    /\ events' = [events EXCEPT ![Replica[r]] = @ \cup {Page[r]}]
    /\ Done(r)
    /\ UNCHANGED <<version, l1, since, l2, sent, excuse, removals, errors>>

-----------------------------------------------------------------------------
(* Invalidation.                                                            *)

Dels(pages) == SetToSeq({[op |-> "del", page |-> k, copy |-> None] : k \in pages})

(* What is left of a Map and of its order once the pages are deleted.       *)
Without(p, pages)   == [k \in Pages |-> IF k \in pages THEN None ELSE l1[p][k]]
Forgotten(p, pages) == [k \in Pages |-> IF k \in pages THEN {} ELSE since[p][k] \ pages]

(* The copies and the registrations of the pages go, and redis is told.     *)
Drop(p, pages) ==
    /\ l1' = [l1 EXCEPT ![p] = Without(p, pages)]
    /\ since' = [since EXCEPT ![p] = Forgotten(p, pages)]
    /\ events' = [events EXCEPT ![p] = @ \ pages]
    /\ Send(p, Dels(pages))

Sending(q, k) == \E c \in ToSet(sent[q]) : c.op = "set" /\ c.page = k

InFlight(p, k) ==
    \/ \E r \in Requests : /\ Page[r] = k
                           /\ \/ at[r] \in {"rendering", "storing"}
                              \/ Replica[r] = p /\ at[r] \in {"getting", "got", "aging", "aged"}
    \/ \E q \in Replicas \ {p} : Sending(q, k)

(* What an event that has been fired on p cannot reach: the other replicas, *)
(* what is being rendered, warmed or sent, and what p no longer knows of.   *)
Reason(q, p, k) ==
    IF q # p THEN "remote"
    ELSE IF InFlight(p, k) THEN "in flight"
    ELSE IF k \notin events[p] \cup Cached(p) /\ (l2[k] # None \/ Sending(p, k)) THEN "unregistered"
    ELSE "none"

Saved(p) ==
    /\ version < MaxSaves
    /\ version' = version + 1
    /\ excuse' = [q \in Replicas |-> [k \in Pages |-> Reason(q, p, k)]]
    /\ UNCHANGED <<l2, at, held, removals, errors>>

(* Mutant: the registrations are read after the eviction has cleared them.  *)
SaveThenList(p) ==
    /\ Saved(p)
    /\ l1' = [l1 EXCEPT ![p] = Without(p, events[p])]
    /\ since' = [since EXCEPT ![p] = Forgotten(p, events[p])]
    /\ events' = [events EXCEPT ![p] = {}]
    /\ UNCHANGED sent

(* The data is saved and the code that saved it calls invalidateByEvent().  *)
Save(p) ==
    /\ Saved(p)
    /\ Drop(p, events[p])

(* clear() of a Map that holds something.                                   *)
Clear(p) ==
    /\ removals < MaxRemovals
    /\ removals' = removals + 1
    /\ Cached(p) # {}
    /\ Drop(p, Cached(p))
    /\ UNCHANGED <<version, l2, at, held, excuse, errors>>

-----------------------------------------------------------------------------
(* Redis, the network and time.                                             *)

Executed(c) ==
    \/ /\ c.op \in {"set", "del"}
       /\ l2' = [l2 EXCEPT ![c.page] = c.copy]
       /\ UNCHANGED <<at, held>>
    \/ /\ c.op = "get"
       /\ MoveTo(c.by, "got")
       /\ held' = [held EXCEPT ![c.by] = l2[Page[c.by]]]
       /\ UNCHANGED l2
    \/ /\ c.op = "pttl"
       /\ MoveTo(c.by, "aged")
       /\ held' = [held EXCEPT ![c.by] =
                     IF l2[Page[c.by]] = None THEN None ELSE [@ EXCEPT !.left = l2[Page[c.by]].left]]
       /\ UNCHANGED l2

Land(p) ==
    /\ sent[p] # <<>>
    /\ sent' = [sent EXCEPT ![p] = Tail(@)]
    /\ Executed(Head(sent[p]))
    /\ UNCHANGED <<version, l1, since, events, excuse, removals, errors>>

(* Mutant: a read that fails is waited for.                                 *)
LandFailsUnanswered(p) ==
    /\ sent[p] # <<>>
    /\ errors < MaxErrors
    /\ errors' = errors + 1
    /\ sent' = [sent EXCEPT ![p] = Tail(@)]
    /\ UNCHANGED <<version, l1, since, events, l2, at, held, excuse, removals>>

(* A command is lost or runs into commandTimeout: warm() takes it for a     *)
(* miss, the others are forgotten.                                          *)
LandFails(p) ==
    LET c == Head(sent[p]) IN
    /\ sent[p] # <<>>
    /\ errors < MaxErrors
    /\ errors' = errors + 1
    /\ sent' = [sent EXCEPT ![p] = Tail(@)]
    /\ IF c.op \in {"set", "del"}
       THEN UNCHANGED <<at, held>>
       ELSE MoveTo(c.by, "aged") /\ held' = [held EXCEPT ![c.by] = None]
    /\ UNCHANGED <<version, l1, since, events, l2, excuse, removals>>

(* Mutants: a timer fires one tick late, or entries are given none.         *)
AgingLate(p) ==
    [k \in Pages |-> IF k \notin Cached(p) \/ l1[p][k].left = 0 THEN None
                     ELSE [l1[p][k] EXCEPT !.left = @ - 1]]

AgingNever(p) == l1[p]

Aging(p) ==
    [k \in Pages |-> IF k \notin Cached(p) \/ l1[p][k].left = 1 THEN None
                     ELSE [l1[p][k] EXCEPT !.left = @ - 1]]

Lapsed(p) == {k \in Cached(p) : l1[p][k].left = 1}

(* Time passes: redis expires its entries, the timers of the Map delete     *)
(* theirs.  A tick is longer than a command takes, which commandTimeout     *)
(* bounds, but not than a render.                                           *)
Tick ==
    /\ \A p \in Replicas : sent[p] = <<>>
    /\ \A r \in Requests : at[r] \in {"idle", "rendering", "done"}
    /\ (\E p \in Replicas : Cached(p) # {}) \/ l2 # [k \in Pages |-> None]
    /\ l1' = [p \in Replicas |-> Aging(p)]
    /\ since' = [p \in Replicas |-> Forgotten(p, Lapsed(p))]
    /\ events' = [p \in Replicas |-> events[p] \ Lapsed(p)]
    /\ l2' = [k \in Pages |-> IF l2[k] = None THEN None ELSE IF l2[k].left = 1 THEN None
                              ELSE [l2[k] EXCEPT !.left = @ - 1]]
    /\ UNCHANGED <<version, sent, at, held, excuse, removals, errors>>

-----------------------------------------------------------------------------
Step(r) == AskAge(r) \/ Render(r) \/ Warmed(r) \/ KeepCached(r) \/ Store(r) \/ SetEvents(r)

Next ==
    \/ \E r \in Requests : Serve(r) \/ WarmRead(r) \/ Step(r)
    \/ \E p \in Replicas : Save(p) \/ Clear(p) \/ Land(p) \/ LandFails(p)
    \/ Tick

Spec == Init /\ [][Next]_vars

(* Requests that have arrived go on, commands are executed and time passes. *)
FairSpec ==
    /\ Spec
    /\ \A r \in Requests : WF_vars(Step(r))
    /\ \A p \in Replicas : WF_vars(Land(p))
    /\ WF_vars(Tick)

-----------------------------------------------------------------------------
(* Type correctness; the Map never exceeds its cap.                         *)
TypeOK ==
    /\ version \in Versions
    /\ l1 \in [Replicas -> [Pages -> Copy \cup {None}]]
    /\ \A p \in Replicas : Cardinality(Cached(p)) <= Cap
    /\ since \in [Replicas -> [Pages -> SUBSET Pages]]
    /\ events \in [Replicas -> SUBSET Pages]
    /\ l2 \in [Pages -> Copy \cup {None}]
    /\ sent \in [Replicas -> Seq(Command)]
    /\ at \in [Requests -> Place]
    /\ held \in [Requests -> Copy \cup {None}]
    /\ excuse \in [Replicas -> [Pages -> {"none", "remote", "in flight", "unregistered"}]]
    /\ removals \in 0..MaxRemovals /\ errors \in 0..MaxErrors

Holds(p, k, v) == k \in Cached(p) /\ l1[p][k].body = v

(* What an event could reach stays gone: after it was fired on a replica,   *)
(* the replica serves no older copy, neither one it held nor one that a     *)
(* warm-up brings back from redis, unless the page was being rendered,      *)
(* warmed or sent at that moment, was gone from the Map with its            *)
(* registration, or another replica fired the event.                        *)
InvalidationSticks ==
    errors = 0 =>
        \A p \in Replicas, k \in Pages, v \in Versions :
            Holds(p, k, v) /\ v < version => excuse[p][k] # "none"

(* "A stale body cannot be warmed back": with a single replica, nothing but *)
(* a render or a warm-up in flight leaves an older copy after the event.    *)
NothingWarmedBack ==
    errors = 0 /\ Cardinality(Replicas) = 1 =>
        \A p \in Replicas, k \in Pages, v \in Versions :
            Holds(p, k, v) /\ v < version => excuse[p][k] = "in flight"

(* A superseded body disappears for good from every replica and from redis, *)
(* whatever is warmed from what: the staleness is bounded by the ttl.       *)
StaleGone ==
    \A v \in 0..(MaxSaves - 1) :
        version > v ~> [](\A k \in Pages : /\ \A p \in Replicas : ~Holds(p, k, v)
                                           /\ l2[k] = None \/ l2[k].body # v)

(* A request that waits for redis is answered, by a warmed copy or by a     *)
(* render, whatever becomes of its commands.                                *)
Answered == \A r \in Requests : at[r] = "getting" ~> at[r] = "done"
=============================================================================
