-------------------------- MODULE RenderCacheProofs --------------------------
(***************************************************************************)
(* Theorems about RenderCache: type correctness with the cap of the Map,   *)
(* that what an event could reach stays gone, and that a full Map has      *)
(* exactly one copy to evict.                                              *)
(*                                                                         *)
(* The invariant follows a superseded copy to every place a replica could  *)
(* get it back from: its Map, the requests that render or warm, the        *)
(* commands of the other replicas, redis and its own commands.  The last   *)
(* two may hold one only behind a deletion that no read overtakes.         *)
(***************************************************************************)
EXTENDS RenderCache, FiniteSetTheorems, SequenceTheorems, WellFoundedInduction, TLAPS

IsRead(c) == c.op \in {"get", "pttl"}
IsSet(c, k) == c.op = "set" /\ c.page = k
IsDel(c, k) == c.op = "del" /\ c.page = k

(* A request holds a copy exactly where it is bound to.                     *)
Holding ==
    \A r \in Requests :
        /\ at[r] \in {"idle", "getting", "done"} => held[r] = None
        /\ at[r] \in {"aging", "rendering", "storing"} => held[r] # None

(* A read that redis has not executed is the only one of its request, in    *)
(* the queue of its replica, and the request waits for it.                  *)
Asked ==
    \A p \in Replicas : \A i \in DOMAIN sent[p] :
        IsRead(sent[p][i]) =>
            /\ Replica[sent[p][i].by] = p
            /\ at[sent[p][i].by] = IF sent[p][i].op = "get" THEN "getting" ELSE "aging"
            /\ \A j \in DOMAIN sent[p] :
                  IsRead(sent[p][j]) /\ sent[p][j].by = sent[p][i].by => j = i

(* A copy of the Map is registered or about to be.                          *)
Registered ==
    \A p \in Replicas : \A k \in Cached(p) :
        \/ k \in events[p]
        \/ \E r \in Requests : at[r] = "storing" /\ Page[r] = k /\ Replica[r] = p

Stale(c) == c # None /\ c.body # version

StaleSet(c, k) == IsSet(c, k) /\ Stale(c.copy)

(* The position d of a queue is a deletion that follows every superseded    *)
(* set and that every read follows.                                         *)
Purge(p, k, d) ==
    /\ d \in DOMAIN sent[p]
    /\ IsDel(sent[p][d], k)
    /\ \A i \in DOMAIN sent[p] :
          /\ StaleSet(sent[p][i], k) => i < d
          /\ sent[p][i].op = "get" /\ Page[sent[p][i].by] = k => d < i

(* No request holds a superseded copy of page k that it will store, or put  *)
(* into the Map of p.                                                       *)
FreshRequests(p, k) ==
    \A r \in Requests :
        Page[r] = k /\ (at[r] \in {"rendering", "storing"} \/ Replica[r] = p) => ~Stale(held[r])

(* The other replicas send no superseded copy of it.                        *)
FreshElsewhere(p, k) ==
    \A q \in Replicas \ {p} : \A i \in DOMAIN sent[q] : ~StaleSet(sent[q][i], k)

(* Redis has no superseded copy and gets none from p, or it is purged       *)
(* before p reads it.                                                       *)
Settled(p, k) == ~Stale(l2[k]) /\ \A i \in DOMAIN sent[p] : ~StaleSet(sent[p][i], k)
Purged(p, k)  == Settled(p, k) \/ \E d \in DOMAIN sent[p] : Purge(p, k, d)

(* What replica p can serve or warm of page k is of the current version.    *)
Fresh(p, k) ==
    ~Stale(l1[p][k]) /\ FreshRequests(p, k) /\ FreshElsewhere(p, k) /\ Purged(p, k)

Unexcused ==
    errors = 0 =>
        \A p \in Replicas, k \in Pages : excuse[p][k] = "none" => Fresh(p, k)

Types     == TypeOK /\ Holding /\ Asked
RenderInv == Types /\ Registered /\ Unexcused

-----------------------------------------------------------------------------
(* Lemmas about the operators.                                              *)

(* The Map holds finitely many pages.                                       *)
LEMMA CachedFinite ==
  ASSUME NEW p \in Replicas
  PROVE  /\ Cached(p) \subseteq Pages
         /\ IsFiniteSet(Cached(p))
         /\ Cardinality(Cached(p)) \in Nat
<1>1. Cached(p) \in SUBSET Pages
  BY DEF Cached
<1>2. IsFiniteSet(Cached(p))
  BY <1>1, FS_Subset, RenderCacheAssumption DEF RenderCacheAssumption
<1> QED
  BY <1>1, <1>2, FS_CardinalityType

(* An eviction takes pages of the Map, never the one that is set, and makes *)
(* room for it.                                                             *)
LEMMA EvictionsFit ==
  ASSUME TypeOK, NEW p \in Replicas, NEW k \in Pages, NEW gone \in Evictions(p, k)
  PROVE  /\ gone \subseteq Cached(p) /\ k \notin gone
         /\ Cardinality((Cached(p) \ gone) \cup {k}) <= Cap
<1>1. Cap \in Nat \ {0}
  BY RenderCacheAssumption DEF RenderCacheAssumption
<1>2. Cardinality(Cached(p)) <= Cap
  BY DEF TypeOK
<1>3. CASE k \notin Cached(p) /\ Cardinality(Cached(p)) >= Cap
  <2>1. PICK v \in Cached(p) : gone = {v}
    BY <1>3 DEF Evictions
  <2>2. /\ IsFiniteSet(Cached(p) \ {v})
        /\ Cardinality(Cached(p) \ {v}) = Cardinality(Cached(p)) - 1
    BY CachedFinite, FS_RemoveElement
  <2>3. Cardinality((Cached(p) \ {v}) \cup {k}) = Cardinality(Cached(p) \ {v}) + 1
    BY <2>2, <1>3, FS_AddElement
  <2> QED
    BY <1>1, <1>2, <1>3, <2>1, <2>2, <2>3, CachedFinite
<1>4. CASE ~(k \notin Cached(p) /\ Cardinality(Cached(p)) >= Cap)
  <2>1. gone = {}
    BY <1>4 DEF Evictions
  <2>2. Cardinality(Cached(p) \cup {k}) =
           IF k \in Cached(p) THEN Cardinality(Cached(p)) ELSE Cardinality(Cached(p)) + 1
    BY CachedFinite, FS_AddElement
  <2>3. (Cached(p) \ {}) \cup {k} = Cached(p) \cup {k}
    OBVIOUS
  <2> QED
    BY <1>1, <1>2, <1>4, <2>1, <2>2, <2>3, CachedFinite
<1> QED
  BY <1>3, <1>4

(* What the Maps hold after a copy has been put into one of them.           *)
LEMMA PutHolds ==
  ASSUME TypeOK, NEW p \in Replicas, NEW k \in Pages, NEW c \in Copy,
         NEW gone \in Evictions(p, k), Put(p, k, c, gone)
  PROVE  /\ l1' \in [Replicas -> [Pages -> Copy \cup {None}]]
         /\ since' \in [Replicas -> [Pages -> SUBSET Pages]]
         /\ \A q \in Replicas, j \in Pages :
               l1'[q][j] = IF q # p THEN l1[q][j]
                           ELSE IF j = k THEN c ELSE IF j \in gone THEN None ELSE l1[q][j]
         /\ \A q \in Replicas : q # p => Cached(q)' = Cached(q)
         /\ Cached(p)' = (Cached(p) \ gone) \cup {k}
         /\ \A q \in Replicas : Cardinality(Cached(q)') <= Cap
<1>1. gone \subseteq Cached(p) /\ k \notin gone /\ Cached(p) \subseteq Pages
  BY EvictionsFit, CachedFinite
<1>2. /\ l1' \in [Replicas -> [Pages -> Copy \cup {None}]]
      /\ \A q \in Replicas, j \in Pages :
            l1'[q][j] = IF q # p THEN l1[q][j]
                        ELSE IF j = k THEN c ELSE IF j \in gone THEN None ELSE l1[q][j]
  BY DEF Put, TypeOK
<1>3. since' \in [Replicas -> [Pages -> SUBSET Pages]]
  <2> DEFINE order == [j \in Pages |-> IF j \in Cached(p) \ (gone \cup {k})
                                      THEN (since[p][j] \ gone) \cup {k} ELSE {}]
  <2>1. since \in [Replicas -> [Pages -> SUBSET Pages]]
    BY DEF TypeOK
  <2>2. order \in [Pages -> SUBSET Pages]
    BY <2>1
  <2>3. since' = [since EXCEPT ![p] = order]
    BY DEF Put, Accessed
  <2> HIDE DEF order
  <2> QED
    BY <2>1, <2>2, <2>3
<1>4. \A q \in Replicas : q # p => Cached(q)' = Cached(q)
  BY <1>2 DEF Cached
<1>5. Cached(p)' = (Cached(p) \ gone) \cup {k}
  BY <1>1, <1>2, NoneAssumption DEF Cached
<1>6. \A q \in Replicas : Cardinality(Cached(q)') <= Cap
  BY <1>4, <1>5, EvictionsFit DEF TypeOK
<1> QED
  BY <1>2, <1>3, <1>4, <1>5, <1>6

(* A smaller Map fits when the larger one does.                             *)
LEMMA FewerFit ==
  ASSUME TypeOK, NEW p \in Replicas, NEW S \in SUBSET Cached(p)
  PROVE  Cardinality(S) <= Cap
<1>1. Cardinality(S) <= Cardinality(Cached(p)) /\ Cardinality(S) \in Nat
  BY CachedFinite, FS_Subset, FS_CardinalityType
<1>2. Cap \in Nat /\ Cardinality(Cached(p)) <= Cap
  BY RenderCacheAssumption DEF TypeOK, RenderCacheAssumption
<1> QED
  BY <1>1, <1>2, CachedFinite

(* The deletions that are sent for some pages: one for each of them, and    *)
(* nothing else.                                                            *)
LEMMA DelsCover ==
  ASSUME NEW pages \in SUBSET Pages
  PROVE  /\ Dels(pages) \in Seq(Command)
         /\ \A i \in DOMAIN Dels(pages) : Dels(pages)[i].op = "del"
         /\ \A k \in pages : \E i \in DOMAIN Dels(pages) : IsDel(Dels(pages)[i], k)
<1> DEFINE del == [k \in pages |-> [op |-> "del", page |-> k, copy |-> None]]
           S == {[op |-> "del", page |-> k, copy |-> None] : k \in pages}
           n == Cardinality(S)
<1>1. S \in SUBSET Command
  BY DEF Command
<1>2. IsFiniteSet(pages)
  BY FS_Subset, RenderCacheAssumption DEF RenderCacheAssumption
<1>3. del \in Surjection(pages, S)
  BY DEF Surjection
<1>4. IsFiniteSet(S)
  <2> HIDE DEF del, S
  <2> QED
    BY <1>2, <1>3, FS_Surjection
<1>5. n \in Nat /\ ExistsBijection(1..n, S)
  <2> HIDE DEF S
  <2> QED
    BY <1>4, FS_CardinalityType
<1>6. \E f \in [1..n -> S] : IsInjective(f)
  <2> HIDE DEF S, n
  <2> QED
    BY <1>5 DEF ExistsBijection, Bijection, Injection
<1>7. Dels(pages) \in [1..n -> S] /\ IsInjective(Dels(pages))
  <2>1. Dels(pages) = CHOOSE f \in [1..n -> S] : IsInjective(f)
    BY DEF Dels, SetToSeq
  <2> HIDE DEF S, n
  <2> QED
    BY <1>6, <2>1
<1>8. Dels(pages) \in Surjection(1..n, S)
  <2>1. Cardinality(1..n) = n
    BY <1>5, FS_Interval
  <2> HIDE DEF S
  <2>2. Dels(pages) \in Injection(1..n, S)
    BY <1>7 DEF Injection
  <2> QED
    BY <1>4, <2>1, <2>2, FS_Injection
<1>9. Dels(pages) \in Seq(Command)
  <2> HIDE DEF S, n
  <2> QED
    BY <1>1, <1>5, <1>7
<1>10. \A i \in DOMAIN Dels(pages) : Dels(pages)[i].op = "del"
  <2>1. \A c \in S : c.op = "del"
    OBVIOUS
  <2> HIDE DEF S, n
  <2> QED
    BY <1>7, <2>1
<1>11. \A k \in pages : \E i \in DOMAIN Dels(pages) : IsDel(Dels(pages)[i], k)
  <2>1. \A k \in pages : \E c \in S : IsDel(c, k)
    <3> TAKE k \in pages
    <3> WITNESS [op |-> "del", page |-> k, copy |-> None] \in S
    <3> QED
      BY DEF IsDel
  <2> HIDE DEF S, n
  <2> QED
    BY <1>7, <1>8, <2>1 DEF Surjection
<1> QED
  BY <1>9, <1>10, <1>11

(* The queues after commands were appended to one of them.                  *)
LEMMA SendAppends ==
  ASSUME TypeOK, NEW p \in Replicas, NEW t \in Seq(Command), Send(p, t)
  PROVE  /\ sent' \in [Replicas -> Seq(Command)]
         /\ \A q \in Replicas : q # p => sent'[q] = sent[q]
         /\ \A i \in DOMAIN sent[p] : i \in DOMAIN sent'[p] /\ sent'[p][i] = sent[p][i]
         /\ \A i \in DOMAIN sent'[p] :
               i \notin DOMAIN sent[p] =>
                  /\ \A j \in DOMAIN sent[p] : j < i
                  /\ \E j \in DOMAIN t : sent'[p][i] = t[j] /\ i = Len(sent[p]) + j
         /\ \A j \in DOMAIN t : /\ Len(sent[p]) + j \in DOMAIN sent'[p] \ DOMAIN sent[p]
                               /\ sent'[p][Len(sent[p]) + j] = t[j]
<1> DEFINE s == sent[p]
<1>1. s \in Seq(Command) /\ sent \in [Replicas -> Seq(Command)]
  BY DEF TypeOK
<1>2. sent' = [sent EXCEPT ![p] = s \o t]
  BY DEF Send
<1>3. /\ s \o t \in Seq(Command)
      /\ Len(s \o t) = Len(s) + Len(t)
      /\ \A i \in 1 .. Len(s) + Len(t) : (s \o t)[i] = IF i <= Len(s) THEN s[i] ELSE t[i - Len(s)]
  BY <1>1, ConcatProperties
<1>4. /\ Len(s) \in Nat /\ Len(t) \in Nat
      /\ DOMAIN s = 1..Len(s) /\ DOMAIN t = 1..Len(t)
      /\ DOMAIN (s \o t) = 1..(Len(s) + Len(t))
  BY <1>1, <1>3, LenProperties
<1>5. sent'[p] = s \o t /\ \A q \in Replicas : q # p => sent'[q] = sent[q]
  BY <1>1, <1>2
<1>6. sent' \in [Replicas -> Seq(Command)]
  BY <1>1, <1>2, <1>3
<1> HIDE DEF s
<1> DEFINE u == s \o t
<1>7. /\ \A i \in DOMAIN s : i \in DOMAIN u /\ u[i] = s[i]
      /\ \A i \in DOMAIN u :
            i \notin DOMAIN s =>
               /\ \A j \in DOMAIN s : j < i
               /\ \E j \in DOMAIN t : u[i] = t[j] /\ i = Len(s) + j
      /\ \A j \in DOMAIN t : /\ Len(s) + j \in DOMAIN u \ DOMAIN s
                            /\ u[Len(s) + j] = t[j]
  <2>1. \A i \in 1..Len(s) : i \in 1..(Len(s) + Len(t)) /\ u[i] = s[i]
    BY <1>3, <1>4
  <2>2. \A i \in 1..(Len(s) + Len(t)) :
          i \notin 1..Len(s) =>
             (\A j \in 1..Len(s) : j < i) /\ u[i] = t[i - Len(s)] /\ i - Len(s) \in 1..Len(t)
                /\ i = Len(s) + (i - Len(s))
    BY <1>3, <1>4
  <2>3. \A j \in 1..Len(t) : /\ Len(s) + j \in 1..(Len(s) + Len(t)) /\ Len(s) + j \notin 1..Len(s)
                             /\ u[Len(s) + j] = t[j]
    BY <1>3, <1>4
  <2> QED
    BY <1>4, <2>1, <2>2, <2>3
<1> QED
  BY <1>5, <1>6, <1>7 DEF s

(* The queues after the first command of one was taken off.                 *)
LEMMA TailShifts ==
  ASSUME TypeOK, NEW p \in Replicas, sent[p] # <<>>,
         sent' = [sent EXCEPT ![p] = Tail(@)]
  PROVE  /\ sent' \in [Replicas -> Seq(Command)]
         /\ \A q \in Replicas : q # p => sent'[q] = sent[q]
         /\ DOMAIN sent[p] \subseteq Nat \ {0} /\ DOMAIN sent'[p] \subseteq Nat \ {0}
         /\ 1 \in DOMAIN sent[p] /\ Head(sent[p]) = sent[p][1] /\ sent[p][1] \in Command
         /\ \A i \in DOMAIN sent'[p] : i + 1 \in DOMAIN sent[p] /\ sent'[p][i] = sent[p][i + 1]
         /\ \A i \in DOMAIN sent[p] : i # 1 => i - 1 \in DOMAIN sent'[p]
<1> DEFINE s == sent[p]
<1>1. s \in Seq(Command) /\ sent \in [Replicas -> Seq(Command)]
  BY DEF TypeOK
<1>2. sent'[p] = Tail(s) /\ \A q \in Replicas : q # p => sent'[q] = sent[q]
  BY <1>1
<1>3. /\ Tail(s) \in Seq(Command)
      /\ Len(Tail(s)) = Len(s) - 1
      /\ \A i \in 1..Len(Tail(s)) : Tail(s)[i] = s[i + 1]
  BY <1>1, HeadTailProperties
<1>4. /\ Len(s) \in Nat \ {0}
      /\ DOMAIN s = 1..Len(s) /\ DOMAIN Tail(s) = 1..(Len(s) - 1)
  BY <1>1, <1>3, LenProperties, EmptySeq
<1>5. sent' \in [Replicas -> Seq(Command)]
  BY <1>1, <1>3
<1>6. Head(s) = s[1] /\ s[1] \in Command
  BY <1>1, <1>4, ElementOfSeq
<1> HIDE DEF s
<1>7. /\ DOMAIN s \subseteq Nat \ {0} /\ DOMAIN Tail(s) \subseteq Nat \ {0} /\ 1 \in DOMAIN s
      /\ \A i \in DOMAIN Tail(s) : i + 1 \in DOMAIN s /\ Tail(s)[i] = s[i + 1]
      /\ \A i \in DOMAIN s : i # 1 => i - 1 \in DOMAIN Tail(s)
  BY <1>3, <1>4
<1> QED
  BY <1>2, <1>5, <1>6, <1>7 DEF s

(* A copy one tick later, and a copy with another lifetime.                 *)
LEMMA CopyFacts ==
  ASSUME NEW c \in Copy
  PROVE  /\ c # None /\ c.body \in Versions /\ c.left \in 1..Ttl
         /\ c.left # 1 => /\ [c EXCEPT !.left = @ - 1] \in Copy
                          /\ [c EXCEPT !.left = @ - 1] # None
                          /\ [c EXCEPT !.left = @ - 1].body = c.body
         /\ \A d \in Copy : /\ [c EXCEPT !.left = d.left] \in Copy
                            /\ [c EXCEPT !.left = d.left].body = c.body
<1>1. Ttl \in Nat \ {0}
  BY RenderCacheAssumption DEF RenderCacheAssumption
<1>2. c # None
  BY NoneAssumption
<1>3. c.body \in Versions /\ c.left \in 1..Ttl
  BY DEF Copy
<1>4. ASSUME NEW n \in 1..Ttl
      PROVE  [c EXCEPT !.left = n] \in Copy /\ [c EXCEPT !.left = n].body = c.body
  BY DEF Copy
<1>5. ASSUME c.left # 1
      PROVE  c.left - 1 \in 1..Ttl
  BY <1>1, <1>3, <1>5
<1>6. [c EXCEPT !.left = @ - 1] = [c EXCEPT !.left = c.left - 1]
  BY DEF Copy
<1>7. \A d \in Copy : d.left \in 1..Ttl
  BY DEF Copy
<1> QED
  BY <1>2, <1>3, <1>4, <1>5, <1>6, <1>7, NoneAssumption

(* The Map and the registrations after pages were dropped.                  *)
LEMMA DropHolds ==
  ASSUME TypeOK, NEW p \in Replicas, NEW pages \in SUBSET Pages, Drop(p, pages)
  PROVE  /\ l1' \in [Replicas -> [Pages -> Copy \cup {None}]]
         /\ since' \in [Replicas -> [Pages -> SUBSET Pages]]
         /\ events' \in [Replicas -> SUBSET Pages]
         /\ \A q \in Replicas, j \in Pages :
               l1'[q][j] = IF q = p /\ j \in pages THEN None ELSE l1[q][j]
         /\ \A q \in Replicas : q # p => Cached(q)' = Cached(q) /\ events'[q] = events[q]
         /\ Cached(p)' = Cached(p) \ pages /\ events'[p] = events[p] \ pages
         /\ \A q \in Replicas : Cardinality(Cached(q)') <= Cap
<1>1. /\ l1' \in [Replicas -> [Pages -> Copy \cup {None}]]
      /\ \A q \in Replicas, j \in Pages :
            l1'[q][j] = IF q = p /\ j \in pages THEN None ELSE l1[q][j]
  BY DEF Drop, Without, TypeOK
<1>2. since' \in [Replicas -> [Pages -> SUBSET Pages]]
  <2>1. since \in [Replicas -> [Pages -> SUBSET Pages]]
    BY DEF TypeOK
  <2>2. Forgotten(p, pages) \in [Pages -> SUBSET Pages]
    BY <2>1 DEF Forgotten
  <2> QED
    BY <2>1, <2>2 DEF Drop
<1>3. /\ events' \in [Replicas -> SUBSET Pages]
      /\ \A q \in Replicas : q # p => events'[q] = events[q]
      /\ events'[p] = events[p] \ pages
  BY DEF Drop, TypeOK
<1>4. \A q \in Replicas : q # p => Cached(q)' = Cached(q)
  BY <1>1 DEF Cached
<1>5. Cached(p)' = Cached(p) \ pages
  BY <1>1 DEF Cached
<1>6. \A q \in Replicas : Cardinality(Cached(q)') <= Cap
  BY <1>4, <1>5, FewerFit DEF TypeOK
<1> QED
  BY <1>1, <1>2, <1>3, <1>4, <1>5, <1>6

(* The copies after a tick: those that are left have their body.            *)
LEMMA TickHolds ==
  ASSUME TypeOK, Tick
  PROVE  /\ l1' \in [Replicas -> [Pages -> Copy \cup {None}]]
         /\ since' \in [Replicas -> [Pages -> SUBSET Pages]]
         /\ l2' \in [Pages -> Copy \cup {None}]
         /\ \A q \in Replicas, k \in Pages :
               l1'[q][k] # None => l1[q][k] # None /\ l1'[q][k].body = l1[q][k].body
         /\ \A k \in Pages : l2'[k] # None => l2[k] # None /\ l2'[k].body = l2[k].body
         /\ \A q \in Replicas : Cached(q)' \subseteq Cached(q) \ Lapsed(q)
         /\ \A q \in Replicas : Cardinality(Cached(q)') <= Cap
<1>1. ASSUME NEW q \in Replicas, NEW k \in Pages
      PROVE  /\ Aging(q)[k] \in Copy \cup {None}
             /\ Aging(q)[k] # None =>
                  /\ l1[q][k] # None /\ Aging(q)[k].body = l1[q][k].body
                  /\ k \in Cached(q) \ Lapsed(q)
  <2>1. l1[q][k] \in Copy \cup {None}
    BY DEF TypeOK
  <2>2. Aging(q)[k] = IF k \notin Cached(q) \/ l1[q][k].left = 1 THEN None
                      ELSE [l1[q][k] EXCEPT !.left = @ - 1]
    BY DEF Aging
  <2>3. k \in Cached(q) <=> l1[q][k] # None
    BY DEF Cached
  <2> QED
    BY <2>1, <2>2, <2>3, CopyFacts DEF Lapsed
<1>2. l1' = [q \in Replicas |-> Aging(q)]
  BY DEF Tick
<1>3. \A q \in Replicas : Aging(q) = [k \in Pages |-> Aging(q)[k]]
  BY DEF Aging
<1>4. l1' \in [Replicas -> [Pages -> Copy \cup {None}]]
  <2>1. \A q \in Replicas : Aging(q) \in [Pages -> Copy \cup {None}]
    BY <1>1, <1>3
  <2> QED
    BY <1>2, <2>1
<1>5. /\ \A q \in Replicas, k \in Pages :
           l1'[q][k] # None => l1[q][k] # None /\ l1'[q][k].body = l1[q][k].body
      /\ \A q \in Replicas : Cached(q)' \subseteq Cached(q) \ Lapsed(q)
  BY <1>1, <1>2 DEF Cached
<1>6. since' \in [Replicas -> [Pages -> SUBSET Pages]]
  <2>1. since \in [Replicas -> [Pages -> SUBSET Pages]]
    BY DEF TypeOK
  <2>2. \A q \in Replicas : Forgotten(q, Lapsed(q)) \in [Pages -> SUBSET Pages]
    BY <2>1 DEF Forgotten
  <2> QED
    BY <2>2 DEF Tick
<1>7. ASSUME NEW k \in Pages
      PROVE  /\ l2'[k] \in Copy \cup {None}
             /\ l2'[k] # None => l2[k] # None /\ l2'[k].body = l2[k].body
  <2>1. l2[k] \in Copy \cup {None}
    BY DEF TypeOK
  <2>2. l2'[k] = IF l2[k] = None THEN None ELSE IF l2[k].left = 1 THEN None
                 ELSE [l2[k] EXCEPT !.left = @ - 1]
    BY DEF Tick
  <2> QED
    BY <2>1, <2>2, CopyFacts
<1>8. l2' \in [Pages -> Copy \cup {None}]
  <2>1. l2' = [k \in Pages |-> l2'[k]]
    BY DEF Tick
  <2> QED
    BY <1>7, <2>1
<1>9. \A q \in Replicas : Cardinality(Cached(q)') <= Cap
  BY <1>5, FewerFit
<1> QED
  BY <1>4, <1>5, <1>6, <1>7, <1>8, <1>9

(* What redis does with the first command of a queue.                       *)
LEMMA ExecutedHolds ==
  ASSUME TypeOK, Holding, Asked, NEW p \in Replicas, sent[p] # <<>>, Executed(Head(sent[p])),
         NEW c, c = Head(sent[p])
  PROVE  /\ at' \in [Requests -> Place]
         /\ held' \in [Requests -> Copy \cup {None}]
         /\ l2' \in [Pages -> Copy \cup {None}]
         /\ \/ /\ c.op \in {"set", "del"} /\ c.page \in Pages /\ c.copy \in Copy \cup {None}
               /\ c.op = "set" => c.copy \in Copy
               /\ c.op = "del" => c.copy = None
               /\ l2' = [l2 EXCEPT ![c.page] = c.copy]
               /\ UNCHANGED <<at, held>>
            \/ /\ c.op = "get" /\ c.by \in Requests /\ at[c.by] = "getting" /\ Replica[c.by] = p
               /\ held[c.by] = None
               /\ at' = [at EXCEPT ![c.by] = "got"]
               /\ held' = [held EXCEPT ![c.by] = l2[Page[c.by]]]
               /\ UNCHANGED l2
            \/ /\ c.op = "pttl" /\ c.by \in Requests /\ at[c.by] = "aging" /\ Replica[c.by] = p
               /\ at' = [at EXCEPT ![c.by] = "aged"]
               /\ \A r \in Requests : r # c.by => held'[r] = held[r]
               /\ held'[c.by] # None => held'[c.by].body = held[c.by].body
               /\ UNCHANGED l2
<1>1. sent[p] \in Seq(Command)
  BY DEF TypeOK
<1>2. /\ Len(sent[p]) \in Nat \ {0} /\ DOMAIN sent[p] = 1..Len(sent[p])
  BY <1>1, LenProperties, EmptySeq
<1>3. c = sent[p][1] /\ c \in Command /\ 1 \in DOMAIN sent[p]
  BY <1>1, <1>2, ElementOfSeq
<1>4. CASE c.op \in {"set", "del"}
  <2>1. /\ c.page \in Pages /\ c.copy \in Copy \cup {None}
        /\ c.op = "set" => c.copy \in Copy
        /\ c.op = "del" => c.copy = None
    BY <1>3, <1>4 DEF Command
  <2>2. l2' = [l2 EXCEPT ![c.page] = c.copy] /\ UNCHANGED <<at, held>>
    BY <1>4 DEF Executed
  <2> QED
    BY <1>4, <2>1, <2>2 DEF TypeOK
<1>5. CASE c.op \in {"get", "pttl"}
  <2>1. /\ c.by \in Requests /\ Replica[c.by] = p
        /\ at[c.by] = IF c.op = "get" THEN "getting" ELSE "aging"
    <3>1. c.by \in Requests
      BY <1>3, <1>5 DEF Command
    <3> QED
      BY <1>3, <1>5, <3>1 DEF Asked, IsRead
  <2>2. Page[c.by] \in Pages /\ l2[Page[c.by]] \in Copy \cup {None}
    BY <2>1, RenderCacheAssumption DEF RenderCacheAssumption, TypeOK
  <2>3. CASE c.op = "get"
    <3>1. /\ at' = [at EXCEPT ![c.by] = "got"]
          /\ held' = [held EXCEPT ![c.by] = l2[Page[c.by]]]
          /\ UNCHANGED l2
      BY <2>3 DEF Executed, MoveTo
    <3>2. held[c.by] = None
      BY <2>1, <2>3 DEF Holding
    <3>3. /\ at' \in [Requests -> Place]
          /\ held' \in [Requests -> Copy \cup {None}]
          /\ l2' \in [Pages -> Copy \cup {None}]
      BY <2>1, <2>2, <3>1 DEF TypeOK, Place
    <3> QED
      BY <2>1, <2>3, <3>1, <3>2, <3>3
  <2>4. CASE c.op = "pttl"
    <3> DEFINE h == IF l2[Page[c.by]] = None THEN None
                    ELSE [held[c.by] EXCEPT !.left = l2[Page[c.by]].left]
    <3>1. at' = [at EXCEPT ![c.by] = "aged"] /\ UNCHANGED l2
      BY <2>4 DEF Executed, MoveTo
    <3>2. held[c.by] \in Copy
      BY <2>1, <2>4 DEF Holding, TypeOK
    <3>3. held' = [held EXCEPT ![c.by] = h]
      BY <2>1, <2>4 DEF Executed, TypeOK
    <3>4. h \in Copy \cup {None} /\ (h # None => h.body = held[c.by].body)
      BY <2>2, <3>2, CopyFacts
    <3> HIDE DEF h
    <3>5. /\ at' \in [Requests -> Place]
          /\ held' \in [Requests -> Copy \cup {None}]
          /\ l2' \in [Pages -> Copy \cup {None}]
          /\ \A r \in Requests : r # c.by => held'[r] = held[r]
          /\ held'[c.by] = h
      BY <2>1, <3>1, <3>3, <3>4 DEF TypeOK, Place
    <3> QED
      BY <2>1, <2>4, <3>1, <3>4, <3>5
  <2> QED
    BY <1>5, <2>3, <2>4
<1> QED
  BY <1>4, <1>5, <1>3 DEF Command

(* A command of a queue carries what its kind needs.                        *)
LEMMA CommandFacts ==
  ASSUME TypeOK, NEW p \in Replicas, NEW i \in DOMAIN sent[p]
  PROVE  /\ sent[p][i] \in Command
         /\ sent[p][i].op \in {"set", "del", "get", "pttl"}
         /\ sent[p][i].op \in {"get", "pttl"} => sent[p][i].by \in Requests
         /\ sent[p][i].op \in {"set", "del"} => sent[p][i].page \in Pages
         /\ sent[p][i].op = "set" => sent[p][i].copy \in Copy
         /\ sent[p][i].op = "del" => sent[p][i].copy = None
<1>1. sent[p] \in Seq(Command)
  BY DEF TypeOK
<1>2. sent[p][i] \in Command
  BY <1>1, ElementOfSeq, LenProperties
<1> QED
  BY <1>2 DEF Command

(* The queues after a single command was appended to one of them.           *)
LEMMA SendOne ==
  ASSUME TypeOK, NEW p \in Replicas, NEW c \in Command, Send(p, <<c>>)
  PROVE  /\ sent' \in [Replicas -> Seq(Command)]
         /\ \A q \in Replicas : q # p => sent'[q] = sent[q]
         /\ \A i \in DOMAIN sent[p] : i \in DOMAIN sent'[p] /\ sent'[p][i] = sent[p][i]
         /\ \E n \in DOMAIN sent'[p] \ DOMAIN sent[p] :
               /\ sent'[p][n] = c
               /\ \A i \in DOMAIN sent'[p] : i \in DOMAIN sent[p] \/ i = n
               /\ \A i \in DOMAIN sent[p] : i < n
<1> DEFINE t == <<c>>
<1>1. t \in Seq(Command) /\ DOMAIN t = {1} /\ t[1] = c
  OBVIOUS
<1>2. Send(p, t)
  OBVIOUS
<1> HIDE DEF t
<1> DEFINE n == Len(sent[p]) + 1
<1>3. n \in DOMAIN sent'[p] \ DOMAIN sent[p] /\ sent'[p][n] = c
  BY <1>1, <1>2, SendAppends
<1>4. \A i \in DOMAIN sent'[p] : i \in DOMAIN sent[p] \/ i = n
  BY <1>1, <1>2, SendAppends
<1>5. \A i \in DOMAIN sent[p] : i < n
  BY <1>1, <1>2, <1>3, SendAppends
<1> QED
  BY <1>1, <1>2, <1>3, <1>4, <1>5, SendAppends

(* A command that is taken off a queue leaves the reads of the others.      *)
LEMMA AskedTail ==
  ASSUME TypeOK, Asked, NEW p \in Replicas, sent[p] # <<>>,
         sent' = [sent EXCEPT ![p] = Tail(@)],
         \A r \in Requests :
            at'[r] = at[r] \/ (IsRead(Head(sent[p])) /\ r = Head(sent[p]).by)
  PROVE  Asked'
<1> SUFFICES ASSUME NEW q \in Replicas, NEW i \in DOMAIN sent'[q], IsRead(sent'[q][i])
             PROVE  /\ Replica[sent'[q][i].by] = q
                    /\ at'[sent'[q][i].by] = IF sent'[q][i].op = "get" THEN "getting" ELSE "aging"
                    /\ \A j \in DOMAIN sent'[q] :
                          IsRead(sent'[q][j]) /\ sent'[q][j].by = sent'[q][i].by => j = i
  BY DEF Asked, IsRead
<1>1. \A u \in Replicas : \A j \in DOMAIN sent[u] : IsRead(sent[u][j]) => sent[u][j].by \in Requests
  BY CommandFacts DEF IsRead
<1>2. CASE q # p
  <2>1. sent'[q] = sent[q]
    BY <1>2, TailShifts
  <2>2. Replica[sent[q][i].by] = q /\ sent[q][i].by \in Requests
    BY <1>1, <2>1 DEF Asked
  <2>3. IsRead(Head(sent[p])) => Replica[Head(sent[p]).by] = p
    <3>1. 1 \in DOMAIN sent[p] /\ Head(sent[p]) = sent[p][1]
      BY TailShifts
    <3> QED
      BY <3>1 DEF Asked
  <2>4. at'[sent[q][i].by] = at[sent[q][i].by]
    BY <1>2, <2>2, <2>3
  <2> QED
    BY <1>2, <2>1, <2>4 DEF Asked
<1>3. CASE q = p
  <2>1. i + 1 \in DOMAIN sent[p] /\ sent'[p][i] = sent[p][i + 1] /\ i \in Nat \ {0}
    BY <1>3, TailShifts
  <2>2. Replica[sent[p][i + 1].by] = p /\ sent[p][i + 1].by \in Requests
    BY <1>1, <1>3, <2>1 DEF Asked
  <2>3. ~(IsRead(Head(sent[p])) /\ sent[p][i + 1].by = Head(sent[p]).by)
    <3>1. 1 \in DOMAIN sent[p] /\ Head(sent[p]) = sent[p][1] /\ i + 1 # 1
      BY <2>1, TailShifts
    <3> QED
      BY <1>3, <2>1, <3>1 DEF Asked
  <2>4. at'[sent[p][i + 1].by] = at[sent[p][i + 1].by]
    BY <2>2, <2>3
  <2>5. \A j \in DOMAIN sent'[p] :
          j + 1 \in DOMAIN sent[p] /\ sent'[p][j] = sent[p][j + 1] /\ j \in Nat
    BY TailShifts
  <2>6. \A j \in DOMAIN sent'[p] :
          IsRead(sent'[p][j]) /\ sent'[p][j].by = sent'[p][i].by => j + 1 = i + 1
    BY <1>3, <2>1, <2>5 DEF Asked
  <2> QED
    BY <1>3, <2>1, <2>2, <2>4, <2>5, <2>6 DEF Asked
<1> QED
  BY <1>2, <1>3

(* Nor do writes that are appended disturb them.                            *)
LEMMA AskedWrites ==
  ASSUME TypeOK, Asked, NEW p \in Replicas, NEW t \in Seq(Command), Send(p, t),
         \A i \in DOMAIN t : ~IsRead(t[i]),
         \A r \in Requests : at[r] \in {"getting", "aging"} => at'[r] = at[r]
  PROVE  Asked'
<1>1. \A u \in Replicas : \A j \in DOMAIN sent[u] : IsRead(sent[u][j]) => sent[u][j].by \in Requests
  BY CommandFacts DEF IsRead
<1>2. \A q \in Replicas : \A i \in DOMAIN sent'[q] :
        IsRead(sent'[q][i]) => i \in DOMAIN sent[q] /\ sent'[q][i] = sent[q][i]
  BY SendAppends
<1>3. \A q \in Replicas : \A i \in DOMAIN sent[q] :
        IsRead(sent[q][i]) => at'[sent[q][i].by] = at[sent[q][i].by]
  BY <1>1 DEF Asked
<1> QED
  BY <1>2, <1>3 DEF Asked, IsRead

(* A request that waits for nothing sends one read.                         *)
LEMMA AskedRead ==
  ASSUME TypeOK, Asked, NEW r \in Requests, NEW op \in {"get", "pttl"},
         at[r] \notin {"getting", "aging"},
         Send(Replica[r], <<[op |-> op, by |-> r]>>),
         MoveTo(r, IF op = "get" THEN "getting" ELSE "aging")
  PROVE  Asked'
<1> DEFINE p == Replica[r]
           c == [op |-> op, by |-> r]
<1>1. p \in Replicas /\ c \in Command
  BY RenderCacheAssumption DEF RenderCacheAssumption, Command
<1>2. c.op = op /\ c.by = r /\ IsRead(c)
  BY DEF IsRead
<1>3. \A u \in Replicas : \A j \in DOMAIN sent[u] :
        IsRead(sent[u][j]) => sent[u][j].by \in Requests /\ sent[u][j].by # r
  <2>1. \A u \in Replicas : \A j \in DOMAIN sent[u] :
          IsRead(sent[u][j]) => sent[u][j].by \in Requests
    BY CommandFacts DEF IsRead
  <2>2. \A u \in Replicas : \A j \in DOMAIN sent[u] :
          IsRead(sent[u][j]) => at[sent[u][j].by] \in {"getting", "aging"}
    BY DEF Asked
  <2> QED
    BY <2>1, <2>2
<1>4. /\ at'[r] = IF op = "get" THEN "getting" ELSE "aging"
      /\ \A u \in Requests : u # r => at'[u] = at[u]
  BY DEF MoveTo, TypeOK
<1> HIDE DEF p, c
<1>5. Send(p, <<c>>)
  BY DEF p, c
<1>6. \A q \in Replicas : q # p => sent'[q] = sent[q]
  BY <1>1, <1>5, SendOne
<1>7. PICK n \in DOMAIN sent'[p] \ DOMAIN sent[p] :
               /\ sent'[p][n] = c
               /\ \A i \in DOMAIN sent'[p] : i \in DOMAIN sent[p] \/ i = n
  BY <1>1, <1>5, SendOne
<1>8. \A i \in DOMAIN sent[p] : i \in DOMAIN sent'[p] /\ sent'[p][i] = sent[p][i]
  BY <1>1, <1>5, SendOne
<1> SUFFICES ASSUME NEW q \in Replicas, NEW i \in DOMAIN sent'[q], IsRead(sent'[q][i])
             PROVE  /\ Replica[sent'[q][i].by] = q
                    /\ at'[sent'[q][i].by] = IF sent'[q][i].op = "get" THEN "getting" ELSE "aging"
                    /\ \A j \in DOMAIN sent'[q] :
                          IsRead(sent'[q][j]) /\ sent'[q][j].by = sent'[q][i].by => j = i
  BY DEF Asked, IsRead
<1>9. CASE q # p
  BY <1>3, <1>4, <1>6, <1>9 DEF Asked
<1>10. CASE q = p /\ i = n
  <2>1. Replica[r] = q
    BY <1>10 DEF p
  <2> QED
    BY <1>2, <1>3, <1>4, <1>7, <1>8, <1>10, <2>1
<1>11. CASE q = p /\ i # n
  <2>1. i \in DOMAIN sent[p] /\ sent'[p][i] = sent[p][i]
    BY <1>7, <1>8, <1>11
  <2>2. sent[p][i].by # r /\ sent[p][i].by \in Requests
    BY <1>1, <1>3, <1>11, <2>1
  <2>3. \A j \in DOMAIN sent'[p] :
          IsRead(sent'[p][j]) /\ sent'[p][j].by = sent'[p][i].by =>
             j \in DOMAIN sent[p] /\ sent'[p][j] = sent[p][j]
    BY <1>2, <1>7, <1>8, <2>1, <2>2
  <2> QED
    BY <1>1, <1>4, <1>11, <2>1, <2>2, <2>3 DEF Asked
<1> QED
  BY <1>9, <1>10, <1>11

-----------------------------------------------------------------------------
(* Type correctness.                                                        *)

(* The constants and the records, as the steps use them.                    *)
LEMMA RequestFacts ==
  ASSUME TypeOK, NEW r \in Requests
  PROVE  /\ Replica[r] \in Replicas /\ Page[r] \in Pages
         /\ at[r] \in Place /\ held[r] \in Copy \cup {None}
         /\ Rendered \in Copy /\ Rendered # None /\ Rendered.body = version
<1>1. Replica[r] \in Replicas /\ Page[r] \in Pages /\ Ttl \in Nat \ {0}
  BY RenderCacheAssumption DEF RenderCacheAssumption
<1>2. at[r] \in Place /\ held[r] \in Copy \cup {None}
  BY DEF TypeOK
<1>3. version \in Versions
  BY DEF TypeOK
<1>4. Ttl \in 1..Ttl
  BY <1>1
<1>5. Rendered \in Copy /\ Rendered.body = version
  BY <1>3, <1>4 DEF Rendered, Copy
<1> QED
  BY <1>1, <1>2, <1>5, CopyFacts

(* Every step keeps the state well typed.                                   *)
LEMMA TypesKept ==
  ASSUME TypeOK, Holding, Asked, Next
  PROVE  TypeOK'
<1>1. ASSUME NEW r \in Requests, Serve(r)
      PROVE  TypeOK'
  <2>1. Page[r] \in Pages /\ Replica[r] \in Replicas
    BY RequestFacts
  <2>2. since' \in [Replicas -> [Pages -> SUBSET Pages]]
    <3> DEFINE order == [j \in Pages |-> IF j \in Cached(Replica[r]) \ ({} \cup {Page[r]})
                                        THEN (since[Replica[r]][j] \ {}) \cup {Page[r]} ELSE {}]
    <3>1. since \in [Replicas -> [Pages -> SUBSET Pages]]
      BY DEF TypeOK
    <3>2. order \in [Pages -> SUBSET Pages]
      BY <2>1, <3>1
    <3>3. since' = [since EXCEPT ![Replica[r]] = order]
      BY <1>1 DEF Serve, Accessed
    <3> HIDE DEF order
    <3> QED
      BY <3>1, <3>2, <3>3
  <2>3. at' \in [Requests -> Place]
    BY <1>1 DEF Serve, MoveTo, TypeOK, Place
  <2>4. \A p \in Replicas : Cached(p)' = Cached(p)
    BY <1>1 DEF Serve, Cached
  <2> QED
    BY <1>1, <2>2, <2>3, <2>4 DEF Serve, TypeOK
<1>2. ASSUME NEW r \in Requests, WarmRead(r) \/ AskAge(r)
      PROVE  TypeOK'
  <2>1. PICK op \in {"get", "pttl"}, place \in {"getting", "aging"} : Ask(r, op, place)
    BY <1>2 DEF WarmRead, AskAge
  <2>2. [op |-> op, by |-> r] \in Command
    BY DEF Command
  <2>3. sent' \in [Replicas -> Seq(Command)]
    BY <2>1, <2>2, SendOne, RequestFacts DEF Ask
  <2>4. at' \in [Requests -> Place]
    BY <2>1 DEF Ask, MoveTo, TypeOK, Place
  <2>5. \A p \in Replicas : Cached(p)' = Cached(p)
    BY <2>1 DEF Ask, Cached
  <2> QED
    BY <2>1, <2>3, <2>4, <2>5 DEF Ask, TypeOK
<1>3. ASSUME NEW r \in Requests, Render(r) \/ KeepCached(r) \/ SetEvents(r)
      PROVE  TypeOK'
  <2>1. at' \in [Requests -> Place] /\ held' \in [Requests -> Copy \cup {None}]
    BY <1>3, RequestFacts DEF Render, KeepCached, SetEvents, Done, MoveTo, TypeOK, Place
  <2>2. events' \in [Replicas -> SUBSET Pages]
    <3>1. events' = events \/ events' = [events EXCEPT ![Replica[r]] = @ \cup {Page[r]}]
      BY <1>3 DEF Render, KeepCached, SetEvents
    <3>2. events \in [Replicas -> SUBSET Pages]
      BY DEF TypeOK
    <3>3. Page[r] \in Pages
      BY RequestFacts
    <3> QED
      BY <3>1, <3>2, <3>3
  <2>3. UNCHANGED <<version, l1, since, l2, sent, excuse, removals, errors>>
    BY <1>3 DEF Render, KeepCached, SetEvents
  <2>4. \A p \in Replicas : Cached(p)' = Cached(p)
    BY <2>3 DEF Cached
  <2> QED
    BY <2>1, <2>2, <2>3, <2>4 DEF TypeOK
<1>4. ASSUME NEW r \in Requests, Warmed(r)
      PROVE  TypeOK'
  <2>1. Replica[r] \in Replicas /\ Page[r] \in Pages /\ held[r] \in Copy
    BY <1>4, RequestFacts DEF Warmed
  <2>2. PICK gone \in Evictions(Replica[r], Page[r]) :
           /\ Put(Replica[r], Page[r], held[r], gone)
           /\ events' = [events EXCEPT ![Replica[r]] = (@ \ gone) \cup {Page[r]}]
    BY <1>4 DEF Warmed
  <2>3. /\ l1' \in [Replicas -> [Pages -> Copy \cup {None}]]
        /\ since' \in [Replicas -> [Pages -> SUBSET Pages]]
        /\ \A q \in Replicas : Cardinality(Cached(q)') <= Cap
    BY <2>1, <2>2, PutHolds
  <2>4. events' \in [Replicas -> SUBSET Pages]
    BY <2>1, <2>2 DEF TypeOK
  <2>5. at' \in [Requests -> Place] /\ held' \in [Requests -> Copy \cup {None}]
    BY <1>4 DEF Warmed, Done, MoveTo, TypeOK, Place
  <2>6. UNCHANGED <<version, l2, sent, excuse, removals, errors>>
    BY <1>4 DEF Warmed
  <2> QED
    BY <2>3, <2>4, <2>5, <2>6 DEF TypeOK
<1>5. ASSUME NEW r \in Requests, Store(r)
      PROVE  TypeOK'
  <2>1. Replica[r] \in Replicas /\ Page[r] \in Pages /\ held[r] \in Copy
    BY <1>5, RequestFacts DEF Store, Holding
  <2>2. PICK gone \in Evictions(Replica[r], Page[r]) :
           /\ Put(Replica[r], Page[r], held[r], gone)
           /\ events' = [events EXCEPT ![Replica[r]] = @ \ gone]
    BY <1>5 DEF Store
  <2>3. /\ l1' \in [Replicas -> [Pages -> Copy \cup {None}]]
        /\ since' \in [Replicas -> [Pages -> SUBSET Pages]]
        /\ \A q \in Replicas : Cardinality(Cached(q)') <= Cap
    BY <2>1, <2>2, PutHolds
  <2>4. events' \in [Replicas -> SUBSET Pages]
    BY <2>1, <2>2 DEF TypeOK
  <2>5. at' \in [Requests -> Place]
    BY <1>5 DEF Store, MoveTo, TypeOK, Place
  <2>6. [op |-> "set", page |-> Page[r], copy |-> held[r]] \in Command
    BY <2>1 DEF Command
  <2>7. sent' \in [Replicas -> Seq(Command)]
    BY <1>5, <2>1, <2>6, SendOne DEF Store
  <2>8. UNCHANGED <<version, l2, held, excuse, removals, errors>>
    BY <1>5 DEF Store
  <2> QED
    BY <2>3, <2>4, <2>5, <2>7, <2>8 DEF TypeOK
<1>6. ASSUME NEW p \in Replicas, Save(p)
      PROVE  TypeOK'
  <2>1. Drop(p, events[p]) /\ events[p] \in SUBSET Pages
    BY <1>6 DEF Save, TypeOK
  <2>2. /\ l1' \in [Replicas -> [Pages -> Copy \cup {None}]]
        /\ since' \in [Replicas -> [Pages -> SUBSET Pages]]
        /\ events' \in [Replicas -> SUBSET Pages]
        /\ \A q \in Replicas : Cardinality(Cached(q)') <= Cap
    BY <2>1, DropHolds
  <2>3. sent' \in [Replicas -> Seq(Command)]
    BY <2>1, DelsCover, SendAppends DEF Drop
  <2>4. version' \in Versions
    <3>1. version \in 0..MaxSaves
      BY DEF TypeOK, Versions
    <3>2. version < MaxSaves /\ version' = version + 1
      BY <1>6 DEF Save, Saved
    <3>3. MaxSaves \in Nat
      BY RenderCacheAssumption DEF RenderCacheAssumption
    <3> QED
      BY <3>1, <3>2, <3>3 DEF Versions
  <2>5. excuse' \in [Replicas -> [Pages -> {"none", "remote", "in flight", "unregistered"}]]
    <3>1. excuse' = [q \in Replicas |-> [k \in Pages |-> Reason(q, p, k)]]
      BY <1>6 DEF Save, Saved
    <3>2. \A q \in Replicas, k \in Pages :
             Reason(q, p, k) \in {"none", "remote", "in flight", "unregistered"}
      BY DEF Reason
    <3> QED
      BY <3>1, <3>2
  <2>6. UNCHANGED <<l2, at, held, removals, errors>>
    BY <1>6 DEF Save, Saved
  <2> QED
    BY <2>2, <2>3, <2>4, <2>5, <2>6 DEF TypeOK
<1>7. ASSUME NEW p \in Replicas, Clear(p)
      PROVE  TypeOK'
  <2>1. Drop(p, Cached(p)) /\ Cached(p) \in SUBSET Pages
    BY <1>7, CachedFinite DEF Clear
  <2>2. /\ l1' \in [Replicas -> [Pages -> Copy \cup {None}]]
        /\ since' \in [Replicas -> [Pages -> SUBSET Pages]]
        /\ events' \in [Replicas -> SUBSET Pages]
        /\ \A q \in Replicas : Cardinality(Cached(q)') <= Cap
    BY <2>1, DropHolds
  <2>3. sent' \in [Replicas -> Seq(Command)]
    BY <2>1, DelsCover, SendAppends DEF Drop
  <2>4. removals' \in 0..MaxRemovals
    <3>1. removals \in 0..MaxRemovals /\ removals < MaxRemovals /\ removals' = removals + 1
      BY <1>7 DEF Clear, TypeOK
    <3>2. MaxRemovals \in Nat
      BY RenderCacheAssumption DEF RenderCacheAssumption
    <3> QED
      BY <3>1, <3>2
  <2>5. UNCHANGED <<version, l2, at, held, excuse, errors>>
    BY <1>7 DEF Clear
  <2> QED
    BY <2>2, <2>3, <2>4, <2>5 DEF TypeOK
<1>8. ASSUME NEW p \in Replicas, Land(p)
      PROVE  TypeOK'
  <2>1. sent[p] # <<>> /\ sent' = [sent EXCEPT ![p] = Tail(@)] /\ Executed(Head(sent[p]))
    BY <1>8 DEF Land
  <2>2. sent' \in [Replicas -> Seq(Command)]
    BY <2>1, TailShifts
  <2>3. /\ at' \in [Requests -> Place]
        /\ held' \in [Requests -> Copy \cup {None}]
        /\ l2' \in [Pages -> Copy \cup {None}]
    BY <2>1, ExecutedHolds
  <2>4. UNCHANGED <<version, l1, since, events, excuse, removals, errors>>
    BY <1>8 DEF Land
  <2>5. \A q \in Replicas : Cached(q)' = Cached(q)
    BY <2>4 DEF Cached
  <2> QED
    BY <2>2, <2>3, <2>4, <2>5 DEF TypeOK
<1>9. ASSUME NEW p \in Replicas, LandFails(p)
      PROVE  TypeOK'
  <2> DEFINE c == Head(sent[p])
  <2>1. sent[p] # <<>> /\ sent' = [sent EXCEPT ![p] = Tail(@)]
    BY <1>9 DEF LandFails
  <2>2. sent' \in [Replicas -> Seq(Command)] /\ 1 \in DOMAIN sent[p] /\ c = sent[p][1]
    BY <2>1, TailShifts
  <2>3. c.op \in {"set", "del"} \/ c.by \in Requests
    BY <2>2, CommandFacts
  <2>4. at' \in [Requests -> Place] /\ held' \in [Requests -> Copy \cup {None}]
    <3>1. IF c.op \in {"set", "del"} THEN UNCHANGED <<at, held>>
          ELSE at' = [at EXCEPT ![c.by] = "aged"] /\ held' = [held EXCEPT ![c.by] = None]
      BY <1>9 DEF LandFails, MoveTo
    <3> HIDE DEF c
    <3> QED
      BY <2>3, <3>1 DEF TypeOK, Place
  <2>5. errors' \in 0..MaxErrors
    <3>1. errors \in 0..MaxErrors /\ errors < MaxErrors /\ errors' = errors + 1
      BY <1>9 DEF LandFails, TypeOK
    <3>2. MaxErrors \in Nat
      BY RenderCacheAssumption DEF RenderCacheAssumption
    <3> QED
      BY <3>1, <3>2
  <2>6. UNCHANGED <<version, l1, since, events, l2, excuse, removals>>
    BY <1>9 DEF LandFails
  <2>7. \A q \in Replicas : Cached(q)' = Cached(q)
    BY <2>6 DEF Cached
  <2> QED
    BY <2>2, <2>4, <2>5, <2>6, <2>7 DEF TypeOK
<1>10. ASSUME Tick
       PROVE  TypeOK'
  <2>1. /\ l1' \in [Replicas -> [Pages -> Copy \cup {None}]]
        /\ since' \in [Replicas -> [Pages -> SUBSET Pages]]
        /\ l2' \in [Pages -> Copy \cup {None}]
        /\ \A q \in Replicas : Cardinality(Cached(q)') <= Cap
    BY <1>10, TickHolds
  <2>2. events' \in [Replicas -> SUBSET Pages]
    BY <1>10 DEF Tick, TypeOK
  <2>3. UNCHANGED <<version, sent, at, held, excuse, removals, errors>>
    BY <1>10 DEF Tick
  <2> QED
    BY <2>1, <2>2, <2>3 DEF TypeOK
<1> QED
  BY <1>1, <1>2, <1>3, <1>4, <1>5, <1>6, <1>7, <1>8, <1>9, <1>10 DEF Next, Step

(* Every step leaves requests with a copy exactly where they need one.      *)
LEMMA HoldingKept ==
  ASSUME TypeOK, Holding, Asked, Next
  PROVE  Holding'
<1>1. ASSUME NEW r \in Requests, Serve(r) \/ WarmRead(r) \/ Step(r)
      PROVE  Holding'
  <2>1. Rendered # None
    BY <1>1, RequestFacts
  <2>2. \A u \in Requests \ {r} : at'[u] = at[u] /\ held'[u] = held[u]
    BY <1>1 DEF Serve, WarmRead, Step, AskAge, Ask, Render, Warmed, KeepCached, Store, SetEvents,
                Done, MoveTo, TypeOK
  <2>3. \/ at'[r] = "done" /\ ((at[r] = "idle" /\ held'[r] = held[r]) \/ held'[r] = None)
        \/ at'[r] = "getting" /\ at[r] = "idle" /\ held'[r] = held[r]
        \/ at'[r] = "aging" /\ held[r] # None /\ held'[r] = held[r]
        \/ at'[r] = "rendering" /\ held'[r] = Rendered
        \/ at'[r] = "storing" /\ at[r] = "rendering" /\ held'[r] = held[r]
    BY <1>1 DEF Serve, WarmRead, Step, AskAge, Ask, Render, Warmed, KeepCached, Store, SetEvents,
                Done, MoveTo, TypeOK
  <2> QED
    BY <2>1, <2>2, <2>3 DEF Holding
<1>2. ASSUME NEW p \in Replicas, Save(p) \/ Clear(p)
      PROVE  Holding'
  BY <1>2 DEF Save, Saved, Clear, Holding
<1>3. ASSUME NEW p \in Replicas, Land(p)
      PROVE  Holding'
  <2> DEFINE c == Head(sent[p])
  <2>1. \/ UNCHANGED <<at, held>>
        \/ /\ c.by \in Requests
           /\ at' = [at EXCEPT ![c.by] = "got"] \/ at' = [at EXCEPT ![c.by] = "aged"]
           /\ \A r \in Requests : r # c.by => held'[r] = held[r]
    <3>1. sent[p] # <<>> /\ Executed(c)
      BY <1>3 DEF Land
    <3>2. held \in [Requests -> Copy \cup {None}]
      BY DEF TypeOK
    <3> QED
      BY <3>1, <3>2, ExecutedHolds
  <2> HIDE DEF c
  <2>2. at \in [Requests -> Place] /\ held \in [Requests -> Copy \cup {None}]
    BY DEF TypeOK
  <2>3. \A r \in Requests : (at'[r] = at[r] /\ held'[r] = held[r]) \/ at'[r] \in {"got", "aged"}
    BY <2>1, <2>2
  <2> QED
    BY <2>3 DEF Holding
<1>4. ASSUME NEW p \in Replicas, LandFails(p)
      PROVE  Holding'
  <2> DEFINE c == Head(sent[p])
  <2>1. \/ UNCHANGED <<at, held>>
        \/ at' = [at EXCEPT ![c.by] = "aged"] /\ held' = [held EXCEPT ![c.by] = None]
    BY <1>4 DEF LandFails, MoveTo
  <2> HIDE DEF c
  <2>2. at \in [Requests -> Place] /\ held \in [Requests -> Copy \cup {None}]
    BY DEF TypeOK
  <2>3. \A r \in Requests : (at'[r] = at[r] /\ held'[r] = held[r]) \/ at'[r] \in {"got", "aged"}
    BY <2>1, <2>2
  <2> QED
    BY <2>3 DEF Holding
<1>5. ASSUME Tick
      PROVE  Holding'
  BY <1>5 DEF Tick, Holding
<1> QED
  BY <1>1, <1>2, <1>3, <1>4, <1>5 DEF Next

(* Every step keeps the queued reads and the waiting requests in accord.    *)
LEMMA AskedKept ==
  ASSUME TypeOK, Holding, Asked, Next
  PROVE  Asked'
<1>1. ASSUME UNCHANGED sent,
             \A r \in Requests : at[r] \in {"getting", "aging"} => at'[r] = at[r]
      PROVE  Asked'
  <2>1. \A u \in Replicas : \A j \in DOMAIN sent[u] :
          IsRead(sent[u][j]) => at'[sent[u][j].by] = at[sent[u][j].by]
    BY <1>1, CommandFacts DEF Asked, IsRead
  <2> QED
    BY <1>1, <2>1 DEF Asked, IsRead
<1>2. ASSUME NEW r \in Requests, Serve(r)
      PROVE  Asked'
  BY <1>1, <1>2 DEF Serve, MoveTo, TypeOK
<1>3. ASSUME NEW r \in Requests, WarmRead(r)
      PROVE  Asked'
  BY <1>3, AskedRead DEF WarmRead, Ask
<1>4. ASSUME NEW r \in Requests, AskAge(r)
      PROVE  Asked'
  BY <1>4, AskedRead DEF AskAge, Ask
<1>5. ASSUME NEW r \in Requests, Render(r) \/ Warmed(r) \/ KeepCached(r) \/ SetEvents(r)
      PROVE  Asked'
  BY <1>1, <1>5 DEF Render, Warmed, KeepCached, SetEvents, Done, MoveTo, TypeOK
<1>6. ASSUME NEW r \in Requests, Store(r)
      PROVE  Asked'
  <2> DEFINE c == [op |-> "set", page |-> Page[r], copy |-> held[r]]
             t == <<c>>
  <2>1. Replica[r] \in Replicas /\ Page[r] \in Pages /\ held[r] \in Copy
    BY <1>6, RequestFacts DEF Store, Holding
  <2>2. c \in Command /\ ~IsRead(c)
    BY <2>1 DEF Command, IsRead
  <2> HIDE DEF c
  <2>3. t \in Seq(Command) /\ \A i \in DOMAIN t : ~IsRead(t[i])
    BY <2>2
  <2>4. Send(Replica[r], t)
    BY <1>6 DEF Store, c
  <2>5. \A u \in Requests : at[u] \in {"getting", "aging"} => at'[u] = at[u]
    BY <1>6 DEF Store, MoveTo, TypeOK
  <2> HIDE DEF t
  <2> QED
    BY <2>1, <2>3, <2>4, <2>5, AskedWrites
<1>7. ASSUME NEW p \in Replicas, Save(p) \/ Clear(p)
      PROVE  Asked'
  <2>1. PICK pages \in SUBSET Pages : Send(p, Dels(pages))
    BY <1>7, CachedFinite DEF Save, Clear, Drop, TypeOK
  <2>2. Dels(pages) \in Seq(Command) /\ \A i \in DOMAIN Dels(pages) : ~IsRead(Dels(pages)[i])
    BY DelsCover DEF IsRead
  <2>3. at' = at
    BY <1>7 DEF Save, Saved, Clear
  <2> QED
    BY <2>1, <2>2, <2>3, AskedWrites
<1>8. ASSUME NEW p \in Replicas, Land(p)
      PROVE  Asked'
  <2> DEFINE c == Head(sent[p])
  <2>1. sent[p] # <<>> /\ Executed(c) /\ sent' = [sent EXCEPT ![p] = Tail(@)]
    BY <1>8 DEF Land
  <2>2. \/ UNCHANGED at
        \/ IsRead(c) /\ (at' = [at EXCEPT ![c.by] = "got"] \/ at' = [at EXCEPT ![c.by] = "aged"])
    BY <2>1, ExecutedHolds DEF IsRead
  <2>3. \A r \in Requests : at'[r] = at[r] \/ (IsRead(c) /\ r = c.by)
    BY <2>2 DEF TypeOK
  <2> QED
    BY <2>1, <2>3, AskedTail
<1>9. ASSUME NEW p \in Replicas, LandFails(p)
      PROVE  Asked'
  <2> DEFINE c == Head(sent[p])
  <2>1. sent[p] # <<>> /\ sent' = [sent EXCEPT ![p] = Tail(@)]
    BY <1>9 DEF LandFails
  <2>2. \/ UNCHANGED at
        \/ c.op \notin {"set", "del"} /\ at' = [at EXCEPT ![c.by] = "aged"]
    BY <1>9 DEF LandFails, MoveTo
  <2>3. c.op \in {"set", "del"} \/ IsRead(c)
    <3>1. 1 \in DOMAIN sent[p] /\ c = sent[p][1]
      BY <2>1, TailShifts
    <3> QED
      BY <3>1, CommandFacts DEF IsRead
  <2>4. \A r \in Requests : at'[r] = at[r] \/ (IsRead(c) /\ r = c.by)
    BY <2>2, <2>3 DEF TypeOK
  <2> QED
    BY <2>1, <2>4, AskedTail
<1>10. ASSUME Tick
       PROVE  Asked'
  BY <1>1, <1>10 DEF Tick
<1> QED
  BY <1>2, <1>3, <1>4, <1>5, <1>6, <1>7, <1>8, <1>9, <1>10 DEF Next, Step

(* The part of the invariant that type correctness needs.                   *)
LEMMA TypesInvariant == Spec => []Types
<1>1. Init => Types
  <2> SUFFICES ASSUME Init
               PROVE  Types
    OBVIOUS
  <2>1. {MaxSaves, MaxRemovals, MaxErrors, Cap} \subseteq Nat
    BY RenderCacheAssumption DEF RenderCacheAssumption
  <2>2. \A p \in Replicas : Cached(p) = {}
    BY DEF Init, Cached
  <2>3. \A p \in Replicas : Cardinality(Cached(p)) <= Cap
    BY <2>1, <2>2, FS_EmptySet
  <2>4. <<>> \in Seq(Command) /\ DOMAIN <<>> = {}
    OBVIOUS
  <2>5. TypeOK
    <3>1. version \in Versions /\ removals \in 0..MaxRemovals /\ errors \in 0..MaxErrors
      BY <2>1 DEF Init, Versions
    <3>2. /\ l1 \in [Replicas -> [Pages -> Copy \cup {None}]]
          /\ since \in [Replicas -> [Pages -> SUBSET Pages]]
          /\ events \in [Replicas -> SUBSET Pages]
          /\ l2 \in [Pages -> Copy \cup {None}]
      BY DEF Init
    <3>3. /\ sent \in [Replicas -> Seq(Command)]
          /\ at \in [Requests -> Place]
          /\ held \in [Requests -> Copy \cup {None}]
          /\ excuse \in [Replicas -> [Pages -> {"none", "remote", "in flight", "unregistered"}]]
      BY <2>4 DEF Init, Place
    <3> QED
      BY <2>3, <3>1, <3>2, <3>3 DEF TypeOK
  <2>6. Holding
    BY DEF Init, Holding
  <2>7. Asked
    BY <2>4 DEF Init, Asked
  <2> QED
    BY <2>5, <2>6, <2>7 DEF Types
<1>2. Types /\ [Next]_vars => Types'
  <2> SUFFICES ASSUME Types, [Next]_vars
               PROVE  Types'
    OBVIOUS
  <2>1. CASE Next
    BY <2>1, TypesKept, HoldingKept, AskedKept DEF Types
  <2>2. CASE UNCHANGED vars
    <3>1. UNCHANGED <<version, l1, since, events, l2, sent, at, held, excuse, removals, errors>>
      BY <2>2 DEF vars
    <3>2. \A p \in Replicas : Cached(p)' = Cached(p)
      BY <3>1 DEF Cached
    <3>3. TypeOK'
      BY <3>1, <3>2 DEF Types, TypeOK
    <3>4. Holding' /\ Asked'
      BY <3>1 DEF Types, Holding, Asked, IsRead
    <3> QED
      BY <3>3, <3>4 DEF Types
  <2> QED
    BY <2>1, <2>2
<1> QED
  BY <1>1, <1>2, PTL DEF Spec

(* Every reachable state is well typed, for any number of replicas, pages   *)
(* and requests: in particular no Map of lib/cache ever exceeds its cap, a  *)
(* copy never has more life left than its ttl, and what a request stores    *)
(* or warms is a copy it really holds.                                      *)
THEOREM TypeCorrect == Spec => []TypeOK
<1>1. Types => TypeOK
  BY DEF Types
<1> QED
  BY <1>1, TypesInvariant, PTL

-----------------------------------------------------------------------------
(* Registrations.                                                           *)

(* Every step leaves the copies of the Maps registered.                     *)
LEMMA RegisteredKept ==
  ASSUME TypeOK, Holding, Asked, Registered, Next
  PROVE  Registered'
<1>1. ASSUME l1' = l1, \A q \in Replicas : events[q] \subseteq events'[q],
             \A r \in Requests : at[r] = "storing" =>
                at'[r] = "storing" \/ Page[r] \in events'[Replica[r]]
      PROVE  Registered'
  <2>1. \A q \in Replicas : Cached(q)' = Cached(q)
    BY <1>1 DEF Cached
  <2> QED
    BY <1>1, <2>1 DEF Registered
<1>2. ASSUME NEW r \in Requests,
             Serve(r) \/ WarmRead(r) \/ AskAge(r) \/ Render(r) \/ KeepCached(r)
      PROVE  Registered'
  <2>1. l1' = l1 /\ events' = events
    BY <1>2 DEF Serve, WarmRead, AskAge, Ask, Render, KeepCached
  <2>2. \A u \in Requests : at[u] = "storing" => at'[u] = "storing"
    BY <1>2 DEF Serve, WarmRead, AskAge, Ask, Render, KeepCached, Done, MoveTo, TypeOK
  <2> QED
    BY <1>1, <2>1, <2>2
<1>3. ASSUME NEW r \in Requests, SetEvents(r)
      PROVE  Registered'
  <2>1. l1' = l1 /\ events' = [events EXCEPT ![Replica[r]] = @ \cup {Page[r]}]
    BY <1>3 DEF SetEvents
  <2>2. events \in [Replicas -> SUBSET Pages] /\ Replica[r] \in Replicas
    BY RequestFacts DEF TypeOK
  <2>3. \A q \in Replicas : events[q] \subseteq events'[q]
    BY <2>1, <2>2
  <2>4. \A u \in Requests : u # r => at'[u] = at[u]
    BY <1>3 DEF SetEvents, Done, MoveTo, TypeOK
  <2>5. Page[r] \in events'[Replica[r]]
    BY <2>1, <2>2
  <2> QED
    BY <1>1, <2>1, <2>3, <2>4, <2>5
<1>4. ASSUME NEW r \in Requests, Warmed(r)
      PROVE  Registered'
  <2> DEFINE p == Replica[r]
             k == Page[r]
  <2>1. p \in Replicas /\ k \in Pages /\ held[r] \in Copy
    BY <1>4, RequestFacts DEF Warmed
  <2>2. PICK gone \in Evictions(p, k) :
           Put(p, k, held[r], gone) /\ events' = [events EXCEPT ![p] = (@ \ gone) \cup {k}]
    BY <1>4 DEF Warmed
  <2>3. /\ \A q \in Replicas : q # p => Cached(q)' = Cached(q)
        /\ Cached(p)' = (Cached(p) \ gone) \cup {k}
    BY <2>1, <2>2, PutHolds
  <2>4. /\ \A q \in Replicas : q # p => events'[q] = events[q]
        /\ events'[p] = (events[p] \ gone) \cup {k}
    BY <2>1, <2>2 DEF TypeOK
  <2>5. \A u \in Requests : at[u] = "storing" => at'[u] = "storing"
    BY <1>4 DEF Warmed, Done, MoveTo, TypeOK
  <2> HIDE DEF p, k
  <2>6. ASSUME NEW q \in Replicas, NEW j \in Cached(q)'
        PROVE  j \in Cached(q) \/ j \in events'[q]
    BY <2>3, <2>4
  <2>7. ASSUME NEW q \in Replicas, NEW j \in Cached(q)', j \in events[q]
        PROVE  j \in events'[q]
    BY <2>3, <2>4, <2>7
  <2> QED
    BY <2>5, <2>6, <2>7 DEF Registered
<1>5. ASSUME NEW r \in Requests, Store(r)
      PROVE  Registered'
  <2> DEFINE p == Replica[r]
             k == Page[r]
  <2>1. p \in Replicas /\ k \in Pages /\ held[r] \in Copy
    BY <1>5, RequestFacts DEF Store, Holding
  <2>2. PICK gone \in Evictions(p, k) :
           Put(p, k, held[r], gone) /\ events' = [events EXCEPT ![p] = @ \ gone]
    BY <1>5 DEF Store
  <2>3. /\ \A q \in Replicas : q # p => Cached(q)' = Cached(q)
        /\ Cached(p)' = (Cached(p) \ gone) \cup {k}
        /\ k \notin gone
    BY <2>1, <2>2, PutHolds, EvictionsFit
  <2>4. /\ \A q \in Replicas : q # p => events'[q] = events[q]
        /\ events'[p] = events[p] \ gone
    BY <2>1, <2>2 DEF TypeOK
  <2>5. /\ \A u \in Requests : at[u] = "storing" => at'[u] = "storing"
        /\ at'[r] = "storing"
    BY <1>5 DEF Store, MoveTo, TypeOK
  <2>6. ASSUME NEW q \in Replicas, NEW j \in Cached(q)'
        PROVE  j \in Cached(q) \/ (q = p /\ j = k)
    BY <2>3
  <2>7. ASSUME NEW q \in Replicas, NEW j \in Cached(q)', j \in events[q]
        PROVE  j \in events'[q] \/ (q = p /\ j = k)
    <3> HIDE DEF p, k
    <3> QED
      BY <2>3, <2>4, <2>7
  <2> QED
    BY <2>5, <2>6, <2>7 DEF Registered
<1>6. ASSUME NEW p \in Replicas, Save(p) \/ Clear(p)
      PROVE  Registered'
  <2>1. PICK pages \in SUBSET Pages : Drop(p, pages)
    BY <1>6, CachedFinite DEF Save, Clear, TypeOK
  <2>2. /\ \A q \in Replicas : q # p => Cached(q)' = Cached(q) /\ events'[q] = events[q]
        /\ Cached(p)' = Cached(p) \ pages /\ events'[p] = events[p] \ pages
    BY <2>1, DropHolds
  <2>3. at' = at
    BY <1>6 DEF Save, Saved, Clear
  <2> QED
    BY <2>2, <2>3 DEF Registered
<1>7. ASSUME NEW p \in Replicas, Land(p) \/ LandFails(p)
      PROVE  Registered'
  <2> DEFINE c == Head(sent[p])
  <2>1. sent[p] # <<>> /\ sent' = [sent EXCEPT ![p] = Tail(@)] /\ l1' = l1 /\ events' = events
    BY <1>7 DEF Land, LandFails
  <2>2. 1 \in DOMAIN sent[p] /\ c = sent[p][1]
    BY <2>1, TailShifts
  <2>3. IsRead(c) => at[c.by] # "storing"
    BY <2>2 DEF Asked
  <2>4. c.op \in {"set", "del"} \/ IsRead(c)
    BY <2>2, CommandFacts DEF IsRead
  <2>5. \/ UNCHANGED at
        \/ IsRead(c) /\ (at' = [at EXCEPT ![c.by] = "got"] \/ at' = [at EXCEPT ![c.by] = "aged"])
    <3>1. CASE Land(p)
      BY <2>1, <3>1, ExecutedHolds DEF Land, IsRead
    <3>2. CASE LandFails(p)
      BY <2>4, <3>2 DEF LandFails, MoveTo, IsRead
    <3> QED
      BY <1>7, <3>1, <3>2
  <2>6. \A u \in Requests : at[u] = "storing" => at'[u] = "storing"
    <3> HIDE DEF c
    <3> QED
      BY <2>3, <2>5 DEF TypeOK
  <2> QED
    BY <1>1, <2>1, <2>6
<1>8. ASSUME Tick
      PROVE  Registered'
  <2>1. \A q \in Replicas : Cached(q)' \subseteq Cached(q) \ Lapsed(q)
    BY <1>8, TickHolds
  <2>2. \A q \in Replicas : events'[q] = events[q] \ Lapsed(q)
    BY <1>8 DEF Tick
  <2>3. at' = at
    BY <1>8 DEF Tick
  <2> QED
    BY <2>1, <2>2, <2>3 DEF Registered
<1> QED
  BY <1>2, <1>3, <1>4, <1>5, <1>6, <1>7, <1>8 DEF Next, Step

-----------------------------------------------------------------------------
(* Invalidation.                                                            *)

(* What is staleness to a step that saves nothing.                          *)
LEMMA StaleSame ==
  ASSUME version' = version
  PROVE  /\ \A c : Stale(c)' <=> Stale(c)
         /\ \A c, k : StaleSet(c, k)' <=> StaleSet(c, k)
<1> QED
  BY DEF Stale, StaleSet, IsSet

(* Sets of the current version and deletions can be appended to any queue.  *)
LEMMA FreshSends ==
  ASSUME TypeOK, UNCHANGED <<version, l2>>, NEW p \in Replicas, NEW k \in Pages,
         NEW q \in Replicas, NEW t \in Seq(Command), Send(q, t),
         \A i \in DOMAIN t : ~StaleSet(t[i], k),
         FreshElsewhere(p, k), Purged(p, k)
  PROVE  FreshElsewhere(p, k)' /\ Purged(p, k)'
<1>1. \A u \in Replicas : \A i \in DOMAIN sent'[u] :
        \/ i \in DOMAIN sent[u] /\ sent'[u][i] = sent[u][i]
        \/ ~StaleSet(sent'[u][i], k) /\ \A j \in DOMAIN sent[u] : j < i
  BY SendAppends
<1>2. \A u \in Replicas : \A i \in DOMAIN sent[u] :
        i \in DOMAIN sent'[u] /\ sent'[u][i] = sent[u][i]
  BY SendAppends
<1>3. \A c : StaleSet(c, k)' <=> StaleSet(c, k)
  BY StaleSame
<1>4. FreshElsewhere(p, k)'
  <2>1. \A u \in Replicas \ {p} : \A i \in DOMAIN sent'[u] : ~StaleSet(sent'[u][i], k)
    BY <1>1 DEF FreshElsewhere
  <2> QED
    BY <2>1, StaleSame DEF FreshElsewhere, StaleSet, IsSet, Stale
<1>5. CASE Settled(p, k)
  <2>1. ~Stale(l2[k])'
    BY <1>5 DEF Settled, Stale
  <2>2. \A i \in DOMAIN sent'[p] : ~StaleSet(sent'[p][i], k)
    BY <1>1, <1>5 DEF Settled
  <2> QED
    BY <1>4, <2>1, <2>2 DEF Purged, Settled, StaleSet, IsSet, Stale
<1>6. CASE \E d \in DOMAIN sent[p] : Purge(p, k, d)
  <2>1. PICK d \in DOMAIN sent[p] : Purge(p, k, d)
    BY <1>6
  <2>2. d \in DOMAIN sent'[p] /\ IsDel(sent'[p][d], k)
    BY <1>2, <2>1 DEF Purge
  <2>3. \A i \in DOMAIN sent'[p] :
          /\ StaleSet(sent'[p][i], k) => i < d
          /\ sent'[p][i].op = "get" /\ Page[sent'[p][i].by] = k => d < i
    BY <1>1, <2>1 DEF Purge
  <2>4. Purge(p, k, d)'
    BY <2>2, <2>3 DEF Purge, IsDel, StaleSet, IsSet, Stale
  <2> QED
    BY <1>4, <2>2, <2>4 DEF Purged
<1> QED
  BY <1>5, <1>6 DEF Purged

(* The queues left alone, redis holds the same bodies or fewer.             *)
LEMMA FreshRests ==
  ASSUME TypeOK, UNCHANGED <<version, sent>>, NEW p \in Replicas, NEW k \in Pages,
         l2'[k] # None => l2[k] # None /\ l2'[k].body = l2[k].body,
         FreshElsewhere(p, k), Purged(p, k)
  PROVE  FreshElsewhere(p, k)' /\ Purged(p, k)'
<1>1. FreshElsewhere(p, k)'
  BY DEF FreshElsewhere, StaleSet, IsSet, Stale
<1>2. Settled(p, k) => Settled(p, k)'
  BY DEF Settled, StaleSet, IsSet, Stale
<1>3. \A d \in DOMAIN sent[p] : Purge(p, k, d) => Purge(p, k, d)'
  BY DEF Purge, IsDel, StaleSet, IsSet, Stale
<1> QED
  BY <1>1, <1>2, <1>3 DEF Purged

(* Redis executes a command.                                                *)
LEMMA FreshLands ==
  ASSUME TypeOK, Holding, Asked, NEW q \in Replicas, Land(q), NEW p \in Replicas, NEW k \in Pages,
         Fresh(p, k)
  PROVE  Fresh(p, k)'
<1> DEFINE c == Head(sent[q])
<1>1. sent[q] # <<>> /\ sent' = [sent EXCEPT ![q] = Tail(@)] /\ Executed(c)
      /\ UNCHANGED <<version, l1, errors, excuse>>
  BY DEF Land
<1>2. /\ \A u \in Replicas : u # q => sent'[u] = sent[u]
      /\ DOMAIN sent[q] \subseteq Nat \ {0} /\ DOMAIN sent'[q] \subseteq Nat \ {0}
      /\ 1 \in DOMAIN sent[q] /\ c = sent[q][1]
      /\ \A i \in DOMAIN sent'[q] : i + 1 \in DOMAIN sent[q] /\ sent'[q][i] = sent[q][i + 1]
      /\ \A i \in DOMAIN sent[q] : i # 1 => i - 1 \in DOMAIN sent'[q]
  BY <1>1, TailShifts
<1> HIDE DEF c
<1>3. /\ at' \in [Requests -> Place]
      /\ held' \in [Requests -> Copy \cup {None}]
      /\ l2' \in [Pages -> Copy \cup {None}]
      /\ \/ /\ c.op \in {"set", "del"} /\ c.page \in Pages /\ c.copy \in Copy \cup {None}
            /\ c.op = "set" => c.copy \in Copy
            /\ c.op = "del" => c.copy = None
            /\ l2' = [l2 EXCEPT ![c.page] = c.copy]
            /\ UNCHANGED <<at, held>>
         \/ /\ c.op = "get" /\ c.by \in Requests /\ at[c.by] = "getting" /\ Replica[c.by] = q
            /\ held[c.by] = None
            /\ at' = [at EXCEPT ![c.by] = "got"]
            /\ held' = [held EXCEPT ![c.by] = l2[Page[c.by]]]
            /\ UNCHANGED l2
         \/ /\ c.op = "pttl" /\ c.by \in Requests /\ at[c.by] = "aging" /\ Replica[c.by] = q
            /\ at' = [at EXCEPT ![c.by] = "aged"]
            /\ \A r \in Requests : r # c.by => held'[r] = held[r]
            /\ held'[c.by] # None => held'[c.by].body = held[c.by].body
            /\ UNCHANGED l2
  BY <1>1, ExecutedHolds DEF c
<1>4. /\ at \in [Requests -> Place]
      /\ held \in [Requests -> Copy \cup {None}]
      /\ l2 \in [Pages -> Copy \cup {None}]
  BY DEF TypeOK
<1>5. ~Stale(l1[p][k])'
  BY <1>1 DEF Fresh, Stale
<1>6. FreshElsewhere(p, k)'
  <2>1. \A u \in Replicas \ {p} : \A i \in DOMAIN sent'[u] : ~StaleSet(sent'[u][i], k)
    BY <1>2 DEF Fresh, FreshElsewhere
  <2> QED
    BY <1>1, <2>1 DEF FreshElsewhere, StaleSet, IsSet, Stale
<1>7. Purged(p, k)'
  <2>1. CASE q # p
    <3>1. sent'[p] = sent[p]
      BY <1>2, <2>1
    <3>2. l2'[k] = l2[k] \/ ~Stale(l2'[k])
      <4>1. CASE IsSet(c, k)
        <5>1. ~StaleSet(c, k)
          BY <1>2, <2>1 DEF Fresh, FreshElsewhere
        <5>2. l2'[k] = c.copy
          BY <1>3, <1>4, <4>1 DEF IsSet
        <5> QED
          BY <4>1, <5>1, <5>2 DEF StaleSet
      <4>2. CASE IsDel(c, k)
        <5>1. l2'[k] = None
          BY <1>3, <1>4, <4>2 DEF IsDel
        <5> QED
          BY <5>1 DEF Stale
      <4>3. CASE ~IsSet(c, k) /\ ~IsDel(c, k)
        BY <1>3, <1>4, <4>3 DEF IsSet, IsDel
      <4> QED
        BY <4>1, <4>2, <4>3
    <3>3. Settled(p, k) => Settled(p, k)'
      BY <1>1, <3>1, <3>2 DEF Settled, StaleSet, IsSet, Stale
    <3>4. \A d \in DOMAIN sent[p] : Purge(p, k, d) => Purge(p, k, d)'
      BY <1>1, <3>1 DEF Purge, IsDel, StaleSet, IsSet, Stale
    <3> QED
      BY <3>1, <3>3, <3>4 DEF Fresh, Purged
  <2>2. CASE q = p /\ Settled(p, k)
    <3>1. \A i \in DOMAIN sent'[p] : ~StaleSet(sent'[p][i], k)
      BY <1>2, <2>2 DEF Settled
    <3>2. ~Stale(l2'[k])
      <4>1. ~StaleSet(c, k) /\ ~Stale(l2[k])
        BY <1>2, <2>2 DEF Settled
      <4>2. l2'[k] = l2[k] \/ (IsSet(c, k) /\ l2'[k] = c.copy) \/ l2'[k] = None
        BY <1>3, <1>4 DEF IsSet
      <4> QED
        BY <4>1, <4>2 DEF StaleSet, Stale
    <3> QED
      BY <1>1, <3>1, <3>2 DEF Purged, Settled, StaleSet, IsSet, Stale
  <2>3. CASE q = p /\ \E d \in DOMAIN sent[p] : Purge(p, k, d)
    <3>1. PICK d \in DOMAIN sent[p] : Purge(p, k, d)
      BY <2>3
    <3>2. CASE d = 1
      <4>1. \A i \in DOMAIN sent'[p] : ~StaleSet(sent'[p][i], k)
        <5> TAKE i \in DOMAIN sent'[p]
        <5>1. i + 1 \in DOMAIN sent[p] /\ sent'[p][i] = sent[p][i + 1] /\ i \in Nat \ {0}
          BY <1>2, <2>3
        <5>2. ~(i + 1 < d)
          BY <3>2, <5>1
        <5> QED
          BY <3>1, <5>1, <5>2 DEF Purge
      <4>2. IsDel(c, k)
        BY <1>2, <2>3, <3>1, <3>2 DEF Purge
      <4>3. l2'[k] = None
        BY <1>3, <1>4, <4>2 DEF IsDel
      <4> QED
        BY <1>1, <4>1, <4>3 DEF Purged, Settled, StaleSet, IsSet, Stale
    <3>3. CASE d # 1
      <4>1. d - 1 \in DOMAIN sent'[p] /\ d \in Nat
        BY <1>2, <2>3, <3>1, <3>3
      <4>2. sent'[p][d - 1] = sent[p][d]
        <5>1. sent'[p][d - 1] = sent[p][(d - 1) + 1]
          BY <1>2, <2>3, <4>1
        <5>2. (d - 1) + 1 = d
          BY <4>1
        <5> QED
          BY <5>1, <5>2
      <4>3. ASSUME NEW i \in DOMAIN sent'[p]
            PROVE  /\ StaleSet(sent'[p][i], k) => i < d - 1
                   /\ sent'[p][i].op = "get" /\ Page[sent'[p][i].by] = k => d - 1 < i
        <5>1. i + 1 \in DOMAIN sent[p] /\ sent'[p][i] = sent[p][i + 1] /\ i \in Nat
          BY <1>2, <2>3
        <5>2. /\ StaleSet(sent[p][i + 1], k) => i + 1 < d
              /\ sent[p][i + 1].op = "get" /\ Page[sent[p][i + 1].by] = k => d < i + 1
          BY <3>1, <5>1 DEF Purge
        <5> QED
          BY <4>1, <5>1, <5>2
      <4>4. Purge(p, k, d - 1)'
        <5>1. IsDel(sent'[p][d - 1], k)
          BY <3>1, <4>2 DEF Purge
        <5> QED
          BY <1>1, <4>1, <4>3, <5>1 DEF Purge, IsDel, StaleSet, IsSet, Stale
      <4> QED
        BY <4>1, <4>4 DEF Purged
    <3> QED
      BY <3>2, <3>3
  <2> QED
    BY <2>1, <2>2, <2>3 DEF Fresh, Purged
<1>8. FreshRequests(p, k)'
  <2> SUFFICES ASSUME NEW r \in Requests, Page[r] = k,
                      at'[r] \in {"rendering", "storing"} \/ Replica[r] = p
               PROVE  ~Stale(held'[r])
    BY <1>1 DEF FreshRequests, Stale
  <2>1. CASE at'[r] = at[r] /\ held'[r] = held[r]
    BY <2>1 DEF Fresh, FreshRequests
  <2>2. CASE c.op = "get" /\ r = c.by
    <3>1. Replica[r] = p /\ q = p /\ held'[r] = l2[k]
      BY <1>3, <1>4, <2>2
    <3>2. ~\E d \in DOMAIN sent[p] : Purge(p, k, d)
      <4>1. \A d \in DOMAIN sent[p] : Purge(p, k, d) => d < 1 /\ d \in Nat \ {0}
        BY <1>2, <2>2, <3>1 DEF Purge
      <4>2. \A d \in Nat \ {0} : ~(d < 1)
        OBVIOUS
      <4> QED
        BY <4>1, <4>2
    <3> QED
      BY <3>1, <3>2 DEF Fresh, Purged, Settled
  <2>3. CASE c.op = "pttl" /\ r = c.by
    <3>1. Replica[r] = p /\ at[r] = "aging" /\ (held'[r] # None => held'[r].body = held[r].body)
      BY <1>3, <1>4, <2>3
    <3>2. held[r] # None /\ ~Stale(held[r])
      BY <3>1 DEF Holding, Fresh, FreshRequests
    <3> QED
      BY <3>1, <3>2 DEF Stale
  <2> QED
    BY <1>3, <1>4, <2>1, <2>2, <2>3
<1> QED
  BY <1>5, <1>6, <1>7, <1>8 DEF Fresh

(* A step that saves nothing and is no failure leaves what is fresh fresh.  *)
LEMMA FreshKept ==
  ASSUME TypeOK, Holding, Asked, Next, UNCHANGED <<version, errors>>,
         NEW p \in Replicas, NEW k \in Pages, Fresh(p, k)
  PROVE  Fresh(p, k)'
<1>1. ASSUME NEW r \in Requests, Serve(r) \/ KeepCached(r) \/ SetEvents(r)
      PROVE  Fresh(p, k)'
  <2>1. UNCHANGED <<l1, l2, sent>>
    BY <1>1 DEF Serve, KeepCached, SetEvents
  <2>2. FreshRequests(p, k)'
    <3>1. \A u \in Requests : u # r => at'[u] = at[u] /\ held'[u] = held[u]
      BY <1>1 DEF Serve, KeepCached, SetEvents, Done, MoveTo, TypeOK
    <3>2. held'[r] = None
      <4>1. \/ at[r] = "idle" /\ held' = held
            \/ held' = [held EXCEPT ![r] = None]
        BY <1>1 DEF Serve, KeepCached, SetEvents, Done
      <4>2. at[r] = "idle" => held[r] = None
        BY DEF Holding
      <4>3. held \in [Requests -> Copy \cup {None}]
        BY DEF TypeOK
      <4> QED
        BY <4>1, <4>2, <4>3
    <3> QED
      BY <3>1, <3>2 DEF Fresh, FreshRequests, Stale
  <2>3. FreshElsewhere(p, k)' /\ Purged(p, k)'
    BY <2>1, FreshRests DEF Fresh
  <2>4. ~Stale(l1[p][k])'
    BY <2>1 DEF Fresh, Stale
  <2> QED
    BY <2>2, <2>3, <2>4 DEF Fresh
<1>2. ASSUME NEW r \in Requests, WarmRead(r) \/ AskAge(r)
      PROVE  Fresh(p, k)'
  <2>1. PICK op \in {"get", "pttl"}, place \in {"getting", "aging"} : Ask(r, op, place)
    BY <1>2 DEF WarmRead, AskAge
  <2> DEFINE c == [op |-> op, by |-> r]
             t == <<c>>
  <2>2. c \in Command /\ c.op # "set"
    BY DEF Command
  <2> HIDE DEF c
  <2>3. t \in Seq(Command) /\ \A i \in DOMAIN t : ~StaleSet(t[i], k)
    BY <2>2 DEF StaleSet, IsSet
  <2>4. Send(Replica[r], t) /\ Replica[r] \in Replicas
    BY <2>1, RequestFacts DEF Ask, c
  <2>5. UNCHANGED <<l1, l2, held>>
    BY <2>1 DEF Ask
  <2> HIDE DEF t
  <2>6. FreshElsewhere(p, k)' /\ Purged(p, k)'
    BY <2>3, <2>4, <2>5, FreshSends DEF Fresh
  <2>7. FreshRequests(p, k)'
    <3>1. \A u \in Requests : at'[u] \in {"rendering", "storing"} => at[u] = at'[u]
      BY <2>1 DEF Ask, MoveTo, TypeOK
    <3> QED
      BY <2>5, <3>1 DEF Fresh, FreshRequests, Stale
  <2>8. ~Stale(l1[p][k])'
    BY <2>5 DEF Fresh, Stale
  <2> QED
    BY <2>6, <2>7, <2>8 DEF Fresh
<1>3. ASSUME NEW r \in Requests, Render(r)
      PROVE  Fresh(p, k)'
  <2>1. UNCHANGED <<l1, l2, sent>>
    BY <1>3 DEF Render
  <2>2. FreshRequests(p, k)'
    <3>1. \A u \in Requests : u # r => at'[u] = at[u] /\ held'[u] = held[u]
      BY <1>3 DEF Render, MoveTo, TypeOK
    <3>2. held'[r] = Rendered /\ Rendered.body = version
      BY <1>3, RequestFacts DEF Render, TypeOK
    <3> QED
      BY <3>1, <3>2 DEF Fresh, FreshRequests, Stale
  <2>3. FreshElsewhere(p, k)' /\ Purged(p, k)'
    BY <2>1, FreshRests DEF Fresh
  <2>4. ~Stale(l1[p][k])'
    BY <2>1 DEF Fresh, Stale
  <2> QED
    BY <2>2, <2>3, <2>4 DEF Fresh
<1>4. ASSUME NEW r \in Requests, NEW gone \in Evictions(Replica[r], Page[r]),
             Put(Replica[r], Page[r], held[r], gone), held[r] \in Copy,
             Page[r] = k /\ Replica[r] = p => ~Stale(held[r])
      PROVE  ~Stale(l1[p][k])'
  <2>1. Replica[r] \in Replicas /\ Page[r] \in Pages
    BY RequestFacts
  <2>2. l1'[p][k] = IF p # Replica[r] THEN l1[p][k]
                    ELSE IF k = Page[r] THEN held[r] ELSE IF k \in gone THEN None ELSE l1[p][k]
    BY <1>4, <2>1, PutHolds
  <2> QED
    BY <1>4, <2>2 DEF Fresh, Stale
<1>5. ASSUME NEW r \in Requests, Warmed(r)
      PROVE  Fresh(p, k)'
  <2>1. UNCHANGED <<l2, sent>>
    BY <1>5 DEF Warmed
  <2>2. FreshRequests(p, k)'
    <3>1. \A u \in Requests : u # r => at'[u] = at[u] /\ held'[u] = held[u]
      BY <1>5 DEF Warmed, Done, MoveTo, TypeOK
    <3>2. held'[r] = None
      BY <1>5 DEF Warmed, Done, TypeOK
    <3> QED
      BY <3>1, <3>2 DEF Fresh, FreshRequests, Stale
  <2>3. FreshElsewhere(p, k)' /\ Purged(p, k)'
    BY <2>1, FreshRests DEF Fresh
  <2>4. ~Stale(l1[p][k])'
    <3>1. held[r] \in Copy
      BY <1>5, RequestFacts DEF Warmed
    <3>2. Page[r] = k /\ Replica[r] = p => ~Stale(held[r])
      BY DEF Fresh, FreshRequests
    <3>3. PICK gone \in Evictions(Replica[r], Page[r]) : Put(Replica[r], Page[r], held[r], gone)
      BY <1>5 DEF Warmed
    <3> QED
      BY <1>4, <3>1, <3>2, <3>3
  <2> QED
    BY <2>2, <2>3, <2>4 DEF Fresh
<1>6. ASSUME NEW r \in Requests, Store(r)
      PROVE  Fresh(p, k)'
  <2> DEFINE c == [op |-> "set", page |-> Page[r], copy |-> held[r]]
             t == <<c>>
  <2>1. Replica[r] \in Replicas /\ Page[r] \in Pages /\ held[r] \in Copy
    BY <1>6, RequestFacts DEF Store, Holding
  <2>2. Page[r] = k => ~Stale(held[r])
    BY <1>6 DEF Fresh, FreshRequests, Store
  <2>3. c \in Command /\ ~StaleSet(c, k)
    BY <2>1, <2>2 DEF Command, StaleSet, IsSet
  <2> HIDE DEF c
  <2>4. t \in Seq(Command) /\ \A i \in DOMAIN t : ~StaleSet(t[i], k)
    BY <2>3
  <2>5. Send(Replica[r], t)
    BY <1>6 DEF Store, c
  <2>6. UNCHANGED <<l2, held>>
    BY <1>6 DEF Store
  <2> HIDE DEF t
  <2>7. FreshElsewhere(p, k)' /\ Purged(p, k)'
    BY <2>1, <2>4, <2>5, <2>6, FreshSends DEF Fresh
  <2>8. FreshRequests(p, k)'
    <3>1. \A u \in Requests : u # r => at'[u] = at[u]
      BY <1>6 DEF Store, MoveTo, TypeOK
    <3> QED
      BY <2>2, <2>6, <3>1 DEF Fresh, FreshRequests, Stale
  <2>9. ~Stale(l1[p][k])'
    <3>1. PICK gone \in Evictions(Replica[r], Page[r]) : Put(Replica[r], Page[r], held[r], gone)
      BY <1>6 DEF Store
    <3> QED
      BY <1>4, <2>1, <2>2, <3>1
  <2> QED
    BY <2>7, <2>8, <2>9 DEF Fresh
<1>7. ASSUME NEW q \in Replicas, Save(q)
      PROVE  FALSE
  <2>1. version' = version + 1
    BY <1>7 DEF Save, Saved
  <2>2. version \in Int
    <3>1. version \in 0..MaxSaves /\ MaxSaves \in Nat
      BY RenderCacheAssumption DEF RenderCacheAssumption, TypeOK, Versions
    <3> QED
      BY <3>1
  <2> QED
    BY <2>1, <2>2
<1>8. ASSUME NEW q \in Replicas, Clear(q)
      PROVE  Fresh(p, k)'
  <2> DEFINE t == Dels(Cached(q))
  <2>1. Drop(q, Cached(q)) /\ Cached(q) \in SUBSET Pages /\ UNCHANGED <<l2, at, held>>
    BY <1>8, CachedFinite DEF Clear
  <2>2. t \in Seq(Command) /\ \A i \in DOMAIN t : ~StaleSet(t[i], k)
    BY <2>1, DelsCover DEF StaleSet, IsSet
  <2>3. Send(q, t)
    BY <2>1 DEF Drop
  <2> HIDE DEF t
  <2>4. FreshElsewhere(p, k)' /\ Purged(p, k)'
    BY <2>1, <2>2, <2>3, FreshSends DEF Fresh
  <2>5. l1'[p][k] = None \/ l1'[p][k] = l1[p][k]
    BY <2>1, DropHolds
  <2>6. FreshRequests(p, k)'
    BY <2>1 DEF Fresh, FreshRequests, Stale
  <2> QED
    BY <2>4, <2>5, <2>6 DEF Fresh, Stale
<1>9. ASSUME NEW q \in Replicas, Land(q)
      PROVE  Fresh(p, k)'
  BY <1>9, FreshLands
<1>10. ASSUME NEW q \in Replicas, LandFails(q)
       PROVE  FALSE
  <2>1. errors' = errors + 1
    BY <1>10 DEF LandFails
  <2>2. errors \in Int
    <3>1. errors \in 0..MaxErrors /\ MaxErrors \in Nat
      BY RenderCacheAssumption DEF RenderCacheAssumption, TypeOK
    <3> QED
      BY <3>1
  <2> QED
    BY <2>1, <2>2
<1>11. ASSUME Tick
       PROVE  Fresh(p, k)'
  <2>1. /\ l1'[p][k] # None => l1[p][k] # None /\ l1'[p][k].body = l1[p][k].body
        /\ l2'[k] # None => l2[k] # None /\ l2'[k].body = l2[k].body
    BY <1>11, TickHolds
  <2>2. UNCHANGED <<sent, at, held>>
    BY <1>11 DEF Tick
  <2>3. FreshElsewhere(p, k)' /\ Purged(p, k)'
    BY <2>1, <2>2, FreshRests DEF Fresh
  <2>4. FreshRequests(p, k)'
    BY <2>2 DEF Fresh, FreshRequests, Stale
  <2> QED
    BY <2>1, <2>3, <2>4 DEF Fresh, Stale
<1> QED
  BY <1>1, <1>2, <1>3, <1>5, <1>6, <1>7, <1>8, <1>9, <1>10, <1>11 DEF Next, Step

(* An event that finds nothing in flight leaves nothing superseded in reach *)
(* of its replica.                                                          *)
LEMMA FreshAfterSave ==
  ASSUME TypeOK, Holding, Asked, Registered, NEW q \in Replicas, Save(q),
         NEW p \in Replicas, NEW k \in Pages, excuse'[p][k] = "none"
  PROVE  Fresh(p, k)'
<1>1. /\ Reason(p, q, k) = "none"
      /\ Drop(q, events[q])
      /\ UNCHANGED <<l2, at, held>>
  BY DEF Save, Saved
<1>2. /\ p = q
      /\ ~InFlight(p, k)
      /\ k \in events[p] \cup Cached(p) \/ (l2[k] = None /\ ~Sending(p, k))
  BY <1>1 DEF Reason
<1>3. \A r \in Requests :
        /\ Page[r] = k => at[r] \notin {"rendering", "storing"}
        /\ Page[r] = k /\ Replica[r] = p => at[r] \notin {"getting", "got", "aging", "aged"}
  BY <1>2 DEF InFlight
<1>4. \A u \in Replicas \ {p} : \A i \in DOMAIN sent[u] : ~IsSet(sent[u][i], k)
  BY <1>2 DEF InFlight, Sending, ToSet, IsSet
<1>5. k \in Cached(p) => k \in events[p]
  BY <1>3 DEF Registered
<1>6. l1'[p][k] = None
  <2>1. events[q] \in SUBSET Pages
    BY DEF TypeOK
  <2>2. l1'[p][k] = IF k \in events[p] THEN None ELSE l1[p][k]
    BY <1>1, <1>2, <2>1, DropHolds
  <2> QED
    BY <1>5, <2>2 DEF Cached
<1>7. FreshRequests(p, k)'
  <2>1. \A r \in Requests : at[r] \in Place
    BY RequestFacts
  <2>2. \A r \in Requests :
          Page[r] = k /\ (at[r] \in {"rendering", "storing"} \/ Replica[r] = p) => held[r] = None
    BY <1>3, <2>1 DEF Holding, Place
  <2> QED
    BY <1>1, <2>2 DEF FreshRequests, Stale
<1> DEFINE t == Dels(events[p])
<1>8. /\ Send(p, t) /\ t \in Seq(Command)
      /\ \A i \in DOMAIN t : t[i].op = "del"
      /\ \A j \in events[p] : \E i \in DOMAIN t : IsDel(t[i], j)
  BY <1>1, <1>2, DelsCover DEF Drop, TypeOK
<1> HIDE DEF t
<1>9. /\ \A u \in Replicas : u # p => sent'[u] = sent[u]
      /\ \A i \in DOMAIN sent[p] : i \in DOMAIN sent'[p] /\ sent'[p][i] = sent[p][i]
      /\ \A i \in DOMAIN sent'[p] :
            i \notin DOMAIN sent[p] =>
               sent'[p][i].op = "del" /\ \A j \in DOMAIN sent[p] : j < i
      /\ \A j \in DOMAIN t : /\ Len(sent[p]) + j \in DOMAIN sent'[p] \ DOMAIN sent[p]
                            /\ sent'[p][Len(sent[p]) + j] = t[j]
  BY <1>8, SendAppends
<1>10. FreshElsewhere(p, k)'
  <2>1. \A u \in Replicas \ {p} : \A i \in DOMAIN sent'[u] : ~IsSet(sent'[u][i], k)
    BY <1>4, <1>9
  <2> QED
    BY <2>1 DEF FreshElsewhere, StaleSet, IsSet
<1>11. Purged(p, k)'
  <2>1. CASE k \in events[p]
    <3>1. PICK j \in DOMAIN t : IsDel(t[j], k)
      BY <1>8, <2>1
    <3>2. PICK d \in DOMAIN sent'[p] \ DOMAIN sent[p] : IsDel(sent'[p][d], k)
      BY <1>9, <3>1
    <3>3. ASSUME NEW i \in DOMAIN sent'[p]
          PROVE  /\ IsSet(sent'[p][i], k) => i < d
                 /\ ~(sent'[p][i].op = "get" /\ Page[sent'[p][i].by] = k)
      <4>1. CASE i \in DOMAIN sent[p]
        <5>1. sent'[p][i] = sent[p][i] /\ i < d
          BY <1>9, <3>2, <4>1
        <5>2. ~(sent[p][i].op = "get" /\ Page[sent[p][i].by] = k)
          <6> SUFFICES ASSUME sent[p][i].op = "get"
                       PROVE  Page[sent[p][i].by] # k
            OBVIOUS
          <6>1. sent[p][i].by \in Requests
            BY <4>1, CommandFacts
          <6>2. at[sent[p][i].by] = "getting" /\ Replica[sent[p][i].by] = p
            BY <4>1 DEF Asked, IsRead
          <6> QED
            BY <1>3, <6>1, <6>2
        <5> QED
          BY <5>1, <5>2
      <4>2. CASE i \notin DOMAIN sent[p]
        BY <1>9, <4>2 DEF IsSet
      <4> QED
        BY <4>1, <4>2
    <3>4. Purge(p, k, d)'
      BY <3>2, <3>3 DEF Purge, IsDel, StaleSet, IsSet
    <3> QED
      BY <3>2, <3>4 DEF Purged
  <2>2. CASE k \notin events[p]
    <3>1. l2[k] = None /\ ~Sending(p, k)
      BY <1>2, <1>5, <2>2
    <3>2. \A i \in DOMAIN sent[p] : ~IsSet(sent[p][i], k)
      BY <3>1 DEF Sending, ToSet, IsSet
    <3>3. \A i \in DOMAIN sent'[p] : ~IsSet(sent'[p][i], k)
      BY <1>9, <3>2 DEF IsSet
    <3>4. l2'[k] = None
      BY <1>1, <3>1
    <3> QED
      BY <3>3, <3>4 DEF Purged, Settled, StaleSet, IsSet, Stale
  <2> QED
    BY <2>1, <2>2
<1> QED
  BY <1>6, <1>7, <1>10, <1>11 DEF Fresh, Stale

(* The whole inductive invariant holds in every reachable state.            *)
LEMMA RenderInvariant == Spec => []RenderInv
<1>1. Init => Registered /\ Unexcused
  <2> SUFFICES ASSUME Init
               PROVE  Registered /\ Unexcused
    OBVIOUS
  <2>1. Registered
    BY DEF Init, Registered, Cached
  <2>2. DOMAIN <<>> = {}
    OBVIOUS
  <2>3. \A p \in Replicas, k \in Pages : Fresh(p, k)
    BY <2>2 DEF Init, Fresh, FreshRequests, FreshElsewhere, Purged, Settled, Stale
  <2> QED
    BY <2>1, <2>3 DEF Unexcused
<1>2. Types /\ Registered /\ Unexcused /\ [Next]_vars => (Registered /\ Unexcused)'
  <2> SUFFICES ASSUME Types, Registered, Unexcused, [Next]_vars
               PROVE  (Registered /\ Unexcused)'
    OBVIOUS
  <2>1. CASE Next
    <3>1. Registered'
      BY <2>1, RegisteredKept DEF Types
    <3>2. Unexcused'
      <4> SUFFICES ASSUME errors' = 0, NEW p \in Replicas, NEW k \in Pages, excuse'[p][k] = "none"
                   PROVE  Fresh(p, k)'
        BY DEF Unexcused
      <4>1. CASE \E q \in Replicas : Save(q)
        BY <4>1, FreshAfterSave DEF Types
      <4>2. CASE ~\E q \in Replicas : Save(q)
        <5>1. \/ UNCHANGED <<version, excuse, errors>>
              \/ UNCHANGED <<version, excuse>> /\ errors' = errors + 1
          BY <2>1, <4>2 DEF Next, Step, Serve, WarmRead, AskAge, Ask, Render, Warmed, KeepCached,
                            Store, SetEvents, Clear, Land, LandFails, Tick
        <5>2. errors \in 0..MaxErrors
          BY DEF Types, TypeOK
        <5>3. UNCHANGED <<version, excuse, errors>>
          <6>1. errors + 1 # 0
            BY <5>2
          <6> QED
            BY <5>1, <6>1
        <5>4. Fresh(p, k)
          BY <5>3 DEF Unexcused
        <5> QED
          BY <2>1, <5>3, <5>4, FreshKept DEF Types
      <4> QED
        BY <4>1, <4>2
    <3> QED
      BY <3>1, <3>2
  <2>2. CASE UNCHANGED vars
    <3>1. UNCHANGED <<version, l1, events, l2, sent, at, held, excuse, errors>>
      BY <2>2 DEF vars
    <3>2. Registered'
      BY <3>1 DEF Registered, Cached
    <3>3. ASSUME NEW p \in Replicas, NEW k \in Pages, Fresh(p, k)
          PROVE  Fresh(p, k)'
      BY <3>1, <3>3 DEF Fresh, FreshRequests, FreshElsewhere, Purged, Settled, Purge, IsDel,
                        StaleSet, IsSet, Stale
    <3>4. Unexcused'
      BY <3>1, <3>3 DEF Unexcused
    <3> QED
      BY <3>2, <3>4
  <2> QED
    BY <2>1, <2>2
<1>3. Types /\ Registered /\ Unexcused => RenderInv
  BY DEF RenderInv
<1> QED
  BY <1>1, <1>2, <1>3, TypesInvariant, PTL DEF Spec

(* For any number of replicas, pages and requests, in every interleaving of *)
(* renders, warm-ups, evictions and redis: a copy that an event fired on    *)
(* this replica could reach is gone for good.                               *)
THEOREM InvalidationIsFinal == Spec => []InvalidationSticks
<1>1. RenderInv => InvalidationSticks
  <2> SUFFICES ASSUME RenderInv, errors = 0, NEW p \in Replicas, NEW k \in Pages, NEW v \in Versions,
                      Holds(p, k, v), v < version, excuse[p][k] = "none"
               PROVE  FALSE
    BY DEF InvalidationSticks
  <2>1. l1[p][k] # None /\ l1[p][k].body = v
    BY DEF Holds, Cached
  <2>2. v = version
    BY <2>1 DEF RenderInv, Unexcused, Fresh, Stale
  <2>3. v \in Nat
    BY DEF Versions
  <2> QED
    BY <2>2, <2>3
<1> QED
  BY <1>1, RenderInvariant, PTL

-----------------------------------------------------------------------------
(* The order of accesses.  Evictions takes the copy that all others of its  *)
(* Map were accessed after; that there is one, and only one, is because     *)
(* `since` orders the copies of a Map totally.                              *)

IsOrder(s, C) ==
    /\ \A j \in C : s[j] \subseteq C \ {j}
    /\ \A i, j \in C : i # j => i \in s[j] \/ j \in s[i]
    /\ \A i, j \in C : i \in s[j] => s[i] \subseteq s[j]

Ordered == \A p \in Replicas : IsOrder(since[p], Cached(p))

(* An access puts its page behind the others of the Map that stay.          *)
LEMMA OrderAccessed ==
  ASSUME NEW s, NEW C \in SUBSET Pages, NEW gone, NEW k \in Pages, IsOrder(s, C), k \notin gone,
         NEW t, \A j \in Pages : t[j] = IF j \in C \ (gone \cup {k}) THEN (s[j] \ gone) \cup {k} ELSE {}
  PROVE  IsOrder(t, (C \ gone) \cup {k})
<1> DEFINE D == (C \ gone) \cup {k}
<1>1. t[k] = {} /\ \A j \in D : j # k => t[j] = (s[j] \ gone) \cup {k} /\ j \in C /\ j \notin gone
  OBVIOUS
<1>2. \A j \in D : t[j] \subseteq D \ {j}
  BY <1>1 DEF IsOrder
<1>3. \A i, j \in D : i # j => i \in t[j] \/ j \in t[i]
  BY <1>1 DEF IsOrder
<1>4. \A i, j \in D : i \in t[j] => t[i] \subseteq t[j]
  <2> SUFFICES ASSUME NEW i \in D, NEW j \in D, i \in t[j]
               PROVE  t[i] \subseteq t[j]
    OBVIOUS
  <2>1. CASE i = k
    BY <1>1, <2>1
  <2>2. CASE i # k
    <3>1. j # k
      BY <1>1
    <3>2. i \in s[j] /\ i \in C /\ j \in C
      BY <1>1, <2>2, <3>1
    <3>3. s[i] \subseteq s[j]
      BY <3>2 DEF IsOrder
    <3> QED
      BY <1>1, <2>2, <3>1, <3>3
  <2> QED
    BY <2>1, <2>2
<1> QED
  BY <1>2, <1>3, <1>4 DEF IsOrder

(* Deleting pages leaves the others in order.                               *)
LEMMA OrderForgotten ==
  ASSUME NEW s, NEW C \in SUBSET Pages, NEW gone, IsOrder(s, C),
         NEW t, \A j \in Pages : t[j] = IF j \in gone THEN {} ELSE s[j] \ gone
  PROVE  IsOrder(t, C \ gone)
<1>1. \A j \in C \ gone : t[j] = s[j] \ gone
  OBVIOUS
<1> QED
  BY <1>1 DEF IsOrder

(* A Map that holds something has exactly one least recently accessed copy. *)
LEMMA OrderHasLeast ==
  ASSUME NEW s, NEW C, IsFiniteSet(C), C # {}, IsOrder(s, C)
  PROVE  \E v \in C : /\ s[v] = C \ {v}
                      /\ \A w \in C : s[w] = C \ {w} => w = v
<1> DEFINE R == StrictSubsetOrdering(C)
           T == {C \ s[j] : j \in C}
<1>1. IsWellFoundedOn(R, FiniteSubsetsOf(C))
  BY FS_StrictSubsetOrderingWellFounded
<1>2. T \subseteq FiniteSubsetsOf(C) /\ T # {}
  <2>1. \A j \in C : C \ s[j] \in SUBSET C /\ IsFiniteSet(C \ s[j])
    <3> TAKE j \in C
    <3>1. C \ s[j] \in SUBSET C
      OBVIOUS
    <3> QED
      BY <3>1, FS_Subset
  <2> QED
    BY <2>1 DEF FiniteSubsetsOf
<1>3. PICK x \in T : \A y \in T : ~(<<y, x>> \in R)
  <2> HIDE DEF R, T
  <2> QED
    BY <1>1, <1>2, WFMin
<1>4. PICK v \in C : x = C \ s[v]
  BY <1>3
<1>5. s[v] = C \ {v}
  <2> SUFFICES ASSUME NEW i \in C, i # v, i \notin s[v]
               PROVE  FALSE
    BY DEF IsOrder
  <2>1. v \in s[i] /\ s[v] \subseteq s[i] /\ v \notin s[v]
    BY DEF IsOrder
  <2>2. C \ s[i] \subseteq C \ s[v] /\ C \ s[i] # C \ s[v]
    BY <2>1
  <2>3. <<C \ s[i], C \ s[v]>> \in R
    BY <2>2 DEF StrictSubsetOrdering
  <2> QED
    BY <1>3, <1>4, <2>3
<1>6. \A w \in C : s[w] = C \ {w} => w = v
  <2> SUFFICES ASSUME NEW w \in C, s[w] = C \ {w}, w # v
               PROVE  FALSE
    OBVIOUS
  <2>1. w \in s[v] /\ v \in s[w]
    BY <1>5
  <2>2. s[w] \subseteq s[v]
    BY <2>1 DEF IsOrder
  <2> QED
    BY <1>5, <2>1, <2>2
<1> QED
  BY <1>5, <1>6

(* Every step keeps the accesses of each Map in order.                      *)
LEMMA OrderedKept == TypeOK /\ Holding /\ Ordered /\ Next => Ordered'
<1> SUFFICES ASSUME TypeOK, Holding, Ordered, Next
             PROVE  Ordered'
  OBVIOUS
<1>1. since \in [Replicas -> [Pages -> SUBSET Pages]] /\ Replica \in [Requests -> Replicas]
      /\ Page \in [Requests -> Pages]
  BY RenderCacheAssumption DEF TypeOK, RenderCacheAssumption
<1>2. ASSUME NEW p \in Replicas, NEW k \in Pages, NEW gone, k \notin gone, Accessed(p, k, gone),
             \A q \in Replicas : q # p => Cached(q)' = Cached(q),
             Cached(p)' = (Cached(p) \ gone) \cup {k}
      PROVE  Ordered'
  <2>1. /\ \A q \in Replicas : q # p => since'[q] = since[q]
        /\ \A j \in Pages : since'[p][j] = IF j \in Cached(p) \ (gone \cup {k})
                                           THEN (since[p][j] \ gone) \cup {k} ELSE {}
    BY <1>1, <1>2 DEF Accessed
  <2>2. IsOrder(since'[p], Cached(p)')
    <3>1. PICK s, t, C : s = since[p] /\ t = since'[p] /\ C = Cached(p)
      OBVIOUS
    <3>2. C \in SUBSET Pages
      BY <3>1 DEF Cached
    <3>3. IsOrder(s, C)
      BY <3>1 DEF Ordered
    <3>4. \A j \in Pages : t[j] = IF j \in C \ (gone \cup {k}) THEN (s[j] \ gone) \cup {k} ELSE {}
      BY <2>1, <3>1
    <3>5. IsOrder(t, (C \ gone) \cup {k})
      BY <1>2, <3>2, <3>3, <3>4, OrderAccessed
    <3> QED
      BY <1>2, <3>1, <3>5
  <2>3. \A q \in Replicas : q # p => IsOrder(since'[q], Cached(q)')
    BY <1>2, <2>1 DEF Ordered, IsOrder
  <2> QED
    BY <2>2, <2>3 DEF Ordered
<1>3. ASSUME NEW p \in Replicas, NEW pages \in SUBSET Pages, Drop(p, pages)
      PROVE  Ordered'
  <2>1. /\ \A q \in Replicas : q # p => since'[q] = since[q]
        /\ \A j \in Pages : since'[p][j] = IF j \in pages THEN {} ELSE since[p][j] \ pages
    BY <1>1, <1>3 DEF Drop, Forgotten
  <2>2. /\ \A q \in Replicas : q # p => Cached(q)' = Cached(q)
        /\ Cached(p)' = Cached(p) \ pages
    BY <1>3, DropHolds
  <2>3. IsOrder(since'[p], Cached(p)')
    <3>1. PICK s, t, C : s = since[p] /\ t = since'[p] /\ C = Cached(p)
      OBVIOUS
    <3>2. C \in SUBSET Pages
      BY <3>1 DEF Cached
    <3>3. IsOrder(s, C)
      BY <3>1 DEF Ordered
    <3>4. \A j \in Pages : t[j] = IF j \in pages THEN {} ELSE s[j] \ pages
      BY <2>1, <3>1
    <3>5. IsOrder(t, C \ pages)
      BY <3>2, <3>3, <3>4, OrderForgotten
    <3> QED
      BY <2>2, <3>1, <3>5
  <2>4. \A q \in Replicas : q # p => IsOrder(since'[q], Cached(q)')
    BY <2>1, <2>2 DEF Ordered, IsOrder
  <2> QED
    BY <2>3, <2>4 DEF Ordered
<1>4. CASE \E r \in Requests : Serve(r)
  <2> PICK r \in Requests : Serve(r)
    BY <1>4
  <2>1. Accessed(Replica[r], Page[r], {}) /\ Page[r] \in Cached(Replica[r]) /\ UNCHANGED l1
    BY DEF Serve
  <2>2. \A q \in Replicas : Cached(q)' = Cached(q)
    BY <2>1 DEF Cached
  <2>3. PICK p \in Replicas, k \in Pages : p = Replica[r] /\ k = Page[r]
    BY <1>1
  <2>4. Accessed(p, k, {}) /\ k \notin {}
    BY <2>1, <2>3
  <2>5. Cached(p)' = (Cached(p) \ {}) \cup {k}
    BY <2>1, <2>2, <2>3
  <2> QED
    BY <1>2, <2>2, <2>4, <2>5
<1>5. CASE \E r \in Requests : Warmed(r) \/ Store(r)
  <2> PICK r \in Requests : Warmed(r) \/ Store(r)
    BY <1>5
  <2>1. PICK gone \in Evictions(Replica[r], Page[r]) : Put(Replica[r], Page[r], held[r], gone)
    BY DEF Warmed, Store
  <2>2. held[r] \in Copy
    BY DEF TypeOK, Holding, Warmed, Store
  <2>3. /\ \A q \in Replicas : q # Replica[r] => Cached(q)' = Cached(q)
        /\ Cached(Replica[r])' = (Cached(Replica[r]) \ gone) \cup {Page[r]}
    BY <1>1, <2>1, <2>2, PutHolds
  <2>4. Page[r] \notin gone /\ Accessed(Replica[r], Page[r], gone)
    BY <1>1, <2>1, EvictionsFit DEF Put
  <2> QED
    BY <1>1, <1>2, <2>3, <2>4
<1>6. CASE \E p \in Replicas : Save(p) \/ Clear(p)
  <2> PICK p \in Replicas : Save(p) \/ Clear(p)
    BY <1>6
  <2>1. events[p] \in SUBSET Pages /\ Cached(p) \in SUBSET Pages
    BY CachedFinite DEF TypeOK
  <2> QED
    BY <1>3, <2>1 DEF Save, Clear
<1>7. CASE Tick
  <2>1. ASSUME NEW p \in Replicas
        PROVE  Cached(p)' = Cached(p) \ Lapsed(p)
    <3>1. l1'[p] = Aging(p)
      BY <1>7 DEF Tick
    <3>2. \A k \in Pages : Aging(p)[k] # None <=> k \in Cached(p) \ Lapsed(p)
      <4> TAKE k \in Pages
      <4>1. l1[p][k] \in Copy \cup {None}
        BY DEF TypeOK
      <4>2. Aging(p)[k] = IF k \notin Cached(p) \/ l1[p][k].left = 1 THEN None
                          ELSE [l1[p][k] EXCEPT !.left = @ - 1]
        BY DEF Aging
      <4>3. k \in Cached(p) <=> l1[p][k] # None
        BY DEF Cached
      <4> QED
        BY <4>1, <4>2, <4>3, CopyFacts DEF Lapsed
    <3>3. Lapsed(p) \subseteq Pages /\ Cached(p) \subseteq Pages
      BY CachedFinite DEF Lapsed
    <3> QED
      BY <3>1, <3>2, <3>3 DEF Cached
  <2>2. ASSUME NEW p \in Replicas
        PROVE  IsOrder(since'[p], Cached(p)')
    <3>1. \A j \in Pages : since'[p][j] = IF j \in Lapsed(p) THEN {} ELSE since[p][j] \ Lapsed(p)
      BY <1>7 DEF Tick, Forgotten
    <3>2. PICK s, t, C, gone : /\ s = since[p] /\ t = since'[p]
                               /\ C = Cached(p) /\ gone = Lapsed(p)
      OBVIOUS
    <3>3. C \in SUBSET Pages
      BY <3>2 DEF Cached
    <3>4. IsOrder(s, C)
      BY <3>2 DEF Ordered
    <3>5. \A j \in Pages : t[j] = IF j \in gone THEN {} ELSE s[j] \ gone
      BY <3>1, <3>2
    <3>6. IsOrder(t, C \ gone)
      BY <3>3, <3>4, <3>5, OrderForgotten
    <3> QED
      BY <2>1, <3>2, <3>6
  <2> QED
    BY <2>2 DEF Ordered
<1>8. CASE UNCHANGED <<l1, since>>
  BY <1>8 DEF Ordered, IsOrder, Cached
<1> QED
  BY <1>4, <1>5, <1>6, <1>7, <1>8
     DEF Next, Step, WarmRead, AskAge, Ask, Render, KeepCached, SetEvents, Land, LandFails

(* A full Map always has exactly one copy to evict: set() of lib/cache      *)
(* never has to choose, and never fails to make room.                       *)
THEOREM VictimIsUnique ==
  Spec => [](\A p \in Replicas, k \in Pages : \E gone : Evictions(p, k) = {gone})
<1>1. Init => Ordered
  BY DEF Init, Ordered, IsOrder, Cached
<1>2. Types /\ Ordered /\ [Next]_vars => Ordered'
  <2> SUFFICES ASSUME Types, Ordered, [Next]_vars
               PROVE  Ordered'
    OBVIOUS
  <2>1. CASE Next
    BY <2>1, OrderedKept DEF Types
  <2>2. CASE UNCHANGED vars
    BY <2>2 DEF vars, Ordered, IsOrder, Cached
  <2> QED
    BY <2>1, <2>2
<1>3. Types /\ Ordered => \A p \in Replicas, k \in Pages : \E gone : Evictions(p, k) = {gone}
  <2> SUFFICES ASSUME Types, Ordered, NEW p \in Replicas, NEW k \in Pages
               PROVE  \E gone : Evictions(p, k) = {gone}
    OBVIOUS
  <2>1. CASE k \notin Cached(p) /\ Cardinality(Cached(p)) >= Cap
    <3>1. Cap \in Nat \ {0}
      BY RenderCacheAssumption DEF RenderCacheAssumption
    <3>2. Cached(p) # {}
      BY <2>1, <3>1, FS_EmptySet
    <3>3. PICK v \in Cached(p) : /\ since[p][v] = Cached(p) \ {v}
                                 /\ \A w \in Cached(p) : since[p][w] = Cached(p) \ {w} => w = v
      BY <3>2, CachedFinite, OrderHasLeast DEF Ordered
    <3>4. Evictions(p, k) = {{v}}
      BY <2>1, <3>3 DEF Evictions
    <3> QED
      BY <3>4
  <2>2. CASE ~(k \notin Cached(p) /\ Cardinality(Cached(p)) >= Cap)
    <3>1. Evictions(p, k) = {{}}
      BY <2>2 DEF Evictions
    <3> QED
      BY <3>1
  <2> QED
    BY <2>1, <2>2
<1> QED
  BY <1>1, <1>2, <1>3, TypesInvariant, PTL DEF Spec
=============================================================================
