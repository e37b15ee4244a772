----------------------------- MODULE StorageCas -----------------------------
(***************************************************************************)
(* The content-addressed local driver of lib/storage (src/local-cas.js):   *)
(* put() streams into a temp file, takes a reference on the row of its     *)
(* content and then publishes, heals or discards the file; release() drops *)
(* a reference; the GC sweep claims rows at zero and unlinks their files.  *)
(*                                                                         *)
(* Rows and files are shared by the processes of a driver root.  With the  *)
(* embedded SQLite store a verb and its callback run in one turn of the    *)
(* event loop; a connector store answers later, and other work runs        *)
(* between a verb and its callback.                                        *)
(***************************************************************************)
EXTENDS RefRow, FiniteSets

CONSTANTS
    Procs,      \* processes that share the driver root
    Puts,       \* calls of put()
    Blobs,      \* content addresses
    Content,    \* what each put streams
    Inline,     \* puts below inlineThreshold
    Embedded,   \* TRUE: the synchronous SQLite store
    Grace,      \* sweepGrace, in ticks
    SweepBatch, \* SWEEP_BATCH
    SweepProcs, \* processes whose GC timer is armed
    VerifyProcs, \* processes that are asked to verify()
    MaxStoreErrors, MaxFileErrors, MaxUnlinkErrors, MaxCrashes \* bounds on what fails

ASSUME CasAssumption ==
    /\ IsFiniteSet(Puts) /\ IsFiniteSet(Blobs)
    /\ Content \in [Puts -> Blobs]
    /\ Inline \subseteq Puts
    /\ \A u, v \in Puts : Content[u] = Content[v] => (u \in Inline <=> v \in Inline)
    /\ Embedded \in BOOLEAN
    /\ Embedded => Cardinality(Procs) = 1
    /\ Grace \in Nat \ {0}
    /\ SweepBatch \in Nat \ {0}
    /\ SweepProcs \subseteq Procs /\ VerifyProcs \subseteq Procs
    /\ {MaxStoreErrors, MaxFileErrors, MaxUnlinkErrors, MaxCrashes} \subseteq Nat

VARIABLES
    at,      \* where each put is
    host,    \* the process that runs it
    born,    \* ticks since the put began, which becomes its createdAt
    tmp,     \* its temp file: None, or ticks since its mtime
    row,     \* the metadata store
    file,    \* the blob files: None, or ticks since their mtime
    claims,  \* per process, keys of the sweep whose removeIfZero is to come
    unlinks, \* per process, keys claimed whose file is still to be unlinked
    verifying, \* per process, the row verify() has read and whose file it is to check
    storeErrors, fileErrors, unlinkErrors, crashes

putVars   == <<at, host, born, tmp>>
gcVars    == <<claims, unlinks, verifying>>
faultVars == <<storeErrors, fileErrors, unlinkErrors, crashes>>
vars == <<at, host, born, tmp, row, file, claims, unlinks, verifying, storeErrors, fileErrors,
          unlinkErrors, crashes>>

(* Places of a put: its store verb is to come ("acquiring", and "rolling",  *)
(* "purging", "undoing" when it failed), the row was created and the file   *)
(* is to be published, or the row was there and the file is to be checked.  *)
InTurn == {"publishing", "deduping", "rolling", "purging", "undoing"}
Referring == {"publishing", "deduping", "rolling", "undoing", "held"}
Place == {"idle", "streaming", "acquiring", "failed", "released"} \cup InTurn \cup Referring

Live == {"streaming", "acquiring"} \cup InTurn

Init ==
    /\ at = [u \in Puts |-> "idle"]
    /\ host = [u \in Puts |-> None]
    /\ born = [u \in Puts |-> 0]
    /\ tmp = [u \in Puts |-> None]
    /\ row = [k \in Blobs |-> None]
    /\ file = [k \in Blobs |-> None]
    /\ claims = [p \in Procs |-> {}]
    /\ unlinks = [p \in Procs |-> {}]
    /\ verifying = [p \in Procs |-> None]
    /\ storeErrors = 0 /\ fileErrors = 0 /\ unlinkErrors = 0 /\ crashes = 0

-----------------------------------------------------------------------------
(* With the embedded store nothing runs between a verb and the end of its   *)
(* callback: only the put, the sweep or the check of verify() that is in    *)
(* its turn may step.                                                       *)

Sweeping(p) == claims[p] \cup unlinks[p] # {}
Verifying(p) == verifying[p] # None

NoCheck == Embedded => \A p \in Procs : ~Verifying(p)

PutMayRun(u) ==
    /\ NoCheck
    /\ Embedded => /\ \A v \in Puts \ {u} : at[v] \notin InTurn
                   /\ \A p \in Procs : ~Sweeping(p)

SweepMayRun == NoCheck /\ (Embedded => \A u \in Puts : at[u] \notin InTurn)

AllQuiet ==
    /\ \A u \in Puts : at[u] \notin InTurn
    /\ \A p \in Procs : ~Sweeping(p)

(* A verb fails.  A connector may have applied it all the same.             *)
StoreFails(k, after) ==
    /\ storeErrors < MaxStoreErrors
    /\ storeErrors' = storeErrors + 1
    /\ \/ UNCHANGED row
       \/ ~Embedded /\ row' = [row EXCEPT ![k] = after]

FileFails ==
    /\ fileErrors < MaxFileErrors
    /\ fileErrors' = fileErrors + 1

UnlinkFails ==
    /\ unlinkErrors < MaxUnlinkErrors
    /\ unlinkErrors' = unlinkErrors + 1

-----------------------------------------------------------------------------
(* put(): the stream.                                                       *)

Begin(p, u) ==
    /\ at[u] = "idle"
    /\ at' = [at EXCEPT ![u] = "streaming"]
    /\ host' = [host EXCEPT ![u] = p]
    /\ tmp' = [tmp EXCEPT ![u] = IF u \in Inline THEN None ELSE 0]
    /\ PutMayRun(u)
    /\ UNCHANGED <<born, row, file, gcVars, faultVars>>

(* A chunk is written: the temp file, unless it was unlinked, is young again. *)
Writes(u) ==
    /\ at[u] = "streaming"
    /\ tmp[u] \notin {None, 0}
    /\ tmp' = [tmp EXCEPT ![u] = 0]
    /\ PutMayRun(u)
    /\ UNCHANGED <<at, host, born, row, file, gcVars, faultVars>>

(* onError: the source failed, or the object is too large.                  *)
StreamFails(u) ==
    /\ at[u] = "streaming"
    /\ at' = [at EXCEPT ![u] = "failed"]
    /\ tmp' = [tmp EXCEPT ![u] = None]
    /\ PutMayRun(u)
    /\ UNCHANGED <<host, born, row, file, gcVars, faultVars>>

(* The closed temp file must still be there to be measured.                 *)
StreamEnds(u) ==
    /\ at[u] = "streaming"
    /\ at' = [at EXCEPT ![u] = IF u \in Inline \/ tmp[u] # None THEN "acquiring" ELSE "failed"]
    /\ PutMayRun(u)
    /\ UNCHANGED <<host, born, tmp, row, file, gcVars, faultVars>>

-----------------------------------------------------------------------------
(* publish(): take the reference, then see to the file.                     *)

Fresh(u) == [refs |-> 1, zero |-> None, age |-> born[u], inline |-> u \in Inline]

Acquires(u) ==
    LET k == Content[u] IN
    /\ at[u] = "acquiring"
    /\ row' = [row EXCEPT ![k] = Acquired(@, Fresh(u))]
    /\ at' = [at EXCEPT ![u] = IF u \in Inline THEN "held"
                               ELSE IF Exists(row[k]) THEN "deduping" ELSE "publishing"]
    /\ PutMayRun(u)
    /\ UNCHANGED <<host, born, tmp, file, gcVars, faultVars>>

AcquireFails(u) ==
    LET k == Content[u] IN
    /\ at[u] = "acquiring"
    /\ StoreFails(k, Acquired(row[k], Fresh(u)))
    /\ at' = [at EXCEPT ![u] = "failed"]
    /\ tmp' = [tmp EXCEPT ![u] = None]
    /\ PutMayRun(u)
    /\ UNCHANGED <<host, born, file, gcVars, fileErrors, unlinkErrors, crashes>>

(* The temp file is renamed over the blob: its mtime goes with it.          *)
Install(u) ==
    /\ tmp[u] # None
    /\ file' = [file EXCEPT ![Content[u]] = tmp[u]]
    /\ tmp' = [tmp EXCEPT ![u] = None]
    /\ at' = [at EXCEPT ![u] = "held"]
    /\ UNCHANGED <<host, born, row, gcVars, faultVars>>

Publishes(u) ==
    /\ at[u] = "publishing"
    /\ Install(u)
    /\ PutMayRun(u)

(* Mutant: a dedup hit trusts the row and does not look for the file.       *)
HealsOnTrust(u) ==
    /\ at[u] = "deduping"
    /\ file[Content[u]] = None
    /\ tmp' = [tmp EXCEPT ![u] = None]
    /\ at' = [at EXCEPT ![u] = "held"]
    /\ PutMayRun(u)
    /\ UNCHANGED <<host, born, row, file, gcVars, faultVars>>

Heals(u) ==
    /\ at[u] = "deduping"
    /\ file[Content[u]] = None
    /\ Install(u)
    /\ PutMayRun(u)

(* The blob is there: the temp file goes, or is left for the boot sweep.    *)
Discards(u) ==
    /\ at[u] = "deduping"
    /\ file[Content[u]] # None
    /\ \/ tmp' = [tmp EXCEPT ![u] = None] /\ UNCHANGED unlinkErrors
       \/ tmp[u] # None /\ UnlinkFails /\ UNCHANGED tmp
    /\ at' = [at EXCEPT ![u] = "held"]
    /\ PutMayRun(u)
    /\ UNCHANGED <<host, born, row, file, gcVars, storeErrors, fileErrors, crashes>>

(* fsync, mkdir or rename fails, or the temp file is gone.                  *)
Stuck(u) == IF tmp[u] = None THEN UNCHANGED fileErrors ELSE FileFails

(* Mutant: a failure after the rename, of the directory's fsync, fails the put. *)
PublishFailsLate(u) ==
    /\ at[u] = "publishing"
    /\ tmp[u] # None
    /\ FileFails
    /\ file' = [file EXCEPT ![Content[u]] = tmp[u]]
    /\ tmp' = [tmp EXCEPT ![u] = None]
    /\ at' = [at EXCEPT ![u] = "rolling"]
    /\ PutMayRun(u)
    /\ UNCHANGED <<host, born, row, gcVars, storeErrors, unlinkErrors, crashes>>

(* Mutant: a failed rename reports its error and keeps its reference.       *)
PublishFailsHolding(u) ==
    /\ at[u] = "publishing"
    /\ Stuck(u)
    /\ at' = [at EXCEPT ![u] = "failed"]
    /\ tmp' = [tmp EXCEPT ![u] = None]
    /\ PutMayRun(u)
    /\ UNCHANGED <<host, born, row, file, gcVars, storeErrors, unlinkErrors, crashes>>

PublishFails(u) ==
    /\ at[u] = "publishing"
    /\ Stuck(u)
    /\ at' = [at EXCEPT ![u] = "rolling"]
    /\ PutMayRun(u)
    /\ UNCHANGED <<host, born, tmp, row, file, gcVars, storeErrors, unlinkErrors, crashes>>

(* Mutant: a failed heal reports its error and keeps its reference.         *)
HealFailsHolding(u) ==
    /\ at[u] = "deduping"
    /\ file[Content[u]] = None
    /\ Stuck(u)
    /\ at' = [at EXCEPT ![u] = "failed"]
    /\ PutMayRun(u)
    /\ UNCHANGED <<host, born, tmp, row, file, gcVars, storeErrors, unlinkErrors, crashes>>

HealFails(u) ==
    /\ at[u] = "deduping"
    /\ file[Content[u]] = None
    /\ Stuck(u)
    /\ at' = [at EXCEPT ![u] = "undoing"]
    /\ PutMayRun(u)
    /\ UNCHANGED <<host, born, tmp, row, file, gcVars, storeErrors, unlinkErrors, crashes>>

(* releaseRef of the rollback; its error is not looked at.                  *)
LetsGo(u) ==
    LET k == Content[u] IN
    \/ row' = [row EXCEPT ![k] = Released(@)] /\ UNCHANGED storeErrors
    \/ StoreFails(k, Released(row[k]))

RollsBack(u) ==
    /\ at[u] = "rolling"
    /\ LetsGo(u)
    /\ at' = [at EXCEPT ![u] = "purging"]
    /\ PutMayRun(u)
    /\ UNCHANGED <<host, born, tmp, file, gcVars, fileErrors, unlinkErrors, crashes>>

(* Mutant: the rollback deletes the row without looking at its count.       *)
PurgesAlways(u) ==
    LET k == Content[u] IN
    /\ at[u] = "purging"
    /\ \/ row' = [row EXCEPT ![k] = None] /\ UNCHANGED storeErrors
       \/ StoreFails(k, None)
    /\ at' = [at EXCEPT ![u] = "failed"]
    /\ tmp' = [tmp EXCEPT ![u] = None]
    /\ PutMayRun(u)
    /\ UNCHANGED <<host, born, file, gcVars, fileErrors, unlinkErrors, crashes>>

Purges(u) ==
    LET k == Content[u]
        after == IF Claimable(row[k]) THEN None ELSE row[k]
    IN
    /\ at[u] = "purging"
    /\ \/ row' = [row EXCEPT ![k] = after] /\ UNCHANGED storeErrors
       \/ StoreFails(k, after)
    /\ at' = [at EXCEPT ![u] = "failed"]
    /\ tmp' = [tmp EXCEPT ![u] = None]
    /\ PutMayRun(u)
    /\ UNCHANGED <<host, born, file, gcVars, fileErrors, unlinkErrors, crashes>>

Undoes(u) ==
    /\ at[u] = "undoing"
    /\ LetsGo(u)
    /\ at' = [at EXCEPT ![u] = "failed"]
    /\ tmp' = [tmp EXCEPT ![u] = None]
    /\ PutMayRun(u)
    /\ UNCHANGED <<host, born, file, gcVars, fileErrors, unlinkErrors, crashes>>

(* release(): the holder drops its reference and does not ask again.        *)
Release(u) ==
    /\ at[u] = "held"
    /\ LetsGo(u)
    /\ at' = [at EXCEPT ![u] = "released"]
    /\ PutMayRun(u)
    /\ UNCHANGED <<host, born, tmp, file, gcVars, fileErrors, unlinkErrors, crashes>>

-----------------------------------------------------------------------------
(* sweepOnce(): list, claim each row, unlink the files of the claimed ones. *)

(* Mutant: the grace window is not applied.                                 *)
BatchAtOnce(S) ==
    LET ripe == {k \in Blobs : Claimable(row[k])} IN
    /\ S \subseteq ripe
    /\ S = ripe \/ Cardinality(S) = SweepBatch
    /\ Cardinality(S) <= SweepBatch
    /\ \A k \in S, l \in ripe \ S : row[k].zero >= row[l].zero

(* The oldest SweepBatch rows that have been at zero for the grace window.  *)
Batch(S) ==
    LET ripe == {k \in Blobs : Collectable(row[k], Grace)} IN
    /\ S \subseteq ripe
    /\ S = ripe \/ Cardinality(S) = SweepBatch
    /\ Cardinality(S) <= SweepBatch
    /\ \A k \in S, l \in ripe \ S : row[k].zero >= row[l].zero

SweepLists(p) ==
    /\ p \in SweepProcs
    /\ ~Sweeping(p)
    /\ SweepMayRun
    /\ \E S \in SUBSET Blobs :
        /\ S # {}
        /\ Batch(S)
        /\ claims' = [claims EXCEPT ![p] = S]
    /\ UNCHANGED <<putVars, row, file, unlinks, verifying, faultVars>>

SweepClaims(p, k) ==
    /\ k \in claims[p]
    /\ SweepMayRun
    /\ claims' = [claims EXCEPT ![p] = @ \ {k}]
    /\ \/ /\ Claimable(row[k])
          /\ row' = [row EXCEPT ![k] = None]
          /\ unlinks' = [unlinks EXCEPT ![p] = @ \cup {k}]
          /\ UNCHANGED storeErrors
       \/ /\ ~Claimable(row[k])
          /\ UNCHANGED <<row, unlinks, storeErrors>>
       \/ /\ StoreFails(k, IF Claimable(row[k]) THEN None ELSE row[k])
          /\ UNCHANGED unlinks
    /\ UNCHANGED <<putVars, file, verifying, fileErrors, unlinkErrors, crashes>>

(* An unlink that fails leaves the file without a row.                      *)
SweepUnlinks(p, k) ==
    /\ k \in unlinks[p]
    /\ SweepMayRun
    /\ unlinks' = [unlinks EXCEPT ![p] = @ \ {k}]
    /\ \/ file' = [file EXCEPT ![k] = None] /\ UNCHANGED unlinkErrors
       \/ file[k] # None /\ UnlinkFails /\ UNCHANGED file
    /\ UNCHANGED <<putVars, row, claims, verifying, storeErrors, fileErrors, crashes>>

-----------------------------------------------------------------------------
(* verify(): a row with references and past the grace window is read, and   *)
(* the callback looks for its file.  Over a connector anything may happen   *)
(* in between, for any time.  Bytes that are missing are reported as loss   *)
(* evidence.  The code measures the window from the start of verify(), the  *)
(* model from the read, which passes over no more rows.  A file without a   *)
(* row is scrubbed, with the bundle stopped.                                *)

(* The puts that hold a reference, or are publishing under one.             *)
Holders(k) == {u \in Puts : Content[u] = k /\ at[u] \in Referring}

(* The row that is kept for the check; `holders` is history.                *)
Looks(p, k) ==
    /\ p \in VerifyProcs /\ ~Verifying(p)
    /\ Embedded => AllQuiet
    /\ verifying' = [verifying EXCEPT ![p] = [key |-> k, holders |-> Holders(k)]]
    /\ UNCHANGED <<putVars, row, file, claims, unlinks, faultVars>>

(* Mutant: the age of the row is not looked at.                             *)
VerifyReadsYoung(p, k) ==
    /\ Exists(row[k]) /\ ~row[k].inline /\ row[k].refs >= 1
    /\ Looks(p, k)

VerifyReads(p, k) ==
    /\ Exists(row[k]) /\ ~row[k].inline /\ row[k].refs >= 1
    /\ row[k].age >= Grace
    /\ Looks(p, k)

Looked(p) ==
    /\ verifying' = [verifying EXCEPT ![p] = None]
    /\ UNCHANGED <<putVars, row, file, claims, unlinks, faultVars>>

VerifyFinds(p) == Verifying(p) /\ file[verifying[p].key] # None /\ Looked(p)

(* A finding of the class row-without-file.                                 *)
VerifyAlarms(p) == Verifying(p) /\ file[verifying[p].key] = None /\ Looked(p)

Scrubs(k) ==
    /\ \A u \in Puts : at[u] \notin Live
    /\ \A p \in Procs : ~Sweeping(p) /\ ~Verifying(p)
    /\ file[k] # None /\ file[k] >= Grace
    /\ ~Exists(row[k])
    /\ file' = [file EXCEPT ![k] = None]
    /\ UNCHANGED <<putVars, row, gcVars, faultVars>>

-----------------------------------------------------------------------------
(* A process dies and boots again, which unlinks the temp files, its own    *)
(* and its siblings', that were last written before the grace window.       *)
Crash(p) ==
    /\ crashes < MaxCrashes
    /\ crashes' = crashes + 1
    /\ at' = [u \in Puts |-> IF host[u] = p /\ at[u] \in Live THEN "failed" ELSE at[u]]
    /\ tmp' = [u \in Puts |-> IF tmp[u] # None /\ tmp[u] > Grace THEN None ELSE tmp[u]]
    /\ claims' = [claims EXCEPT ![p] = {}]
    /\ unlinks' = [unlinks EXCEPT ![p] = {}]
    /\ verifying' = [verifying EXCEPT ![p] = None]
    /\ UNCHANGED <<host, born, row, file, storeErrors, fileErrors, unlinkErrors>>

(* Time passes while nothing but streams is under way: a stream may take or *)
(* stall for any number of ticks, a store verb of a put or a sweep and its  *)
(* callback take none.                                                      *)
Later(t) == IF t = None \/ t > Grace THEN t ELSE t + 1

Tick ==
    /\ AllQuiet /\ NoCheck
    /\ \A u \in Puts : at[u] # "acquiring"
    /\ born' = [u \in Puts |-> IF at[u] = "streaming" THEN Later(born[u]) ELSE born[u]]
    /\ tmp' = [u \in Puts |-> Later(tmp[u])]
    /\ file' = [k \in Blobs |-> Later(file[k])]
    /\ row' = [k \in Blobs |-> IF Exists(row[k])
                               THEN [row[k] EXCEPT !.zero = Later(@), !.age = Later(@)]
                               ELSE None]
    /\ UNCHANGED <<at, host, gcVars, faultVars>>

-----------------------------------------------------------------------------
PutStep(u) ==
    \/ StreamFails(u)
    \/ StreamEnds(u)
    \/ Acquires(u)
    \/ AcquireFails(u)
    \/ Publishes(u)
    \/ PublishFails(u)
    \/ Heals(u)
    \/ Discards(u)
    \/ HealFails(u)
    \/ RollsBack(u)
    \/ Purges(u)
    \/ Undoes(u)

SweepStep(p) ==
    \/ SweepLists(p)
    \/ \E k \in Blobs : SweepClaims(p, k)
    \/ \E k \in Blobs : SweepUnlinks(p, k)

VerifyStep(p) ==
    \/ \E k \in Blobs : VerifyReads(p, k)
    \/ VerifyFinds(p)
    \/ VerifyAlarms(p)

Next ==
    \/ \E p \in Procs, u \in Puts : Begin(p, u)
    \/ \E u \in Puts : PutStep(u)
    \/ \E u \in Puts : Writes(u)
    \/ \E u \in Puts : Release(u)
    \/ \E p \in Procs : SweepStep(p)
    \/ \E p \in Procs : VerifyStep(p)
    \/ \E k \in Blobs : Scrubs(k)
    \/ \E p \in Procs : Crash(p)
    \/ Tick

Spec == Init /\ [][Next]_vars

(* Streams end, the store answers, the GC timer fires and time passes.      *)
Fairness ==
    /\ \A u \in Puts : WF_vars(PutStep(u))
    /\ \A p \in Procs : WF_vars(SweepStep(p))
    /\ WF_vars(Tick)

FairSpec == Spec /\ Fairness

-----------------------------------------------------------------------------
(* Type correctness of the puts, the rows, the files and the sweeps.        *)
TypeOK ==
    /\ at \in [Puts -> Place]
    /\ host \in [Puts -> Procs \cup {None}]
    /\ born \in [Puts -> Nat]
    /\ tmp \in [Puts -> Nat \cup {None}]
    /\ row \in [Blobs -> Row \cup {None}]
    /\ file \in [Blobs -> Nat \cup {None}]
    /\ claims \in [Procs -> SUBSET Blobs]
    /\ unlinks \in [Procs -> SUBSET Blobs]
    /\ verifying \in [Procs -> [key : Blobs, holders : SUBSET Puts] \cup {None}]
    /\ {storeErrors, fileErrors, unlinkErrors, crashes} \subseteq Nat

Refs(k) == IF Exists(row[k]) THEN row[k].refs ELSE 0

(* The count of a blob never falls below the puts that hold a reference or  *)
(* are still publishing under one: no sweep, rollback, crash or ambiguous   *)
(* store error takes the row from under a holder.                           *)
RefsCoverHolders == \A k \in Blobs : Refs(k) >= Cardinality(Holders(k))

(* A put that got no key leaves no reference behind: while the store does   *)
(* not fail and nothing crashes, the count is exactly the references held.  *)
RefsExact ==
    storeErrors = 0 /\ crashes = 0 =>
        \A k \in Blobs : Refs(k) = Cardinality(Holders(k))

Readable(k) == Exists(row[k]) /\ row[k].refs >= 1 /\ (row[k].inline \/ file[k] # None)

(* Whoever holds a key can read the bytes behind it.                        *)
HeldIsReadable == \A u \in Puts : at[u] = "held" => Readable(Content[u])

(* With a store shared by processes the bytes of a holder can only go in    *)
(* the window the code documents, between a sweep's claim and its unlink.   *)
LossOnlyInSweepWindow ==
    [][\A u \in Puts :
         /\ at'[u] = "held" /\ ~Readable(Content[u])'
         /\ at[u] = "held" => Readable(Content[u])
         => \E p \in Procs : SweepUnlinks(p, Content[u])]_vars

(* Only a crash or a failed unlink leaves a blob file that no row accounts  *)
(* for: a failed publish, its rollback and the sweep clean up after         *)
(* themselves.                                                              *)
NoOrphanFile ==
    crashes = 0 /\ unlinkErrors = 0 =>
        \A k \in Blobs : file[k] # None =>
            Exists(row[k]) \/ \E p \in Procs : k \in unlinks[p]

(* The sweep only collects blobs that sat at zero for the grace window.     *)
GraceHonored ==
    [][\A p \in Procs, k \in Blobs :
         SweepClaims(p, k) /\ Exists(row[k]) /\ ~Exists(row[k])' =>
             Collectable(row[k], Grace)]_vars

(* Between the read of a row and the check of its file the row may become   *)
(* stale, but verify() never gives a young put for lost: without a crash or *)
(* a store error, what it reports was referred to by a put when the row was *)
(* read, and one of those that is still to publish its file is late, its    *)
(* upload having outlived the grace window.                                 *)
AlarmsHaveCause ==
    [][\A p \in Procs : VerifyAlarms(p) /\ storeErrors = 0 /\ crashes = 0 =>
         /\ verifying[p].holders # {}
         /\ \A u \in verifying[p].holders :
               at[u] \in {"publishing", "rolling"} => born[u] >= Grace]_vars

(* With the embedded store verify() reports nothing at all but what a crash *)
(* or an error of the store left: failed publishes and heals, dedups,       *)
(* releases and sweeps never leave a row with references and no file.       *)
VerifyIsQuiet ==
    [][\A p \in Procs : VerifyAlarms(p) => storeErrors > 0 \/ crashes > 0]_vars

(* A blob nobody holds is eventually collected, unless a put revives it.    *)
ZeroRefsCollected ==
    \A k \in Blobs : Claimable(row[k]) ~> ~Claimable(row[k])
=============================================================================
