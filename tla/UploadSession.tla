--------------------------- MODULE UploadSession ---------------------------
(***************************************************************************)
(* The stream driver of lib/storage (src/local-stream.js).  An object      *)
(* comes into being in one of two ways: put() streams it into a temp file  *)
(* and renames that into place; a resumable session has a directory with a *)
(* manifest, a sparse data file that segments are written into in parallel *)
(* and in any order, and one marker per durable range, until finalize()    *)
(* renames the data file into place.  Both then index the object with a    *)
(* row of the metadata store, which answers later.                         *)
(*                                                                         *)
(* Objects share no file and no row, so a behaviour follows one of them.   *)
(***************************************************************************)
EXTENDS UploadSpans

CONSTANTS
    Size,      \* expectedSize, in cells
    Segments,  \* calls of writeSegment()
    Finals,    \* calls of finalize()
    Ttl,       \* sessionTtl, in ticks
    Fsync,     \* the driver's fsync option
    MaxErrors, MaxCrashes \* bounds on what fails

ASSUME UploadAssumption ==
    /\ Size \in Nat \ {0}
    /\ Ttl \in Nat \ {0}
    /\ Fsync \in BOOLEAN
    /\ {MaxErrors, MaxCrashes} \subseteq Nat

VARIABLES
    kind,    \* what the object is: an "upload" or a "put"
    dir,     \* the session directory, and who removed it
    markers, \* the durable ranges, one marker file each
    bytes,   \* the cells of the data file that have been written
    file,    \* where the object's bytes are linked: as data or temp, or published
    age,     \* ticks since the mtime of the unpublished file
    dirAge,  \* ticks since the mtime of the session directory
    seg,     \* the segments: where each is, its offset, the cells that landed
    fin,     \* where each finalize() is
    put,     \* where put() is
    opening, \* createWriteStream has not opened the temp file yet
    row,     \* the object has a row in the metadata store
    release, \* where release() is
    doubled, \* two calls of finalize() have been in flight at once
    errors, crashes

sessionVars == <<dir, markers, bytes, dirAge>>
callVars    == <<seg, fin>>
putVars     == <<put, opening>>
vars == <<kind, dir, markers, bytes, file, age, dirAge, seg, fin, put, opening, row, release,
          doubled, errors, crashes>>

Cells   == 0 .. Size - 1
Ages    == 0 .. Ttl + 1
Spans   == {m \in [offset : Cells, length : 1 .. Size] : End(m) <= Size}
Live    == dir \in {"bare", "open"}
Indexing == {f \in Finals : fin[f] = "indexing"}
Written(s) == [offset |-> seg[s].offset, length |-> seg[s].sent]

(* A call of the metadata store is under way. *)
Calling == Indexing # {} \/ put = "indexing" \/ release = "removing"

Init ==
    /\ kind \in {"upload", "put"}
    /\ dir = "none" /\ markers = {} /\ bytes = {} /\ dirAge = 0
    /\ file = "none" /\ age = 0
    /\ seg = [s \in Segments |-> [at |-> "idle", offset |-> 0, sent |-> 0]]
    /\ fin = [f \in Finals |-> "idle"]
    /\ put = "idle" /\ opening = FALSE
    /\ row = FALSE /\ release = "idle" /\ doubled = FALSE
    /\ errors = 0 /\ crashes = 0

(* An error of the metadata store: the call may have been applied. *)
StoreFails == errors < MaxErrors /\ errors' = errors + 1

(* The session directory goes with everything in it.  Bytes that were       *)
(* published are no longer in it, and an open descriptor outlives the link. *)
DropSession(how) ==
    /\ dir' = how /\ markers' = {} /\ dirAge' = 0
    /\ file' = (IF file = "data" THEN "gone" ELSE file)
    /\ age' = 0
    /\ UNCHANGED bytes

----------------------------------------------------------------------------
(* createUpload: directory, empty data file, manifest by temp and rename. *)
CreateUpload ==
    /\ kind = "upload" /\ dir = "none"
    /\ dir' = "open" /\ file' = "data"
    /\ UNCHANGED <<kind, markers, bytes, age, dirAge, callVars, putVars, row, release, doubled,
                   errors, crashes>>

(* The process dies in the middle of it: there is no manifest. *)
CreateDies ==
    /\ kind = "upload" /\ dir = "none"
    /\ crashes < MaxCrashes /\ crashes' = crashes + 1
    /\ dir' = "bare" /\ file' \in {"none", "data"}
    /\ UNCHANGED <<kind, markers, bytes, age, dirAge, callVars, putVars, row, release, doubled,
                   errors>>

MoveSegment(s, place) == seg' = [seg EXCEPT ![s].at = place]

(* writeSegment: the manifest is read and the data file is being opened. *)
BeginSegment(s) ==
    /\ dir = "open" /\ seg[s].at = "idle"
    /\ \E offset \in Cells :
           seg' = [seg EXCEPT ![s] = [at |-> "opening", offset |-> offset, sent |-> 0]]
    /\ UNCHANGED <<kind, sessionVars, file, age, fin, putVars, row, release, doubled, errors, crashes>>

(* 'r+' opens what is there and fails when the data file was renamed away. *)
OpenSegment(s) ==
    /\ seg[s].at = "opening"
    /\ MoveSegment(s, IF file = "data" THEN "writing" ELSE "refused")
    /\ UNCHANGED <<kind, sessionVars, file, age, fin, putVars, row, release, doubled, errors, crashes>>

(* Mutant: nothing stops a segment at the declared size. *)
LandsUncapped(s) ==
    /\ bytes' = bytes \cup {End(Written(s))}
    /\ age' = 0

(* The next chunk lands, in the file the descriptor is open on. *)
Lands(s) ==
    /\ seg[s].offset + seg[s].sent < Size
    /\ bytes' = bytes \cup {End(Written(s))}
    /\ age' = 0

WriteChunk(s) ==
    /\ seg[s].at = "writing"
    /\ Lands(s)
    /\ seg' = [seg EXCEPT ![s].sent = @ + 1]
    /\ UNCHANGED <<kind, dir, markers, dirAge, file, fin, putVars, row, release, doubled, errors,
                   crashes>>

(* onError: a stream failed or the segment ran past the declared size.  The *)
(* caller is told at once, while a chunk may still be on its way.           *)
FailSegment(s) ==
    /\ seg[s].at \in {"opening", "writing"}
    /\ MoveSegment(s, IF seg[s].at = "writing" THEN "refusing" ELSE "refused")
    /\ UNCHANGED <<kind, sessionVars, file, age, fin, putVars, row, release, doubled, errors, crashes>>

LateChunk(s) ==
    /\ seg[s].at = "refusing"
    /\ Lands(s)
    /\ MoveSegment(s, "refused")
    /\ UNCHANGED <<kind, dir, markers, dirAge, file, fin, putVars, row, release, doubled, errors,
                   crashes>>

(* The descriptor closed after the last chunk: fsync by path, then the      *)
(* marker, of the length that was received.  Nothing received, no marker.   *)
MayMark == dir = "open" /\ (Fsync => file = "data")

CloseSegment(s) ==
    /\ seg[s].at = "writing"
    /\ IF seg[s].sent > 0 /\ MayMark
       THEN /\ markers' = markers \cup {Written(s)}
            /\ dirAge' = (IF Written(s) \in markers THEN dirAge ELSE 0)
       ELSE UNCHANGED <<markers, dirAge>>
    /\ MoveSegment(s, IF seg[s].sent = 0 \/ MayMark THEN "acked" ELSE "refused")
    /\ UNCHANGED <<kind, dir, bytes, file, age, fin, putVars, row, release, doubled, errors, crashes>>

----------------------------------------------------------------------------
(* finalize: coverage as an interval union, the size check, the rename, and *)
(* the row.  An incomplete session is refused and stays as it is.  Mutant:  *)
(* the lengths of the markers are added up.                                 *)
MissingBySum ==
    IF FoldSet(LAMBDA m, n : m.length + n, 0, markers) >= Size THEN {} ELSE Cells

Missing == Cells \ Covered(markers)

(* The assembling file reaches the declared size. *)
BigEnough == Size - 1 \in bytes

Finalizing(f) ==
    /\ fin' = [fin EXCEPT ![f] = "indexing"]
    /\ doubled' = (doubled \/ Indexing # {})

Finalize(f) ==
    /\ dir = "open" /\ fin[f] = "idle" /\ file = "data"
    /\ Missing = {} /\ BigEnough
    /\ file' = "final" /\ age' = 0 /\ dirAge' = 0
    /\ Finalizing(f)
    /\ UNCHANGED <<kind, dir, markers, bytes, seg, putVars, row, release, errors, crashes>>

(* The bytes are published already: only the row is (re)written. *)
HealFinalize(f) ==
    /\ dir = "open" /\ fin[f] = "idle" /\ file = "final"
    /\ Finalizing(f)
    /\ UNCHANGED <<kind, sessionVars, file, age, seg, putVars, row, release, errors, crashes>>

(* indexAndFinish: the row is written and the session dropped. *)
Indexed(f) ==
    /\ fin[f] = "indexing"
    /\ row' = TRUE
    /\ fin' = [fin EXCEPT ![f] = "done"]
    /\ IF Live THEN DropSession("finished") ELSE UNCHANGED <<sessionVars, file, age>>
    /\ UNCHANGED <<kind, seg, putVars, release, doubled, errors, crashes>>

(* Mutant: the session is dropped whether or not the row was written. *)
IndexFailsDropping(f) ==
    /\ fin[f] = "indexing"
    /\ StoreFails
    /\ row' \in {row, TRUE}
    /\ fin' = [fin EXCEPT ![f] = "failed"]
    /\ IF Live THEN DropSession("finished") ELSE UNCHANGED <<sessionVars, file, age>>
    /\ UNCHANGED <<kind, seg, putVars, release, doubled, crashes>>

(* The row write failed: the session is kept for a retry. *)
IndexFails(f) ==
    /\ fin[f] = "indexing"
    /\ StoreFails
    /\ row' \in {row, TRUE}
    /\ fin' = [fin EXCEPT ![f] = "failed"]
    /\ UNCHANGED <<kind, sessionVars, file, age, seg, putVars, release, doubled, crashes>>

AbortUpload ==
    /\ Live
    /\ DropSession("aborted")
    /\ UNCHANGED <<kind, callVars, putVars, row, release, doubled, errors, crashes>>

----------------------------------------------------------------------------
(* put: the temp file is being opened while the stream already flows. *)
BeginPut ==
    /\ kind = "put" /\ put = "idle"
    /\ put' = "streaming" /\ opening' = TRUE
    /\ UNCHANGED <<kind, sessionVars, file, age, callVars, row, release, doubled, errors, crashes>>

(* The open lands, whatever became of the put meanwhile. *)
OpenTemp ==
    /\ opening /\ opening' = FALSE
    /\ file' = "data" /\ age' = 0
    /\ UNCHANGED <<kind, sessionVars, callVars, put, row, release, doubled, errors, crashes>>

PutChunk ==
    /\ put = "streaming" /\ ~opening
    /\ age > 0 /\ age' = 0
    /\ UNCHANGED <<kind, sessionVars, file, callVars, putVars, row, release, doubled, errors, crashes>>

RemoveTemp == file' = (IF file = "data" THEN "gone" ELSE file) /\ age' = 0

(* Mutant: the temp is removed and the answer given at once. *)
FailPutAtOnce ==
    /\ put = "streaming" /\ put' = "failed"
    /\ RemoveTemp
    /\ UNCHANGED <<kind, sessionVars, callVars, opening, row, release, doubled, errors, crashes>>

(* onError of the source or of maxObjectSize: the answer waits until the    *)
(* write stream has closed, so that the temp it may still open goes too.    *)
FailPut ==
    /\ put = "streaming" /\ put' = "destroying"
    /\ UNCHANGED <<kind, sessionVars, file, age, callVars, opening, row, release, doubled, errors,
                   crashes>>

FinishFailedPut ==
    /\ put = "destroying" /\ ~opening
    /\ RemoveTemp
    /\ put' = "failed"
    /\ UNCHANGED <<kind, sessionVars, callVars, opening, row, release, doubled, errors, crashes>>

(* onError of the write stream, which is closed by then. *)
BreakTemp ==
    /\ put = "streaming" /\ put' = "failed"
    /\ opening' = FALSE
    /\ RemoveTemp
    /\ UNCHANGED <<kind, sessionVars, callVars, row, release, doubled, errors, crashes>>

(* Mutant: the failure of the rename goes unnoticed. *)
PublishPutUnchecked ==
    /\ put = "streaming" /\ ~opening
    /\ file' = (IF file = "data" THEN "final" ELSE file)
    /\ put' = "indexing" /\ age' = 0
    /\ UNCHANGED <<kind, sessionVars, callVars, opening, row, release, doubled, errors, crashes>>

(* The temp is complete and renamed into place, unless the sweep took it. *)
PublishPut ==
    /\ put = "streaming" /\ ~opening
    /\ IF file = "data" THEN file' = "final" /\ put' = "indexing"
                        ELSE file' = file /\ put' = "failed"
    /\ age' = 0
    /\ UNCHANGED <<kind, sessionVars, callVars, opening, row, release, doubled, errors, crashes>>

PutIndexed ==
    /\ put = "indexing" /\ put' = "done"
    /\ row' = TRUE
    /\ UNCHANGED <<kind, sessionVars, file, age, callVars, opening, release, doubled, errors, crashes>>

(* The object is rolled back: its caller never learns the key. *)
PutIndexFails ==
    /\ put = "indexing" /\ put' = "failed"
    /\ StoreFails
    /\ row' \in {row, TRUE}
    /\ file' = "gone"
    /\ UNCHANGED <<kind, sessionVars, age, callVars, opening, release, doubled, crashes>>

----------------------------------------------------------------------------
(* release by whoever was told the key: the file, then the row. *)
KeyKnown == put = "done" \/ \E f \in Finals : fin[f] = "done"

Release ==
    /\ KeyKnown /\ release \in {"idle", "failed"}
    /\ file' = (IF file = "final" THEN "gone" ELSE file)
    /\ release' = "removing"
    /\ UNCHANGED <<kind, sessionVars, age, callVars, putVars, row, doubled, errors, crashes>>

Removed ==
    /\ release = "removing" /\ release' = "released"
    /\ row' = FALSE
    /\ UNCHANGED <<kind, sessionVars, file, age, callVars, putVars, doubled, errors, crashes>>

RemoveFails ==
    /\ release = "removing" /\ release' = "failed"
    /\ StoreFails
    /\ row' \in {row, FALSE}
    /\ UNCHANGED <<kind, sessionVars, file, age, callVars, putVars, doubled, crashes>>

----------------------------------------------------------------------------
(* Mutant: a session without a data file is never idle. *)
IdleOfData == IF file = "data" THEN age ELSE 0

(* sweepAbandoned, at build and by the timer.  A session lives by its data  *)
(* file, or by its directory when the data was renamed away.                *)
Idle == IF file = "data" THEN age ELSE dirAge

SweepSession ==
    /\ Live /\ Idle > Ttl
    /\ DropSession("swept")
    /\ UNCHANGED <<kind, callVars, putVars, row, release, doubled, errors, crashes>>

SweepTemp ==
    /\ kind = "put" /\ file = "data" /\ age > Ttl
    /\ RemoveTemp
    /\ UNCHANGED <<kind, sessionVars, callVars, putVars, row, release, doubled, errors, crashes>>

(* The process dies; a store call under way may or may not be applied. *)
Crash ==
    /\ crashes < MaxCrashes /\ crashes' = crashes + 1
    /\ seg' = [s \in Segments |->
                  IF seg[s].at \in {"opening", "writing", "refusing"}
                  THEN [seg[s] EXCEPT !.at = "lost"] ELSE seg[s]]
    /\ fin' = [f \in Finals |-> IF f \in Indexing THEN "failed" ELSE fin[f]]
    /\ put' = (IF put \in {"streaming", "destroying", "indexing"} THEN "lost" ELSE put)
    /\ opening' = FALSE
    /\ release' = (IF release = "removing" THEN "failed" ELSE release)
    /\ \/ row' = row
       \/ (Indexing # {} \/ put = "indexing") /\ row' = TRUE
       \/ release = "removing" /\ row' = FALSE
    /\ UNCHANGED <<kind, sessionVars, file, age, doubled, errors>>

Older(a) == IF a > Ttl THEN a ELSE a + 1

Tick ==
    /\ ~Calling
    /\ age' = (IF file = "data" THEN Older(age) ELSE age)
    /\ dirAge' = (IF Live THEN Older(dirAge) ELSE dirAge)
    /\ <<age, dirAge>>' # <<age, dirAge>>
    /\ UNCHANGED <<kind, dir, markers, bytes, file, callVars, putVars, row, release, doubled,
                   errors, crashes>>

SegmentStep(s) ==
    \/ BeginSegment(s) \/ OpenSegment(s) \/ WriteChunk(s) \/ CloseSegment(s)
    \/ FailSegment(s) \/ LateChunk(s)
FinalStep(f) == Finalize(f) \/ HealFinalize(f) \/ Indexed(f) \/ IndexFails(f)
PutStep ==
    \/ BeginPut \/ OpenTemp \/ PutChunk \/ FailPut \/ FinishFailedPut \/ BreakTemp
    \/ PublishPut \/ PutIndexed \/ PutIndexFails
ReleaseStep == Release \/ Removed \/ RemoveFails

Next ==
    \/ CreateUpload \/ CreateDies
    \/ \E s \in Segments : SegmentStep(s)
    \/ \E f \in Finals : FinalStep(f)
    \/ AbortUpload
    \/ PutStep
    \/ ReleaseStep
    \/ SweepSession \/ SweepTemp
    \/ Crash
    \/ Tick

Spec == Init /\ [][Next]_vars

(* The store answers, the sweep's timer fires and time passes. *)
Answer ==
    \/ \E f \in Finals : Indexed(f) \/ IndexFails(f)
    \/ PutIndexed \/ PutIndexFails \/ Removed \/ RemoveFails
FairSpec ==
    /\ Spec
    /\ WF_vars(Answer) /\ WF_vars(SweepSession) /\ WF_vars(SweepTemp) /\ WF_vars(Tick)

----------------------------------------------------------------------------
(* Types; segments and their markers stay inside the object. *)
Flags == opening \in BOOLEAN /\ row \in BOOLEAN /\ doubled \in BOOLEAN

Shapes ==
    /\ kind \in {"upload", "put"}
    /\ dir \in {"none", "bare", "open", "finished", "aborted", "swept"}
    /\ markers \subseteq Spans
    /\ bytes \subseteq Cells
    /\ file \in {"none", "data", "final", "gone"}
    /\ age \in Ages /\ dirAge \in Ages
    /\ seg \in [Segments -> [at : {"idle", "opening", "writing", "refusing", "refused", "acked",
                                   "lost"},
                             offset : Cells, sent : 0 .. Size]]
    /\ \A s \in Segments : End(Written(s)) <= Size
    /\ fin \in [Finals -> {"idle", "indexing", "done", "failed"}]
    /\ put \in {"idle", "streaming", "destroying", "indexing", "done", "failed", "lost"}
    /\ release \in {"idle", "removing", "released", "failed"}
    /\ errors \in 0 .. MaxErrors /\ crashes \in 0 .. MaxCrashes

TypeOK == Flags /\ Shapes

(* No published object has a hole, in whichever order segments landed,      *)
(* overlapped, failed or were cut short: a hole would read back as zeros.   *)
NoHole == kind = "upload" /\ file = "final" => bytes = Cells

(* mergeSpans and missingSpans compute the union and its complement, from   *)
(* whatever markers the segments left.                                      *)
SpansExact == MergesExactly(markers) /\ MissesExactly(markers, Size)

(* An indexed object has its file, except while its release is unfinished:  *)
(* bytes are published before the row, and removed before it.  (Without two *)
(* calls of finalize at once, and without an error of a put's row write.)   *)
RowHasFile ==
    row => \/ file = "final"
           \/ release \in {"removing", "failed"}
           \/ doubled
           \/ put = "failed" /\ errors > 0

(* A published object that has no row is one whose row is on its way, whose *)
(* session is kept for a retry, or that a crash or an abandoned session     *)
(* left behind.                                                             *)
PublishedCanFinish ==
    file = "final" /\ ~row =>
        \/ dir \in {"open", "aborted", "swept"}
        \/ put = "indexing"
        \/ put = "lost"

(* A caller told that its put failed finds no residue: neither the temp,    *)
(* which may be opened only after the failure, nor a published file.        *)
FailedPutLeavesNothing == put = "failed" => ~opening /\ file \in {"none", "gone"}

(* A session a client walked away from, even after finalize() took its data *)
(* file, and a temp file left by a crash are reclaimed.                     *)
NothingImmortal ==
    /\ Live ~> ~Live
    /\ (put = "lost" /\ file = "data") ~> file # "data"
=============================================================================
