------------------------ MODULE UploadSessionProofs ------------------------
(***************************************************************************)
(* Proofs about UploadSession for every size, any number of segments and   *)
(* any number of finalize calls, with and without fsync: types, published  *)
(* objects and their rows, no hole in what is published, and last that the *)
(* span arithmetic of UploadSpans computes the union and its complement.   *)
(***************************************************************************)
EXTENDS UploadSession, FiniteSetTheorems, SequenceTheorems, WellFoundedInduction, TLAPS

(***************************************************************************)
(* Types.                                                                  *)
(***************************************************************************)
LEMMA FlagsStep == Flags /\ [Next]_vars => Flags'
<1> SUFFICES ASSUME Flags, [Next]_vars PROVE Flags'
  OBVIOUS
<1>1. CASE \E s \in Segments : BeginSegment(s)
  BY <1>1 DEF BeginSegment, vars, sessionVars, callVars, putVars, Flags
<1>2. CASE \E s \in Segments : OpenSegment(s)
  BY <1>2 DEF OpenSegment, MoveSegment, vars, sessionVars, callVars, putVars, Flags
<1>3. CASE \E s \in Segments : WriteChunk(s)
  BY <1>3 DEF WriteChunk, Lands, vars, sessionVars, callVars, putVars, Flags
<1>4. CASE \E s \in Segments : CloseSegment(s)
  BY <1>4 DEF CloseSegment, MoveSegment, MayMark, vars, sessionVars, callVars, putVars,
      Flags
<1>5. CASE \E s \in Segments : FailSegment(s)
  BY <1>5 DEF FailSegment, MoveSegment, vars, sessionVars, callVars, putVars, Flags
<1>6. CASE \E s \in Segments : LateChunk(s)
  BY <1>6 DEF LateChunk, Lands, MoveSegment, vars, sessionVars, callVars, putVars, Flags
<1>7. CASE \E f \in Finals : Finalize(f)
  BY <1>7 DEF Finalize, Finalizing, vars, sessionVars, callVars, putVars, Flags
<1>8. CASE \E f \in Finals : HealFinalize(f)
  BY <1>8 DEF HealFinalize, Finalizing, vars, sessionVars, callVars, putVars, Flags
<1>9. CASE \E f \in Finals : Indexed(f)
  BY <1>9 DEF Indexed, Live, DropSession, vars, sessionVars, callVars, putVars, Flags
<1>10. CASE \E f \in Finals : IndexFails(f)
  BY <1>10 DEF IndexFails, StoreFails, vars, sessionVars, callVars, putVars, Flags
<1>11. CASE CreateUpload
  BY <1>11 DEF CreateUpload, vars, sessionVars, callVars, putVars, Flags
<1>12. CASE CreateDies
  BY <1>12 DEF CreateDies, vars, sessionVars, callVars, putVars, Flags
<1>13. CASE AbortUpload
  BY <1>13 DEF AbortUpload, Live, DropSession, vars, sessionVars, callVars, putVars, Flags
<1>14. CASE BeginPut
  BY <1>14 DEF BeginPut, vars, sessionVars, callVars, putVars, Flags
<1>15. CASE OpenTemp
  BY <1>15 DEF OpenTemp, vars, sessionVars, callVars, putVars, Flags
<1>16. CASE PutChunk
  BY <1>16 DEF PutChunk, vars, sessionVars, callVars, putVars, Flags
<1>17. CASE FailPut
  BY <1>17 DEF FailPut, vars, sessionVars, callVars, putVars, Flags
<1>18. CASE FinishFailedPut
  BY <1>18 DEF FinishFailedPut, RemoveTemp, vars, sessionVars, callVars, putVars, Flags
<1>19. CASE BreakTemp
  BY <1>19 DEF BreakTemp, RemoveTemp, vars, sessionVars, callVars, putVars, Flags
<1>20. CASE PublishPut
  BY <1>20 DEF PublishPut, vars, sessionVars, callVars, putVars, Flags
<1>21. CASE PutIndexed
  BY <1>21 DEF PutIndexed, vars, sessionVars, callVars, putVars, Flags
<1>22. CASE PutIndexFails
  BY <1>22 DEF PutIndexFails, StoreFails, vars, sessionVars, callVars, putVars, Flags
<1>23. CASE Release
  BY <1>23 DEF Release, KeyKnown, vars, sessionVars, callVars, putVars, Flags
<1>24. CASE Removed
  BY <1>24 DEF Removed, vars, sessionVars, callVars, putVars, Flags
<1>25. CASE RemoveFails
  BY <1>25 DEF RemoveFails, StoreFails, vars, sessionVars, callVars, putVars, Flags
<1>26. CASE SweepSession
  BY <1>26 DEF SweepSession, Live, DropSession, vars, sessionVars, callVars, putVars,
      Flags
<1>27. CASE SweepTemp
  BY <1>27 DEF SweepTemp, RemoveTemp, vars, sessionVars, callVars, putVars, Flags
<1>28. CASE Crash
  BY <1>28 DEF Crash, Indexing, vars, sessionVars, callVars, putVars, Flags
<1>29. CASE Tick
  BY <1>29 DEF Tick, Older, Live, vars, sessionVars, callVars, putVars, Flags
<1>30. CASE UNCHANGED vars
  BY <1>30 DEF vars, sessionVars, callVars, putVars, Flags
<1> QED
  BY <1>1, <1>2, <1>3, <1>4, <1>5, <1>6, <1>7, <1>8, <1>9, <1>10, <1>11, <1>12, <1>13,
      <1>14, <1>15, <1>16, <1>17, <1>18, <1>19, <1>20, <1>21, <1>22, <1>23, <1>24, <1>25,
      <1>26, <1>27, <1>28, <1>29, <1>30 DEF Next, SegmentStep, FinalStep, PutStep,
      ReleaseStep

(* The session, its segments and its put keep their shape.                  *)
LEMMA ShapesStep == Shapes /\ [Next]_vars => Shapes'
<1> SUFFICES ASSUME Shapes, [Next]_vars PROVE Shapes'
  OBVIOUS
<1> USE UploadAssumption DEF UploadAssumption
<1>1. CASE \E s \in Segments : BeginSegment(s)
  BY <1>1 DEF BeginSegment, vars, sessionVars, callVars, putVars, Shapes, Spans, Cells,
      Ages, Written, End
<1>2. CASE \E s \in Segments : OpenSegment(s)
  BY <1>2 DEF OpenSegment, MoveSegment, vars, sessionVars, callVars, putVars, Shapes,
      Spans, Cells, Ages, Written, End
<1>3. CASE \E s \in Segments : WriteChunk(s)
  BY <1>3 DEF WriteChunk, Lands, vars, sessionVars, callVars, putVars, Shapes, Spans,
      Cells, Ages, Written, End
<1>4. CASE \E s \in Segments : CloseSegment(s)
  BY <1>4 DEF CloseSegment, MoveSegment, MayMark, vars, sessionVars, callVars, putVars,
      Shapes, Spans, Cells, Ages, Written, End
<1>5. CASE \E s \in Segments : FailSegment(s)
  BY <1>5 DEF FailSegment, MoveSegment, vars, sessionVars, callVars, putVars, Shapes,
      Spans, Cells, Ages, Written, End
<1>6. CASE \E s \in Segments : LateChunk(s)
  BY <1>6 DEF LateChunk, Lands, MoveSegment, vars, sessionVars, callVars, putVars, Shapes,
      Spans, Cells, Ages, Written, End
<1>7. CASE \E f \in Finals : Finalize(f)
  BY <1>7 DEF Finalize, Finalizing, vars, sessionVars, callVars, putVars, Shapes, Spans,
      Cells, Ages, Written, End
<1>8. CASE \E f \in Finals : HealFinalize(f)
  BY <1>8 DEF HealFinalize, Finalizing, vars, sessionVars, callVars, putVars, Shapes,
      Spans, Cells, Ages, Written, End
<1>9. CASE \E f \in Finals : Indexed(f)
  <2> PICK f \in Finals : Indexed(f)
    BY <1>9
  <2>1. fin' \in [Finals -> {"idle", "indexing", "done", "failed"}]
    BY DEF Indexed, Shapes
  <2>2. CASE Live
    <3>1. /\ dir' = "finished" /\ markers' = {} /\ bytes' = bytes /\ dirAge' = 0 /\ age' = 0
          /\ file' \in {"gone", file}
      BY <2>2 DEF Indexed, DropSession
    <3>2. UNCHANGED <<kind, seg, put, release, errors, crashes>>
      BY DEF Indexed, putVars
    <3> QED
      BY <2>1, <3>1, <3>2 DEF Shapes, Ages, Spans, Cells, Written, End
  <2>3. CASE ~Live
    BY <2>1, <2>3 DEF Indexed, sessionVars, putVars, Shapes, Spans, Cells, Ages, Written, End
  <2> QED
    BY <2>2, <2>3
<1>10. CASE \E f \in Finals : IndexFails(f)
  BY <1>10 DEF IndexFails, StoreFails, vars, sessionVars, callVars, putVars, Shapes,
      Spans, Cells, Ages, Written, End
<1>11. CASE CreateUpload
  BY <1>11 DEF CreateUpload, vars, sessionVars, callVars, putVars, Shapes, Spans, Cells,
      Ages, Written, End
<1>12. CASE CreateDies
  BY <1>12 DEF CreateDies, vars, sessionVars, callVars, putVars, Shapes, Spans, Cells,
      Ages, Written, End
<1>13. CASE AbortUpload
  BY <1>13 DEF AbortUpload, Live, DropSession, vars, sessionVars, callVars, putVars,
      Shapes, Spans, Cells, Ages, Written, End
<1>14. CASE BeginPut
  BY <1>14 DEF BeginPut, vars, sessionVars, callVars, putVars, Shapes, Spans, Cells, Ages,
      Written, End
<1>15. CASE OpenTemp
  BY <1>15 DEF OpenTemp, vars, sessionVars, callVars, putVars, Shapes, Spans, Cells, Ages,
      Written, End
<1>16. CASE PutChunk
  BY <1>16 DEF PutChunk, vars, sessionVars, callVars, putVars, Shapes, Spans, Cells, Ages,
      Written, End
<1>17. CASE FailPut
  BY <1>17 DEF FailPut, vars, sessionVars, callVars, putVars, Shapes, Spans, Cells, Ages,
      Written, End
<1>18. CASE FinishFailedPut
  BY <1>18 DEF FinishFailedPut, RemoveTemp, vars, sessionVars, callVars, putVars, Shapes,
      Spans, Cells, Ages, Written, End
<1>19. CASE BreakTemp
  BY <1>19 DEF BreakTemp, RemoveTemp, vars, sessionVars, callVars, putVars, Shapes, Spans,
      Cells, Ages, Written, End
<1>20. CASE PublishPut
  BY <1>20 DEF PublishPut, vars, sessionVars, callVars, putVars, Shapes, Spans, Cells,
      Ages, Written, End
<1>21. CASE PutIndexed
  BY <1>21 DEF PutIndexed, vars, sessionVars, callVars, putVars, Shapes, Spans, Cells,
      Ages, Written, End
<1>22. CASE PutIndexFails
  BY <1>22 DEF PutIndexFails, StoreFails, vars, sessionVars, callVars, putVars, Shapes,
      Spans, Cells, Ages, Written, End
<1>23. CASE Release
  BY <1>23 DEF Release, KeyKnown, vars, sessionVars, callVars, putVars, Shapes, Spans,
      Cells, Ages, Written, End
<1>24. CASE Removed
  BY <1>24 DEF Removed, vars, sessionVars, callVars, putVars, Shapes, Spans, Cells, Ages,
      Written, End
<1>25. CASE RemoveFails
  BY <1>25 DEF RemoveFails, StoreFails, vars, sessionVars, callVars, putVars, Shapes,
      Spans, Cells, Ages, Written, End
<1>26. CASE SweepSession
  BY <1>26 DEF SweepSession, Live, DropSession, vars, sessionVars, callVars, putVars,
      Shapes, Spans, Cells, Ages, Written, End
<1>27. CASE SweepTemp
  BY <1>27 DEF SweepTemp, RemoveTemp, vars, sessionVars, callVars, putVars, Shapes, Spans,
      Cells, Ages, Written, End
<1>28. CASE Crash
  BY <1>28 DEF Crash, Indexing, vars, sessionVars, callVars, putVars, Shapes, Spans,
      Cells, Ages, Written, End
<1>29. CASE Tick
  BY <1>29 DEF Tick, Older, Live, vars, sessionVars, callVars, putVars, Shapes, Spans,
      Cells, Ages, Written, End
<1>30. CASE UNCHANGED vars
  BY <1>30 DEF vars, sessionVars, callVars, putVars, Shapes, Spans, Cells, Ages, Written,
      End
<1> QED
  BY <1>1, <1>2, <1>3, <1>4, <1>5, <1>6, <1>7, <1>8, <1>9, <1>10, <1>11, <1>12, <1>13,
      <1>14, <1>15, <1>16, <1>17, <1>18, <1>19, <1>20, <1>21, <1>22, <1>23, <1>24, <1>25,
      <1>26, <1>27, <1>28, <1>29, <1>30 DEF Next, SegmentStep, FinalStep, PutStep,
      ReleaseStep

(* The first state is well typed.                                           *)
LEMMA TypeInit == Init => TypeOK
<1> SUFFICES ASSUME Init PROVE TypeOK
  OBVIOUS
<1>1. Flags
  BY DEF Init, Flags
<1>2. seg \in [Segments -> [at : {"idle", "opening", "writing", "refusing", "refused", "acked",
                                "lost"}, offset : Cells, sent : 0 .. Size]]
  BY UploadAssumption DEF UploadAssumption, Init, Cells
<1>3. \A s \in Segments : End(Written(s)) <= Size
  BY UploadAssumption DEF UploadAssumption, Init, Written, End
<1>4. Shapes
  BY UploadAssumption, <1>2, <1>3 DEF UploadAssumption, Init, Shapes, Ages
<1> QED
  BY <1>1, <1>4 DEF TypeOK

(* Every variable keeps its type, and neither a segment nor a marker ever   *)
(* reaches past the declared size: the cap of writeSegment.                 *)
THEOREM TypeCorrect == Spec => []TypeOK
<1>1. TypeOK /\ [Next]_vars => TypeOK'
  BY FlagsStep, ShapesStep DEF TypeOK
<1> QED
  BY TypeInit, <1>1, PTL DEF Spec

(***************************************************************************)
(* The life of an object: which of put and session it has, where its file  *)
(* may be at each place of the calls, and who may know its key.            *)
(***************************************************************************)
Separate ==
    /\ kind = "upload" => put = "idle" /\ ~opening
    /\ kind = "put" => dir = "none" /\ \A f \in Finals : fin[f] = "idle"

PutPlaces ==
    /\ opening => put \in {"streaming", "destroying"}
    /\ kind = "put" /\ put \in {"idle", "streaming", "destroying"} =>
           ~row /\ file \in {"none", "data", "gone"}
    /\ put = "indexing" => file = "final"
    /\ put = "failed" => file \in {"none", "gone"} /\ (row => errors > 0)
    /\ put = "lost" /\ row => file = "final"

(* A finalize that succeeded has dropped the session. *)
Sessions ==
    /\ kind = "upload" /\ dir = "none" =>
           ~row /\ file = "none" /\ \A f \in Finals : fin[f] = "idle"
    /\ dir = "bare" => file # "final"
    /\ \A f \in Finals : fin[f] = "done" => ~Live

(* A finalize that is alone writes the row of a file that is there and that *)
(* nobody can release yet.                                                  *)
Finalizes ==
    ~doubled => \A f \in Indexing :
        /\ file = "final"
        /\ \A g \in Finals : fin[g] # "done" /\ (g \in Indexing => g = f)

Releases == release # "idle" => KeyKnown /\ file # "final"

ObjectInv ==
    /\ Separate /\ PutPlaces /\ Sessions /\ Finalizes /\ Releases
    /\ RowHasFile /\ PublishedCanFinish

objectVars == <<kind, dir, file, fin, put, opening, row, release, doubled, errors>>

(* A step that leaves the object alone keeps what holds of it.              *)
LEMMA ObjectQuiet == ObjectInv /\ UNCHANGED objectVars => ObjectInv'
  BY DEF objectVars, ObjectInv, Separate, PutPlaces, Sessions, Finalizes, Releases, RowHasFile,
         PublishedCanFinish, Indexing, KeyKnown, Live

(* Every step keeps file, row and residue in agreement.                     *)
LEMMA ObjectStep == Shapes /\ Shapes' /\ ObjectInv /\ [Next]_vars => ObjectInv'
<1> SUFFICES ASSUME Shapes, Shapes', ObjectInv, [Next]_vars PROVE ObjectInv'
  OBVIOUS
<1>1. CASE \E s \in Segments : BeginSegment(s)
  BY <1>1, ObjectQuiet DEF objectVars, BeginSegment, vars, sessionVars, callVars, putVars
<1>2. CASE \E s \in Segments : OpenSegment(s)
  BY <1>2, ObjectQuiet DEF objectVars, OpenSegment, MoveSegment, vars, sessionVars,
      callVars, putVars
<1>3. CASE \E s \in Segments : WriteChunk(s)
  BY <1>3, ObjectQuiet DEF objectVars, WriteChunk, Lands, vars, sessionVars, callVars,
      putVars
<1>4. CASE \E s \in Segments : CloseSegment(s)
  BY <1>4, ObjectQuiet DEF objectVars, CloseSegment, MoveSegment, MayMark, vars,
      sessionVars, callVars, putVars
<1>5. CASE \E s \in Segments : FailSegment(s)
  BY <1>5, ObjectQuiet DEF objectVars, FailSegment, MoveSegment, vars, sessionVars,
      callVars, putVars
<1>6. CASE \E s \in Segments : LateChunk(s)
  BY <1>6, ObjectQuiet DEF objectVars, LateChunk, Lands, MoveSegment, vars, sessionVars,
      callVars, putVars
<1>7. CASE \E f \in Finals : Finalize(f)
  <2> PICK f \in Finals : Finalize(f)
    BY <1>7
  <2>1. /\ dir = "open" /\ dir' = dir /\ file = "data" /\ file' = "final"
        /\ UNCHANGED <<kind, put, opening, row, release, errors>>
    BY DEF Finalize, putVars
  <2>2. \A g \in Finals : fin'[g] = IF g = f THEN "indexing" ELSE fin[g]
    BY DEF Finalize, Finalizing, Shapes
  <2>3. \A g \in Finals : fin[g] # "done"
    BY <2>1 DEF ObjectInv, Sessions, Live
  <2>4. kind = "upload" /\ release = "idle" /\ put = "idle"
    BY <2>1, <2>3 DEF ObjectInv, Separate, Releases, KeyKnown, Shapes
  <2>5. ~doubled' => Indexing = {}
    BY DEF Finalize, Finalizing
  <2>6. Finalizes'
    BY <2>1, <2>2, <2>3, <2>5 DEF Finalizes, Indexing
  <2>7. doubled => doubled'
    BY DEF Finalize, Finalizing
  <2> QED
    BY <2>1, <2>2, <2>3, <2>4, <2>6 DEF ObjectInv, Separate, PutPlaces, Sessions, Releases,
       RowHasFile, PublishedCanFinish, KeyKnown, Live
<1>8. CASE \E f \in Finals : HealFinalize(f)
  <2> PICK f \in Finals : HealFinalize(f)
    BY <1>8
  <2>1. /\ dir = "open" /\ dir' = dir /\ file = "final" /\ file' = file
        /\ UNCHANGED <<kind, put, opening, row, release, errors>>
    BY DEF HealFinalize, sessionVars, putVars
  <2>2. \A g \in Finals : fin'[g] = IF g = f THEN "indexing" ELSE fin[g]
    BY DEF HealFinalize, Finalizing, Shapes
  <2>3. \A g \in Finals : fin[g] # "done"
    BY <2>1 DEF ObjectInv, Sessions, Live
  <2>4. kind = "upload" /\ release = "idle" /\ put = "idle"
    BY <2>1, <2>3 DEF ObjectInv, Separate, Releases, KeyKnown, Shapes
  <2>5. ~doubled' => Indexing = {}
    BY DEF HealFinalize, Finalizing
  <2>6. Finalizes'
    BY <2>1, <2>2, <2>3, <2>5 DEF Finalizes, Indexing
  <2> QED
    BY <2>1, <2>2, <2>3, <2>4, <2>6 DEF ObjectInv, Separate, PutPlaces, Sessions, Releases,
       RowHasFile, PublishedCanFinish, KeyKnown, Live
<1>9. CASE \E f \in Finals : Indexed(f)
  BY <1>9 DEF Indexed, Live, DropSession, vars, sessionVars, callVars, putVars, ObjectInv,
      Separate, PutPlaces, Sessions, Finalizes, Releases, RowHasFile, PublishedCanFinish,
      KeyKnown, Indexing, Shapes
<1>10. CASE \E f \in Finals : IndexFails(f)
  <2> PICK f \in Finals : IndexFails(f)
    BY <1>10
  <2>1. /\ UNCHANGED <<dir, file, kind, put, opening, release>>
        /\ row' \in {row, TRUE} /\ errors' = errors + 1
    BY DEF IndexFails, StoreFails, sessionVars, putVars
  <2>2. /\ fin[f] = "indexing" /\ doubled' = doubled
        /\ \A g \in Finals : fin'[g] = IF g = f THEN "failed" ELSE fin[g]
    BY DEF IndexFails, Shapes
  <2>3. f \in Indexing /\ Indexing' \subseteq Indexing
    BY <2>2 DEF Indexing
  <2>4. kind = "upload" /\ put = "idle"
    BY <2>2 DEF ObjectInv, Separate, Shapes
  <2>5. KeyKnown' = KeyKnown
    BY <2>1, <2>2 DEF KeyKnown
  <2>6. Finalizes' /\ Releases'
    BY <2>1, <2>2, <2>3, <2>5 DEF ObjectInv, Finalizes, Releases
  <2>7. RowHasFile'
    BY <2>1, <2>2, <2>3, <2>4 DEF ObjectInv, Finalizes, RowHasFile
  <2>8. PublishedCanFinish'
    BY <2>1, <2>4 DEF ObjectInv, PublishedCanFinish
  <2>9. Separate' /\ Sessions' /\ PutPlaces'
    BY <2>1, <2>2, <2>4 DEF ObjectInv, Separate, Sessions, PutPlaces, Live
  <2> QED
    BY <2>6, <2>7, <2>8, <2>9 DEF ObjectInv
<1>11. CASE CreateUpload
  BY <1>11 DEF CreateUpload, vars, sessionVars, callVars, putVars, ObjectInv, Separate,
      PutPlaces, Sessions, Finalizes, Releases, RowHasFile, PublishedCanFinish, KeyKnown,
      Live, Indexing, Shapes
<1>12. CASE CreateDies
  BY <1>12 DEF CreateDies, vars, sessionVars, callVars, putVars, ObjectInv, Separate,
      PutPlaces, Sessions, Finalizes, Releases, RowHasFile, PublishedCanFinish, KeyKnown,
      Live, Indexing, Shapes
<1>13. CASE AbortUpload
  BY <1>13 DEF AbortUpload, Live, DropSession, vars, sessionVars, callVars, putVars,
      ObjectInv, Separate, PutPlaces, Sessions, Finalizes, Releases, RowHasFile,
      PublishedCanFinish, KeyKnown, Indexing, Shapes
<1>14. CASE BeginPut
  BY <1>14 DEF BeginPut, vars, sessionVars, callVars, putVars, ObjectInv, Separate,
      PutPlaces, Sessions, Finalizes, Releases, RowHasFile, PublishedCanFinish, KeyKnown,
      Live, Indexing, Shapes
<1>15. CASE OpenTemp
  BY <1>15 DEF OpenTemp, vars, sessionVars, callVars, putVars, ObjectInv, Separate,
      PutPlaces, Sessions, Finalizes, Releases, RowHasFile, PublishedCanFinish, KeyKnown,
      Live, Indexing, Shapes
<1>16. CASE PutChunk
  BY <1>16, ObjectQuiet DEF objectVars, PutChunk, vars, sessionVars, callVars, putVars
<1>17. CASE FailPut
  BY <1>17 DEF FailPut, vars, sessionVars, callVars, putVars, ObjectInv, Separate,
      PutPlaces, Sessions, Finalizes, Releases, RowHasFile, PublishedCanFinish, KeyKnown,
      Live, Indexing, Shapes
<1>18. CASE FinishFailedPut
  BY <1>18 DEF FinishFailedPut, RemoveTemp, vars, sessionVars, callVars, putVars,
      ObjectInv, Separate, PutPlaces, Sessions, Finalizes, Releases, RowHasFile,
      PublishedCanFinish, KeyKnown, Live, Indexing, Shapes
<1>19. CASE BreakTemp
  BY <1>19 DEF BreakTemp, RemoveTemp, vars, sessionVars, callVars, putVars, ObjectInv,
      Separate, PutPlaces, Sessions, Finalizes, Releases, RowHasFile, PublishedCanFinish,
      KeyKnown, Live, Indexing, Shapes
<1>20. CASE PublishPut
  BY <1>20 DEF PublishPut, vars, sessionVars, callVars, putVars, ObjectInv, Separate,
      PutPlaces, Sessions, Finalizes, Releases, RowHasFile, PublishedCanFinish, KeyKnown,
      Live, Indexing, Shapes
<1>21. CASE PutIndexed
  BY <1>21 DEF PutIndexed, vars, sessionVars, callVars, putVars, ObjectInv, Separate,
      PutPlaces, Sessions, Finalizes, Releases, RowHasFile, PublishedCanFinish, KeyKnown,
      Live, Indexing, Shapes
<1>22. CASE PutIndexFails
  BY <1>22 DEF PutIndexFails, StoreFails, vars, sessionVars, callVars, putVars, ObjectInv,
      Separate, PutPlaces, Sessions, Finalizes, Releases, RowHasFile, PublishedCanFinish,
      KeyKnown, Live, Indexing, Shapes
<1>23. CASE Release
  BY <1>23 DEF Release, KeyKnown, vars, sessionVars, callVars, putVars, ObjectInv,
      Separate, PutPlaces, Sessions, Finalizes, Releases, RowHasFile, PublishedCanFinish,
      Live, Indexing, Shapes
<1>24. CASE Removed
  BY <1>24 DEF Removed, vars, sessionVars, callVars, putVars, ObjectInv, Separate,
      PutPlaces, Sessions, Finalizes, Releases, RowHasFile, PublishedCanFinish, KeyKnown,
      Live, Indexing, Shapes
<1>25. CASE RemoveFails
  BY <1>25 DEF RemoveFails, StoreFails, vars, sessionVars, callVars, putVars, ObjectInv,
      Separate, PutPlaces, Sessions, Finalizes, Releases, RowHasFile, PublishedCanFinish,
      KeyKnown, Live, Indexing, Shapes
<1>26. CASE SweepSession
  BY <1>26 DEF SweepSession, Live, DropSession, vars, sessionVars, callVars, putVars,
      ObjectInv, Separate, PutPlaces, Sessions, Finalizes, Releases, RowHasFile,
      PublishedCanFinish, KeyKnown, Indexing, Shapes
<1>27. CASE SweepTemp
  BY <1>27 DEF SweepTemp, RemoveTemp, vars, sessionVars, callVars, putVars, ObjectInv,
      Separate, PutPlaces, Sessions, Finalizes, Releases, RowHasFile, PublishedCanFinish,
      KeyKnown, Live, Indexing, Shapes
<1>28. CASE Crash
  BY <1>28 DEF Crash, Indexing, vars, sessionVars, callVars, putVars, ObjectInv, Separate,
      PutPlaces, Sessions, Finalizes, Releases, RowHasFile, PublishedCanFinish, KeyKnown,
      Live, Shapes
<1>29. CASE Tick
  BY <1>29, ObjectQuiet DEF objectVars, Tick, Older, Live, vars, sessionVars, callVars,
      putVars
<1>30. CASE UNCHANGED vars
  BY <1>30 DEF vars, sessionVars, callVars, putVars, ObjectInv, Separate, PutPlaces,
      Sessions, Finalizes, Releases, RowHasFile, PublishedCanFinish, KeyKnown, Live,
      Indexing, Shapes
<1> QED
  BY <1>1, <1>2, <1>3, <1>4, <1>5, <1>6, <1>7, <1>8, <1>9, <1>10, <1>11, <1>12, <1>13,
      <1>14, <1>15, <1>16, <1>17, <1>18, <1>19, <1>20, <1>21, <1>22, <1>23, <1>24, <1>25,
      <1>26, <1>27, <1>28, <1>29, <1>30 DEF Next, SegmentStep, FinalStep, PutStep,
      ReleaseStep

(* The first state has no object.                                           *)
LEMMA ObjectInit == Init => ObjectInv
  BY DEF Init, ObjectInv, Separate, PutPlaces, Sessions, Finalizes, Releases, RowHasFile,
         PublishedCanFinish, Indexing, Live

(* The shapes and the object's invariant hold throughout.                   *)
LEMMA ObjectAlways == Spec => [](Shapes /\ ObjectInv)
<1>1. Init => Shapes /\ ObjectInv
  BY TypeInit, ObjectInit DEF TypeOK
<1>2. Shapes /\ ObjectInv /\ [Next]_vars => Shapes' /\ ObjectInv'
  BY ShapesStep, ObjectStep
<1> QED
  BY <1>1, <1>2, PTL DEF Spec

(* A row never names bytes that are not there, while calls of finalize do   *)
(* not overlap and releases are complete: publish before row, unlink before *)
(* row removal, in every interleaving with segments, sweeps and crashes.    *)
THEOREM IndexedHasFile == Spec => []RowHasFile
  BY ObjectAlways, PTL DEF ObjectInv

(* Bytes that were published and not indexed are still on their way, or can *)
(* be completed by another finalize, unless the session was abandoned.      *)
THEOREM PublishedFinishes == Spec => []PublishedCanFinish
  BY ObjectAlways, PTL DEF ObjectInv

(* A failed put has closed its temp file, removed it, and will open none.   *)
THEOREM NoResidue == Spec => []FailedPutLeavesNothing
<1>1. ObjectInv => FailedPutLeavesNothing
  BY DEF ObjectInv, PutPlaces, FailedPutLeavesNothing
<1> QED
  BY ObjectAlways, <1>1, PTL

(***************************************************************************)
(* No holes: every durable range, and every cell a segment has sent, is in *)
(* the file the descriptor is open on; coverage is the union of the ranges.*)
(***************************************************************************)
MarkersBacked == \A m \in markers : CellsOf(m) \subseteq bytes
SentBacked    == \A s \in Segments : CellsOf(Written(s)) \subseteq bytes

HoleInv == MarkersBacked /\ SentBacked /\ NoHole

(* A range grows by the cell that was written behind it.                    *)
LEMMA OneMoreCell ==
    ASSUME NEW a \in Int, NEW n \in Int
    PROVE  a .. a + (n + 1) - 1 \subseteq (a .. a + n - 1) \cup {a + n}
  OBVIOUS

(* Every step keeps the written cells ahead of what is marked.              *)
LEMMA HoleStep ==
    Shapes /\ Shapes' /\ Separate /\ HoleInv /\ [Next]_vars => HoleInv'
<1> SUFFICES ASSUME Shapes, Shapes', Separate, MarkersBacked, SentBacked, NoHole, [Next]_vars
             PROVE  MarkersBacked' /\ SentBacked' /\ NoHole'
  BY DEF HoleInv
<1> USE UploadAssumption DEF UploadAssumption
<1>1. CASE \E s \in Segments : BeginSegment(s)
  BY <1>1 DEF BeginSegment, vars, sessionVars, callVars, putVars, Shapes, Spans, Cells,
      Written, End, CellsOf, MarkersBacked, SentBacked, NoHole, Separate
<1>2. CASE \E s \in Segments : OpenSegment(s)
  BY <1>2 DEF OpenSegment, MoveSegment, vars, sessionVars, callVars, putVars, Shapes,
      Spans, Cells, Written, End, CellsOf, MarkersBacked, SentBacked, NoHole, Separate
<1>3. CASE \E s \in Segments : WriteChunk(s)
  <2> PICK s \in Segments : WriteChunk(s)
    BY <1>3
  <2>1. /\ bytes' = bytes \cup {seg[s].offset + seg[s].sent}
        /\ seg' = [seg EXCEPT ![s].sent = @ + 1]
        /\ markers' = markers /\ kind' = kind /\ file' = file
    BY DEF WriteChunk, Lands, Written, End
  <2>2. MarkersBacked'
    BY <2>1 DEF MarkersBacked, CellsOf, End
  <2>3. SentBacked'
    <3> SUFFICES ASSUME NEW z \in Segments PROVE CellsOf(Written(z))' \subseteq bytes'
      BY DEF SentBacked
    <3>1. CASE z = s
      <4>1. seg'[s].offset = seg[s].offset /\ seg'[s].sent = seg[s].sent + 1
        BY <2>1 DEF Shapes
      <4>2. seg[s].offset \in Int /\ seg[s].sent \in Int
        BY DEF Shapes, Cells
      <4>3. CellsOf(Written(s)) \subseteq bytes
        BY DEF SentBacked
      <4>4. CellsOf(Written(s)) = seg[s].offset .. seg[s].offset + seg[s].sent - 1
        BY <4>2 DEF CellsOf, Written, End
      <4>5. CellsOf(Written(z))' = seg[s].offset .. seg[s].offset + (seg[s].sent + 1) - 1
        BY <3>1, <4>1, <4>2 DEF CellsOf, Written, End
      <4>6. CellsOf(Written(z))' \subseteq CellsOf(Written(s)) \cup {seg[s].offset + seg[s].sent}
        BY <4>2, <4>4, <4>5, OneMoreCell
      <4> QED
        BY <2>1, <4>3, <4>6
    <3>2. CASE z # s
      <4>1. seg'[z] = seg[z]
        BY <2>1, <3>2 DEF Shapes
      <4> QED
        BY <2>1, <4>1 DEF SentBacked, CellsOf, Written, End
    <3> QED
      BY <3>1, <3>2
  <2>4. NoHole'
    BY <2>1 DEF NoHole, Shapes
  <2> QED
    BY <2>2, <2>3, <2>4
<1>4. CASE \E s \in Segments : CloseSegment(s)
  <2> PICK s \in Segments : CloseSegment(s)
    BY <1>4
  <2>1. UNCHANGED <<bytes, kind, file>> /\ markers' \subseteq markers \cup {Written(s)}
    BY DEF CloseSegment
  <2>2. MarkersBacked'
    BY <2>1 DEF MarkersBacked, SentBacked, CellsOf, End
  <2>3. \A z \in Segments : Written(z)' = Written(z)
    BY DEF CloseSegment, MoveSegment, Shapes, Written
  <2>4. SentBacked'
    BY <2>1, <2>3 DEF SentBacked, CellsOf, End
  <2>5. NoHole'
    BY <2>1 DEF NoHole, Cells
  <2> QED
    BY <2>2, <2>4, <2>5
<1>5. CASE \E s \in Segments : FailSegment(s)
  BY <1>5 DEF FailSegment, MoveSegment, vars, sessionVars, callVars, putVars, Shapes,
      Spans, Cells, Written, End, CellsOf, MarkersBacked, SentBacked, NoHole, Separate
<1>6. CASE \E s \in Segments : LateChunk(s)
  BY <1>6 DEF LateChunk, Lands, MoveSegment, vars, sessionVars, callVars, putVars, Shapes,
      Spans, Cells, Written, End, CellsOf, MarkersBacked, SentBacked, NoHole, Separate
<1>7. CASE \E f \in Finals : Finalize(f)
  <2> PICK f \in Finals : Finalize(f)
    BY <1>7
  <2>1. UNCHANGED <<markers, bytes, seg, kind>>
    BY DEF Finalize
  <2>2. Cells \subseteq bytes
    <3> SUFFICES ASSUME NEW c \in Cells PROVE c \in bytes
      OBVIOUS
    <3>1. c \in Covered(markers)
      BY DEF Finalize, Missing
    <3>2. PICK m \in markers : c \in CellsOf(m)
      BY <3>1 DEF Covered
    <3> QED
      BY <3>2 DEF MarkersBacked
  <2>3. NoHole'
    BY <2>1, <2>2 DEF NoHole, Shapes, Cells
  <2> QED
    BY <2>1, <2>3 DEF MarkersBacked, SentBacked, CellsOf, Written, End
<1>8. CASE \E f \in Finals : HealFinalize(f)
  BY <1>8 DEF HealFinalize, Finalizing, vars, sessionVars, callVars, putVars, Shapes,
      Spans, Cells, Written, End, CellsOf, MarkersBacked, SentBacked, NoHole, Separate
<1>9. CASE \E f \in Finals : Indexed(f)
  BY <1>9 DEF Indexed, Live, DropSession, vars, sessionVars, callVars, putVars, Shapes,
      Spans, Cells, Written, End, CellsOf, MarkersBacked, SentBacked, NoHole, Separate
<1>10. CASE \E f \in Finals : IndexFails(f)
  BY <1>10 DEF IndexFails, StoreFails, vars, sessionVars, callVars, putVars, Shapes,
      Spans, Cells, Written, End, CellsOf, MarkersBacked, SentBacked, NoHole, Separate
<1>11. CASE CreateUpload
  BY <1>11 DEF CreateUpload, vars, sessionVars, callVars, putVars, Shapes, Spans, Cells,
      Written, End, CellsOf, MarkersBacked, SentBacked, NoHole, Separate
<1>12. CASE CreateDies
  BY <1>12 DEF CreateDies, vars, sessionVars, callVars, putVars, Shapes, Spans, Cells,
      Written, End, CellsOf, MarkersBacked, SentBacked, NoHole, Separate
<1>13. CASE AbortUpload
  BY <1>13 DEF AbortUpload, Live, DropSession, vars, sessionVars, callVars, putVars,
      Shapes, Spans, Cells, Written, End, CellsOf, MarkersBacked, SentBacked, NoHole,
      Separate
<1>14. CASE BeginPut
  BY <1>14 DEF BeginPut, vars, sessionVars, callVars, putVars, Shapes, Spans, Cells,
      Written, End, CellsOf, MarkersBacked, SentBacked, NoHole, Separate
<1>15. CASE OpenTemp
  BY <1>15 DEF OpenTemp, vars, sessionVars, callVars, putVars, Shapes, Spans, Cells,
      Written, End, CellsOf, MarkersBacked, SentBacked, NoHole, Separate
<1>16. CASE PutChunk
  BY <1>16 DEF PutChunk, vars, sessionVars, callVars, putVars, Shapes, Spans, Cells,
      Written, End, CellsOf, MarkersBacked, SentBacked, NoHole, Separate
<1>17. CASE FailPut
  BY <1>17 DEF FailPut, vars, sessionVars, callVars, putVars, Shapes, Spans, Cells,
      Written, End, CellsOf, MarkersBacked, SentBacked, NoHole, Separate
<1>18. CASE FinishFailedPut
  BY <1>18 DEF FinishFailedPut, RemoveTemp, vars, sessionVars, callVars, putVars, Shapes,
      Spans, Cells, Written, End, CellsOf, MarkersBacked, SentBacked, NoHole, Separate
<1>19. CASE BreakTemp
  BY <1>19 DEF BreakTemp, RemoveTemp, vars, sessionVars, callVars, putVars, Shapes, Spans,
      Cells, Written, End, CellsOf, MarkersBacked, SentBacked, NoHole, Separate
<1>20. CASE PublishPut
  BY <1>20 DEF PublishPut, vars, sessionVars, callVars, putVars, Shapes, Spans, Cells,
      Written, End, CellsOf, MarkersBacked, SentBacked, NoHole, Separate
<1>21. CASE PutIndexed
  BY <1>21 DEF PutIndexed, vars, sessionVars, callVars, putVars, Shapes, Spans, Cells,
      Written, End, CellsOf, MarkersBacked, SentBacked, NoHole, Separate
<1>22. CASE PutIndexFails
  BY <1>22 DEF PutIndexFails, StoreFails, vars, sessionVars, callVars, putVars, Shapes,
      Spans, Cells, Written, End, CellsOf, MarkersBacked, SentBacked, NoHole, Separate
<1>23. CASE Release
  BY <1>23 DEF Release, KeyKnown, vars, sessionVars, callVars, putVars, Shapes, Spans,
      Cells, Written, End, CellsOf, MarkersBacked, SentBacked, NoHole, Separate
<1>24. CASE Removed
  BY <1>24 DEF Removed, vars, sessionVars, callVars, putVars, Shapes, Spans, Cells,
      Written, End, CellsOf, MarkersBacked, SentBacked, NoHole, Separate
<1>25. CASE RemoveFails
  BY <1>25 DEF RemoveFails, StoreFails, vars, sessionVars, callVars, putVars, Shapes,
      Spans, Cells, Written, End, CellsOf, MarkersBacked, SentBacked, NoHole, Separate
<1>26. CASE SweepSession
  BY <1>26 DEF SweepSession, Live, DropSession, vars, sessionVars, callVars, putVars,
      Shapes, Spans, Cells, Written, End, CellsOf, MarkersBacked, SentBacked, NoHole,
      Separate
<1>27. CASE SweepTemp
  BY <1>27 DEF SweepTemp, RemoveTemp, vars, sessionVars, callVars, putVars, Shapes, Spans,
      Cells, Written, End, CellsOf, MarkersBacked, SentBacked, NoHole, Separate
<1>28. CASE Crash
  BY <1>28 DEF Crash, Indexing, vars, sessionVars, callVars, putVars, Shapes, Spans,
      Cells, Written, End, CellsOf, MarkersBacked, SentBacked, NoHole, Separate
<1>29. CASE Tick
  BY <1>29 DEF Tick, Older, Live, vars, sessionVars, callVars, putVars, Shapes, Spans,
      Cells, Written, End, CellsOf, MarkersBacked, SentBacked, NoHole, Separate
<1>30. CASE UNCHANGED vars
  BY <1>30 DEF vars, sessionVars, callVars, putVars, Shapes, Spans, Cells, Written, End,
      CellsOf, MarkersBacked, SentBacked, NoHole, Separate
<1> QED
  BY <1>1, <1>2, <1>3, <1>4, <1>5, <1>6, <1>7, <1>8, <1>9, <1>10, <1>11, <1>12, <1>13,
      <1>14, <1>15, <1>16, <1>17, <1>18, <1>19, <1>20, <1>21, <1>22, <1>23, <1>24, <1>25,
      <1>26, <1>27, <1>28, <1>29, <1>30 DEF Next, SegmentStep, FinalStep, PutStep,
      ReleaseStep

(* No published object has a hole that would read back as zeros, however    *)
(* segments overlapped, failed, were cut short or came late.                *)
THEOREM NoHoles == Spec => []NoHole
<1>1. Init => HoleInv
  BY UploadAssumption
     DEF UploadAssumption, Init, HoleInv, MarkersBacked, SentBacked, NoHole, CellsOf, Written, End
<1>2. Shapes /\ ObjectInv /\ HoleInv /\ [Next]_vars => HoleInv'
  BY ShapesStep, HoleStep DEF ObjectInv
<1>3. HoleInv => NoHole
  BY DEF HoleInv
<1> QED
  BY <1>1, <1>2, <1>3, ObjectAlways, PTL DEF Spec

(***************************************************************************)
(* Span arithmetic.  The loops of mergeSpans() and missingSpans() are      *)
(* recursive functions over the positions of their list; what holds at the *)
(* first position and is passed on from each to the next holds at all.     *)
(***************************************************************************)

(* Induction up to n, over the set of positions where something holds.      *)
LEMMA UpTo ==
  ASSUME NEW n \in Nat, NEW S, 0 \in S, \A i \in 0 .. n - 1 : i \in S => i + 1 \in S
  PROVE  \A i \in 0 .. n : i \in S
<1> DEFINE T == {i \in 0 .. n : i \notin S}
           R == OpToRel(<, Nat)
<1>1. \A i, j \in Nat : i < j => <<i, j>> \in R
  BY DEF OpToRel
<1>2. IsWellFoundedOn(R, Nat)
  BY NatLessThanWellFounded
<1> HIDE DEF R
<1> SUFFICES ASSUME T # {}
             PROVE  FALSE
  OBVIOUS
<1>3. PICK x \in T : \A y \in T : ~(<<y, x>> \in R)
  <2>1. T \subseteq Nat
    OBVIOUS
  <2> HIDE DEF T
  <2> QED
    BY <1>2, <2>1, WFMin
<1>4. x \in 0 .. n /\ x # 0 /\ x \notin S
  BY <1>3
<1>5. x - 1 \in 0 .. n - 1 /\ (x - 1) + 1 = x /\ x - 1 \in Nat /\ x \in Nat /\ x - 1 < x
  BY <1>4
<1>6. x - 1 \notin T
  BY <1>1, <1>3, <1>5
<1>7. x - 1 \in S
  BY <1>5, <1>6
<1> QED
  BY <1>4, <1>5, <1>7

(* The states a loop goes through over n positions.                         *)
IsRun(f, n, X, first, step) ==
    /\ f \in [0 .. n -> X]
    /\ f[0] = first
    /\ \A i \in 1 .. n : f[i] = step[i][f[i - 1]]

(* Every loop has such a run.                                               *)
LEMMA LoopRuns ==
  ASSUME NEW n \in Nat, NEW X, NEW first \in X, NEW step \in [1 .. n -> [X -> X]]
  PROVE  \E f : IsRun(f, n, X, first, step)
<1> DEFINE Run(m) == \E f \in [0 .. m -> X] :
                        f[0] = first /\ \A i \in 1 .. m : f[i] = step[i][f[i - 1]]
           S == {m \in 0 .. n : Run(m)}
<1>1. 0 \in S
  <2> DEFINE f == [i \in 0 .. 0 |-> first]
  <2>1. f \in [0 .. 0 -> X] /\ f[0] = first /\ \A i \in 1 .. 0 : f[i] = step[i][f[i - 1]]
    OBVIOUS
  <2> HIDE DEF f
  <2>2. 0 \in 0 .. n
    OBVIOUS
  <2> QED
    BY <2>1, <2>2
<1>2. ASSUME NEW m \in 0 .. n - 1, m \in S
      PROVE  m + 1 \in S
  <2>1. PICK f \in [0 .. m -> X] : f[0] = first /\ \A i \in 1 .. m : f[i] = step[i][f[i - 1]]
    BY <1>2
  <2> DEFINE g == [i \in 0 .. m + 1 |-> IF i <= m THEN f[i] ELSE step[m + 1][f[m]]]
  <2>2. step[m + 1][f[m]] \in X
    BY <2>1
  <2>3. g \in [0 .. m + 1 -> X]
    BY <2>1, <2>2
  <2>4. g[0] = first
    BY <2>1
  <2>5. ASSUME NEW i \in 1 .. m + 1
        PROVE  g[i] = step[i][g[i - 1]]
    <3>1. i - 1 \in 0 .. m /\ i - 1 \in 0 .. m + 1 /\ i \in 0 .. m + 1
      OBVIOUS
    <3>2. g[i - 1] = f[i - 1]
      BY <3>1
    <3>3. CASE i <= m
      <4>1. g[i] = f[i] /\ i \in 1 .. m
        BY <3>1, <3>3
      <4> HIDE DEF g
      <4> QED
        BY <2>1, <3>2, <4>1
    <3>4. CASE ~(i <= m)
      <4>1. i = m + 1 /\ i - 1 = m /\ g[i] = step[m + 1][f[m]]
        BY <3>1, <3>4
      <4> HIDE DEF g
      <4> QED
        BY <3>2, <4>1
    <3> QED
      BY <3>3, <3>4
  <2> HIDE DEF g
  <2>6. m + 1 \in 0 .. n
    OBVIOUS
  <2> QED
    BY <2>3, <2>4, <2>5, <2>6
<1> HIDE DEF S
<1>3. \A i \in 0 .. n : i \in S
  BY <1>1, <1>2, UpTo
<1> QED
  BY <1>3 DEF S, IsRun

(* What the first state of a loop is and each step keeps, every state is.   *)
LEMMA LoopKeeps ==
  ASSUME NEW n \in Nat, NEW X, NEW g, g = [i \in 0 .. n |-> g[i]], g[0] \in X,
         \A i \in 1 .. n : g[i - 1] \in X => g[i] \in X
  PROVE  g \in [0 .. n -> X]
<1> DEFINE S == {i \in 0 .. n : g[i] \in X}
<1>1. 0 \in S
  OBVIOUS
<1>2. ASSUME NEW i \in 0 .. n - 1, i \in S
      PROVE  i + 1 \in S
  <2>1. i + 1 \in 1 .. n /\ i + 1 \in 0 .. n /\ (i + 1) - 1 = i
    OBVIOUS
  <2>2. g[(i + 1) - 1] \in X => g[i + 1] \in X
    BY <2>1
  <2> QED
    BY <1>2, <2>1, <2>2
<1> HIDE DEF S
<1>3. \A i \in 0 .. n : i \in S
  BY <1>1, <1>2, UpTo
<1>4. \A i \in 0 .. n : g[i] \in X
  BY <1>3 DEF S
<1> QED
  BY <1>4

NatSpan == [offset : Nat, length : Nat \ {0}]

(* The cells and the end of a span.                                         *)
LEMMA SpanFacts ==
  ASSUME NEW s \in NatSpan
  PROVE  /\ s.offset \in Nat /\ End(s) \in Nat /\ s.offset < End(s)
         /\ s.length \in Nat /\ s.length > 0 /\ End(s) = s.offset + s.length
         /\ \A c : c \in CellsOf(s) <=> c \in Nat /\ s.offset <= c /\ c < End(s)
<1>1. s.offset \in Nat /\ s.length \in Nat /\ s.length > 0
  BY DEF NatSpan
<1>2. End(s) \in Nat /\ s.offset < End(s) /\ End(s) = s.offset + s.length
  BY <1>1 DEF End
<1>3. CellsOf(s) = s.offset .. End(s) - 1
  BY DEF CellsOf
<1> QED
  BY <1>1, <1>2, <1>3

(* The larger of two.                                                       *)
LEMMA MaxOfTwo ==
  ASSUME NEW a \in Int, NEW b \in Int
  PROVE  Max({a, b}) = IF a >= b THEN a ELSE b
<1> DEFINE m == IF a >= b THEN a ELSE b
<1>1. m \in {a, b} /\ \A y \in {a, b} : m >= y
  OBVIOUS
<1>2. \A x \in {a, b} : (\A y \in {a, b} : x >= y) => x = m
  OBVIOUS
<1> HIDE DEF m
<1>3. Max({a, b}) \in {a, b} /\ \A y \in {a, b} : Max({a, b}) >= y
  BY <1>1 DEF Max
<1> QED
  BY <1>2, <1>3 DEF m

(* A span joined to another reaches as far as either; one that begins       *)
(* inside the other, or right behind it, adds just its own cells.           *)
LEMMA JoinedFacts ==
  ASSUME NEW l \in NatSpan, NEW s \in NatSpan
  PROVE  /\ Joined(l, s) \in NatSpan
         /\ Joined(l, s).offset = l.offset
         /\ l.offset <= s.offset /\ s.offset <= End(l)
              => \A c : c \in CellsOf(Joined(l, s)) <=> c \in CellsOf(l) \/ c \in CellsOf(s)
<1> DEFINE m == Max({End(l), End(s)})
           j == [offset |-> l.offset, length |-> m - l.offset]
<1>1. m = IF End(l) >= End(s) THEN End(l) ELSE End(s)
  BY MaxOfTwo, SpanFacts
<1>2. Joined(l, s) = j
  BY DEF Joined, NatSpan
<1>3. m \in Nat /\ m > l.offset /\ m >= End(l) /\ m >= End(s) /\ (m = End(l) \/ m = End(s))
  BY <1>1, SpanFacts
<1> HIDE DEF m
<1>4. j \in NatSpan /\ j.offset = l.offset /\ End(j) = m
  <2>1. l.offset \in Nat
    BY SpanFacts
  <2>2. m - l.offset \in Nat \ {0} /\ l.offset + (m - l.offset) = m
    BY <1>3, <2>1
  <2> QED
    BY <2>1, <2>2 DEF NatSpan, End
<1> HIDE DEF j
<1>5. l.offset <= s.offset /\ s.offset <= End(l)
        => \A c : c \in CellsOf(j) <=> c \in CellsOf(l) \/ c \in CellsOf(s)
  BY <1>3, <1>4, SpanFacts
<1> QED
  BY <1>2, <1>4, <1>5

(* The last element of a sequence is one of its elements.                   *)
LEMMA LastElement ==
  ASSUME NEW X, NEW q \in Seq(X), Len(q) > 0
  PROVE  Last(q) = q[Len(q)] /\ Last(q) \in X
<1>1. Len(q) \in 1 .. Len(q)
  BY LenProperties
<1> QED
  BY <1>1, ElementOfSeq DEF Last

(* Replacing it leaves the others in their places.                          *)
LEMMA LastReplaced ==
  ASSUME NEW X, NEW q \in Seq(X), Len(q) > 0, NEW e \in X
  PROVE  /\ Append(Front(q), e) \in Seq(X)
         /\ Len(Append(Front(q), e)) = Len(q)
         /\ \A i \in 1 .. Len(q) : Append(Front(q), e)[i] = IF i = Len(q) THEN e ELSE q[i]
<1>1. Len(q) \in Nat /\ \A i \in 1 .. Len(q) : q[i] \in X
  BY LenProperties, ElementOfSeq
<1>3. /\ Front(q) \in Seq(X) /\ Len(Front(q)) = Len(q) - 1
      /\ \A i \in 1 .. Len(q) - 1 : Front(q)[i] = q[i]
  <2>1. \A i \in 1 .. Len(q) - 1 : q[i] \in X
    BY <1>1
  <2>2. /\ SubSeq(q, 1, Len(q) - 1) \in Seq(X)
        /\ Len(SubSeq(q, 1, Len(q) - 1)) =
              IF 1 <= Len(q) - 1 THEN (Len(q) - 1) - 1 + 1 ELSE 0
        /\ \A i \in 1 .. (Len(q) - 1) - 1 + 1 : SubSeq(q, 1, Len(q) - 1)[i] = q[1 + i - 1]
    BY <1>1, <2>1, SubSeqProperties
  <2>3. \A i \in 1 .. Len(q) - 1 : i \in 1 .. (Len(q) - 1) - 1 + 1 /\ 1 + i - 1 = i
    BY <1>1
  <2>4. \A i \in 1 .. Len(q) - 1 : SubSeq(q, 1, Len(q) - 1)[i] = q[i]
    BY <2>2, <2>3
  <2>5. (IF 1 <= Len(q) - 1 THEN (Len(q) - 1) - 1 + 1 ELSE 0) = Len(q) - 1
    <3>1. PICK n \in Nat : n = Len(q) /\ n > 0
      BY <1>1
    <3>2. (IF 1 <= n - 1 THEN (n - 1) - 1 + 1 ELSE 0) = n - 1
      BY <3>1
    <3> QED
      BY <3>1, <3>2
  <2>6. Len(SubSeq(q, 1, Len(q) - 1)) = Len(q) - 1
    BY <2>2, <2>5
  <2> QED
    BY <2>2, <2>4, <2>6 DEF Front
<1>4. /\ Append(Front(q), e) \in Seq(X)
      /\ Len(Append(Front(q), e)) = Len(Front(q)) + 1
      /\ \A i \in 1 .. Len(Front(q)) : Append(Front(q), e)[i] = Front(q)[i]
      /\ Append(Front(q), e)[Len(Front(q)) + 1] = e
  BY <1>3, AppendProperties
<1>5. Len(q) \in Nat /\ (Len(q) - 1) + 1 = Len(q)
  BY <1>1
<1>6. ASSUME NEW i \in 1 .. Len(q)
      PROVE  Append(Front(q), e)[i] = IF i = Len(q) THEN e ELSE q[i]
  <2>1. CASE i = Len(q)
    BY <1>3, <1>4, <1>5, <2>1
  <2>2. CASE i # Len(q)
    <3>1. i \in 1 .. Len(q) - 1
      BY <1>1, <2>2
    <3>2. i \in 1 .. Len(Front(q)) /\ Front(q)[i] = q[i]
      BY <1>3, <3>1
    <3> QED
      BY <1>4, <2>2, <3>2
  <2> QED
    BY <2>1, <2>2
<1> QED
  BY <1>3, <1>4, <1>5, <1>6

(* The cells a list covers up to one of its positions.                      *)
In(c, list, n) == \E i \in 1 .. n : c \in CellsOf(list[i])

(* One step of the merge returns spans.                                     *)
LEMMA MergeOneTyped ==
  ASSUME NEW out \in Seq(NatSpan), NEW s \in NatSpan
  PROVE  MergeOne(out, s) \in Seq(NatSpan)
<1>1. CASE Joins(out, s)
  <2>1. Len(out) > 0
    BY <1>1 DEF Joins
  <2>2. Joined(Last(out), s) \in NatSpan
    BY <2>1, LastElement, LastReplaced, JoinedFacts
  <2>3. MergeOne(out, s) = Append(Front(out), Joined(Last(out), s))
    BY <1>1, SpanFacts DEF MergeOne
  <2> QED
    BY <2>1, <2>2, <2>3, LastElement, LastReplaced
<1>2. CASE ~Joins(out, s)
  <2>1. MergeOne(out, s) = Append(out, s)
    BY <1>2, SpanFacts DEF MergeOne
  <2> QED
    BY <2>1, AppendProperties
<1> QED
  BY <1>1, <1>2

(* It keeps the spans apart and adds the cells of its span, when that       *)
(* begins no earlier than the last one.                                     *)
LEMMA MergeOneKeeps ==
  ASSUME NEW out \in Seq(NatSpan), NEW s \in NatSpan, Apart(out),
         Len(out) > 0 => Last(out).offset <= s.offset
  PROVE  /\ Apart(MergeOne(out, s))
         /\ Len(MergeOne(out, s)) > 0 => Last(MergeOne(out, s)).offset <= s.offset
         /\ \A c : In(c, MergeOne(out, s), Len(MergeOne(out, s)))
                     <=> In(c, out, Len(out)) \/ c \in CellsOf(s)
<1>1. PICK n \in Nat : n = Len(out) /\ \A i \in 1 .. n : out[i] \in NatSpan
  BY LenProperties, ElementOfSeq
<1>2. CASE Joins(out, s)
  <2>1. PICK l \in NatSpan : l = Last(out) /\ l = out[n] /\ n > 0
    BY <1>1, <1>2, LastElement, LastReplaced DEF Joins
  <2>2. PICK e \in NatSpan : e = Joined(l, s)
    BY <2>1, JoinedFacts
  <2>3. l.offset <= s.offset /\ s.offset <= End(l)
    BY <1>1, <1>2, <2>1 DEF Joins
  <2>4. e.offset = l.offset /\ \A c : c \in CellsOf(e) <=> c \in CellsOf(l) \/ c \in CellsOf(s)
    BY <2>2, <2>3, JoinedFacts
  <2>5. PICK q \in Seq(NatSpan) : q = Append(Front(out), e)
    BY <1>1, <2>1, LastElement, LastReplaced
  <2>6. Len(q) = n /\ \A i \in 1 .. n : q[i] = IF i = n THEN e ELSE out[i]
    BY <1>1, <2>1, <2>5, LastElement, LastReplaced
  <2>7. MergeOne(out, s) = q
    BY <1>2, <2>1, <2>2, <2>5, SpanFacts DEF MergeOne
  <2>8. Apart(q)
    <3> SUFFICES ASSUME NEW i \in 1 .. n - 1
                 PROVE  End(q[i]) < q[i + 1].offset
      BY <2>6 DEF Apart
    <3>1. i \in 1 .. n /\ i + 1 \in 1 .. n /\ i # n
      BY <1>1
    <3>2. End(out[i]) < out[i + 1].offset
      BY <1>1 DEF Apart
    <3>3. q[i + 1].offset = out[i + 1].offset
      BY <2>1, <2>4, <2>6, <3>1
    <3> QED
      BY <2>6, <3>1, <3>2, <3>3
  <2>9. Len(q) > 0 /\ Last(q) = e
    <3>1. n \in 1 .. n
      BY <2>1
    <3> QED
      BY <2>1, <2>6, <3>1, LastElement, LastReplaced
  <2>10. \A c : In(c, q, n) <=> In(c, out, n) \/ c \in CellsOf(s)
    <3> TAKE c
    <3>1. n \in 1 .. n
      BY <2>1
    <3>2. ASSUME NEW i \in 1 .. n, c \in CellsOf(q[i])
          PROVE  In(c, out, n) \/ c \in CellsOf(s)
      BY <2>1, <2>4, <2>6, <3>1, <3>2 DEF In
    <3>3. ASSUME NEW i \in 1 .. n, c \in CellsOf(out[i])
          PROVE  In(c, q, n)
      BY <2>1, <2>4, <2>6, <3>1, <3>3 DEF In
    <3>4. c \in CellsOf(s) => In(c, q, n)
      BY <2>4, <2>6, <3>1 DEF In
    <3> QED
      BY <3>2, <3>3, <3>4 DEF In
  <2> QED
    BY <1>1, <2>3, <2>4, <2>6, <2>7, <2>8, <2>9, <2>10
<1>3. CASE ~Joins(out, s)
  <2>1. PICK q \in Seq(NatSpan) : q = Append(out, s)
    BY AppendProperties
  <2>2. /\ Len(q) = n + 1 /\ q[n + 1] = s
        /\ \A i \in 1 .. n : q[i] = out[i]
    BY <1>1, <2>1, AppendProperties
  <2>3. MergeOne(out, s) = q
    BY <1>3, <2>1, SpanFacts DEF MergeOne
  <2>4. Apart(q)
    <3> SUFFICES ASSUME NEW i \in 1 .. n
                 PROVE  End(q[i]) < q[i + 1].offset
      BY <1>1, <2>2 DEF Apart
    <3>1. CASE i = n
      <4>1. End(Last(out)) < s.offset
        <5>1. n > 0 /\ Last(out) \in NatSpan
          BY <1>1, <3>1, LastElement, LastReplaced
        <5> QED
          BY <1>1, <1>3, <5>1, SpanFacts DEF Joins
      <4> QED
        <5>1. n > 0 /\ Last(out) = out[n]
          BY <1>1, <3>1, LastElement
        <5>2. q[i] = out[n] /\ q[i + 1] = s
          BY <2>2, <3>1
        <5> QED
          BY <4>1, <5>1, <5>2
    <3>2. CASE i # n
      <4>1. i \in 1 .. n - 1 /\ i + 1 \in 1 .. n
        BY <1>1, <3>2
      <4> QED
        BY <1>1, <2>2, <4>1 DEF Apart
    <3> QED
      BY <3>1, <3>2
  <2>5. Len(q) > 0 /\ Last(q) = s
    BY <2>2, LastElement
  <2>6. \A c : In(c, q, n + 1) <=> In(c, out, n) \/ c \in CellsOf(s)
    <3> TAKE c
    <3>1. \A i \in 1 .. n + 1 : i \in 1 .. n \/ i = n + 1
      BY <1>1
    <3>2. n + 1 \in 1 .. n + 1 /\ \A i \in 1 .. n : i \in 1 .. n + 1
      BY <1>1
    <3> QED
      BY <2>2, <3>1, <3>2 DEF In
  <2> QED
    BY <1>1, <2>2, <2>3, <2>4, <2>5, <2>6, SpanFacts
<1> QED
  BY <1>2, <1>3

(* mergeSpans() steps through its list.                                     *)
LEMMA MergeLoop ==
  ASSUME NEW list \in Seq(NatSpan)
  PROVE  \E f \in [0 .. Len(list) -> Seq(NatSpan)] :
            /\ f[0] = <<>>
            /\ \A i \in 1 .. Len(list) : f[i] = MergeOne(f[i - 1], list[i])
            /\ MergeSpans(list) = f[Len(list)]
<1>1. PICK n \in Nat : n = Len(list) /\ \A i \in 1 .. n : list[i] \in NatSpan
  BY LenProperties, ElementOfSeq
<1> DEFINE step == [i \in 1 .. n |-> [o \in Seq(NatSpan) |-> MergeOne(o, list[i])]]
           Body(f) == [i \in 0 .. Len(list) |-> IF i = 0 THEN <<>> ELSE MergeOne(f[i - 1], list[i])]
           g == CHOOSE f : f = Body(f)
<1>2. step \in [1 .. n -> [Seq(NatSpan) -> Seq(NatSpan)]]
  BY <1>1, MergeOneTyped
<1>3. \A i \in 1 .. n : \A o \in Seq(NatSpan) : step[i][o] = MergeOne(o, list[i])
  OBVIOUS
<1>4. <<>> \in Seq(NatSpan)
  OBVIOUS
<1> HIDE DEF step
<1>5. PICK f \in [0 .. n -> Seq(NatSpan)] :
          f[0] = <<>> /\ \A i \in 1 .. n : f[i] = step[i][f[i - 1]]
  <2>1. \E f : IsRun(f, n, Seq(NatSpan), <<>>, step)
    BY <1>2, <1>4, LoopRuns
  <2> QED
    BY <2>1 DEF IsRun
<1>6. f = Body(f)
  <2>1. \A i \in 1 .. n : i - 1 \in 0 .. n /\ f[i - 1] \in Seq(NatSpan)
    BY <1>5
  <2>2. \A i \in 0 .. n : f[i] = IF i = 0 THEN <<>> ELSE MergeOne(f[i - 1], list[i])
    <3> TAKE i \in 0 .. n
    <3>1. i = 0 \/ i \in 1 .. n
      OBVIOUS
    <3> QED
      BY <1>3, <1>5, <2>1, <3>1
  <2> QED
    BY <1>1, <1>5, <2>2
<1>7. g = Body(g)
  <2> HIDE DEF Body
  <2> QED
    BY <1>6
<1>8. MergeSpans(list) = g[Len(list)]
  BY DEF MergeSpans
<1> HIDE DEF g
<1>9. g[0] = <<>> /\ \A i \in 1 .. n : g[i] = MergeOne(g[i - 1], list[i])
  <2>1. \A i \in 0 .. n : g[i] = IF i = 0 THEN <<>> ELSE MergeOne(g[i - 1], list[i])
    BY <1>1, <1>7
  <2>2. 0 \in 0 .. n /\ \A i \in 1 .. n : i \in 0 .. n /\ i # 0
    OBVIOUS
  <2> QED
    BY <2>1, <2>2
<1>10. g \in [0 .. n -> Seq(NatSpan)]
  <2>1. g = [i \in 0 .. n |-> g[i]]
    BY <1>1, <1>7
  <2>2. \A i \in 1 .. n : g[i - 1] \in Seq(NatSpan) => g[i] \in Seq(NatSpan)
    BY <1>1, <1>9, MergeOneTyped
  <2>3. g[0] \in Seq(NatSpan)
    BY <1>4, <1>9
  <2> HIDE DEF Body
  <2> QED
    BY <1>1, <2>1, <2>2, <2>3, LoopKeeps
<1> HIDE DEF Body
<1> QED
  BY <1>1, <1>8, <1>9, <1>10

(* The cells of a list up to the next position are those up to this one and *)
(* those of the span there.                                                 *)
LEMMA OneMore ==
  ASSUME NEW list, NEW n \in Nat, NEW c
  PROVE  In(c, list, n + 1) <=> In(c, list, n) \/ c \in CellsOf(list[n + 1])
<1>1. \A i \in 1 .. n + 1 : i \in 1 .. n \/ i = n + 1
  OBVIOUS
<1>2. n + 1 \in 1 .. n + 1 /\ \A i \in 1 .. n : i \in 1 .. n + 1
  OBVIOUS
<1> QED
  BY <1>1, <1>2 DEF In

(* What mergeSpans() returns for a list in order of offset.                 *)
LEMMA MergeFacts ==
  ASSUME NEW list \in Seq(NatSpan),
         \A i, j \in 1 .. Len(list) : i < j => list[i].offset <= list[j].offset
  PROVE  /\ MergeSpans(list) \in Seq(NatSpan)
         /\ Apart(MergeSpans(list))
         /\ \A c : In(c, MergeSpans(list), Len(MergeSpans(list))) <=> In(c, list, Len(list))
<1>1. PICK n \in Nat : n = Len(list) /\ \A i \in 1 .. n : list[i] \in NatSpan
  BY LenProperties, ElementOfSeq
<1>2. PICK f \in [0 .. n -> Seq(NatSpan)] :
          /\ f[0] = <<>>
          /\ \A i \in 1 .. n : f[i] = MergeOne(f[i - 1], list[i])
          /\ MergeSpans(list) = f[n]
  BY <1>1, MergeLoop
<1> DEFINE Kept(i) == /\ Apart(f[i])
                      /\ i > 0 /\ Len(f[i]) > 0 => Last(f[i]).offset <= list[i].offset
                      /\ \A c : In(c, f[i], Len(f[i])) <=> In(c, list, i)
           S == {i \in 0 .. n : Kept(i)}
<1>3. Kept(0)
  <2>1. Len(<<>>) = 0
    OBVIOUS
  <2> QED
    BY <1>2, <2>1 DEF Apart, In
<1>4. ASSUME NEW i \in 0 .. n - 1, Kept(i)
      PROVE  Kept(i + 1)
  <2>1. i \in Nat /\ i \in 0 .. n /\ i + 1 \in 1 .. n /\ i + 1 \in 0 .. n /\ (i + 1) - 1 = i
    BY <1>1
  <2>2. PICK s \in NatSpan : s = list[i + 1]
    BY <1>1, <2>1
  <2>3. PICK out \in Seq(NatSpan) : out = f[i]
    BY <1>2, <2>1
  <2>4. f[i + 1] = MergeOne(out, s)
    BY <1>2, <2>1, <2>2, <2>3
  <2>5. Len(out) > 0 => Last(out).offset <= s.offset
    <3>1. CASE i = 0
      BY <1>2, <2>3, <3>1
    <3>2. CASE i # 0
      <4>1. i > 0 /\ i \in 1 .. n /\ i < i + 1
        BY <2>1, <3>2
      <4>2. list[i].offset <= list[i + 1].offset
        BY <1>1, <2>1, <4>1
      <4>3. ASSUME Len(out) > 0
            PROVE  Last(out).offset <= s.offset
        <5>1. Last(out).offset <= list[i].offset
          BY <1>4, <2>3, <4>1, <4>3
        <5>2. list[i] \in NatSpan /\ Last(out) \in NatSpan
          BY <1>1, <4>1, <4>3, LastElement
        <5>3. list[i].offset \in Nat /\ s.offset \in Nat /\ Last(out).offset \in Nat
          BY <5>2, SpanFacts
        <5> QED
          BY <2>2, <4>2, <5>1, <5>3
      <4> QED
        BY <4>3
    <3> QED
      BY <3>1, <3>2
  <2>6. /\ Apart(MergeOne(out, s))
        /\ Len(MergeOne(out, s)) > 0 => Last(MergeOne(out, s)).offset <= s.offset
        /\ \A c : In(c, MergeOne(out, s), Len(MergeOne(out, s)))
                    <=> In(c, out, Len(out)) \/ c \in CellsOf(s)
    BY <1>4, <2>3, <2>5, MergeOneKeeps
  <2>7. \A c : In(c, f[i + 1], Len(f[i + 1])) <=> In(c, list, i + 1)
    BY <1>4, <2>1, <2>2, <2>3, <2>4, <2>6, OneMore
  <2> QED
    BY <2>2, <2>4, <2>6, <2>7
<1> HIDE DEF Kept
<1>5. 0 \in S
  BY <1>1, <1>3
<1>6. ASSUME NEW i \in 0 .. n - 1, i \in S
      PROVE  i + 1 \in S
  <2>1. i + 1 \in 0 .. n
    BY <1>1
  <2> QED
    BY <1>4, <1>6, <2>1
<1> HIDE DEF S
<1>7. \A i \in 0 .. n : i \in S
  BY <1>1, <1>5, <1>6, UpTo
<1>8. Kept(n) /\ n \in 0 .. n
  BY <1>1, <1>7 DEF S
<1> QED
  <2>1. f[n] \in Seq(NatSpan)
    BY <1>2, <1>8
  <2> QED
    BY <1>1, <1>2, <1>8, <2>1 DEF Kept

Scan == [gaps : Seq(NatSpan), cursor : Nat]

(* One step of the scan appends a gap of at least a cell and moves the      *)
(* cursor on.                                                               *)
LEMMA MissOneTyped ==
  ASSUME NEW seen \in Scan, NEW s \in NatSpan
  PROVE  MissOne(seen, s) \in Scan
<1>1. seen.gaps \in Seq(NatSpan) /\ seen.cursor \in Nat
  BY DEF Scan
<1>2. s.offset > seen.cursor => Gap(seen.cursor, s.offset) \in NatSpan
  BY <1>1, SpanFacts DEF Gap, NatSpan
<1>3. s.offset > seen.cursor => Append(seen.gaps, Gap(seen.cursor, s.offset)) \in Seq(NatSpan)
  BY <1>1, <1>2, AppendProperties
<1>4. Max({seen.cursor, End(s)}) \in Nat
  BY <1>1, MaxOfTwo, SpanFacts
<1> QED
  BY <1>1, <1>3, <1>4 DEF MissOne, Scan

(* Appending a gap behind the others.                                       *)
LEMMA GapAppended ==
  ASSUME NEW gaps \in Seq(NatSpan), NEW from \in Nat, NEW to \in Nat, from < to, Apart(gaps),
         Len(gaps) > 0 => End(Last(gaps)) < from
  PROVE  /\ Append(gaps, Gap(from, to)) \in Seq(NatSpan)
         /\ Apart(Append(gaps, Gap(from, to)))
         /\ Last(Append(gaps, Gap(from, to))) = Gap(from, to)
         /\ Gap(from, to) \in NatSpan /\ End(Gap(from, to)) = to
         /\ \A c : In(c, Append(gaps, Gap(from, to)), Len(Append(gaps, Gap(from, to))))
                     <=> In(c, gaps, Len(gaps)) \/ (c \in Nat /\ from <= c /\ c < to)
<1>1. PICK n \in Nat : n = Len(gaps) /\ \A i \in 1 .. n : gaps[i] \in NatSpan
  BY LenProperties, ElementOfSeq
<1>2. PICK g \in NatSpan : g = Gap(from, to) /\ g.offset = from /\ End(g) = to
  <2>1. to - from \in Nat \ {0} /\ from + (to - from) = to
    OBVIOUS
  <2>2. Gap(from, to) \in NatSpan
    BY <2>1 DEF Gap, NatSpan
  <2>3. Gap(from, to).offset = from /\ Gap(from, to).length = to - from
    BY DEF Gap
  <2> QED
    BY <2>1, <2>2, <2>3 DEF End
<1>3. PICK q \in Seq(NatSpan) : q = Append(gaps, g)
  BY AppendProperties
<1>4. /\ Len(q) = n + 1 /\ q[n + 1] = g
      /\ \A i \in 1 .. n : q[i] = gaps[i]
  BY <1>1, <1>3, AppendProperties
<1>5. Apart(q)
  <2> SUFFICES ASSUME NEW i \in 1 .. n
               PROVE  End(q[i]) < q[i + 1].offset
    BY <1>1, <1>4 DEF Apart
  <2>1. CASE i = n
    <3>1. n > 0 /\ Last(gaps) = gaps[n]
      BY <1>1, <2>1, LastElement
    <3>2. q[i] = gaps[n] /\ q[i + 1] = g
      BY <1>4, <2>1
    <3> QED
      BY <1>1, <1>2, <3>1, <3>2
  <2>2. CASE i # n
    <3>1. i \in 1 .. n - 1 /\ i + 1 \in 1 .. n
      BY <1>1, <2>2
    <3> QED
      BY <1>1, <1>4, <3>1 DEF Apart
  <2> QED
    BY <2>1, <2>2
<1>6. Last(q) = g
  BY <1>4, LastElement
<1>7. \A c : In(c, q, n + 1) <=> In(c, gaps, n) \/ c \in CellsOf(g)
  <2> TAKE c
  <2>1. In(c, q, n) <=> In(c, gaps, n)
    BY <1>4 DEF In
  <2> QED
    BY <1>1, <1>4, <2>1, OneMore
<1> QED
  BY <1>1, <1>2, <1>3, <1>4, <1>5, <1>6, <1>7, SpanFacts

(* missingSpans() steps through its list.                                   *)
LEMMA MissingLoop ==
  ASSUME NEW list \in Seq(NatSpan), NEW size
  PROVE  \E f \in [0 .. Len(list) -> Scan] :
            /\ f[0] = [gaps |-> <<>>, cursor |-> 0]
            /\ \A i \in 1 .. Len(list) : f[i] = MissOne(f[i - 1], list[i])
            /\ MissingSpans(list, size)
                 = IF f[Len(list)].cursor < size
                   THEN Append(f[Len(list)].gaps, Gap(f[Len(list)].cursor, size))
                   ELSE f[Len(list)].gaps
<1>1. PICK n \in Nat : n = Len(list) /\ \A i \in 1 .. n : list[i] \in NatSpan
  BY LenProperties, ElementOfSeq
<1> DEFINE first == [gaps |-> <<>>, cursor |-> 0]
           step == [i \in 1 .. n |-> [o \in Scan |-> MissOne(o, list[i])]]
           Body(f) == [i \in 0 .. Len(list) |-> IF i = 0 THEN first ELSE MissOne(f[i - 1], list[i])]
           g == CHOOSE f : f = Body(f)
<1>2. step \in [1 .. n -> [Scan -> Scan]]
  BY <1>1, MissOneTyped
<1>3. \A i \in 1 .. n : \A o \in Scan : step[i][o] = MissOne(o, list[i])
  OBVIOUS
<1>4. first \in Scan
  BY DEF Scan
<1> HIDE DEF step
<1>5. PICK f \in [0 .. n -> Scan] :
          f[0] = first /\ \A i \in 1 .. n : f[i] = step[i][f[i - 1]]
  <2>1. \E f : IsRun(f, n, Scan, first, step)
    BY <1>2, <1>4, LoopRuns
  <2> QED
    BY <2>1 DEF IsRun
<1>6. f = Body(f)
  <2>1. \A i \in 1 .. n : i - 1 \in 0 .. n /\ f[i - 1] \in Scan
    BY <1>5
  <2>2. \A i \in 0 .. n : f[i] = IF i = 0 THEN first ELSE MissOne(f[i - 1], list[i])
    <3> TAKE i \in 0 .. n
    <3>1. i = 0 \/ i \in 1 .. n
      OBVIOUS
    <3> QED
      BY <1>3, <1>5, <2>1, <3>1
  <2> QED
    BY <1>1, <1>5, <2>2
<1>7. g = Body(g)
  <2> HIDE DEF Body
  <2> QED
    BY <1>6
<1>8. MissingSpans(list, size)
        = IF g[Len(list)].cursor < size
          THEN Append(g[Len(list)].gaps, Gap(g[Len(list)].cursor, size))
          ELSE g[Len(list)].gaps
  BY DEF MissingSpans
<1> HIDE DEF g
<1>9. g[0] = first /\ \A i \in 1 .. n : g[i] = MissOne(g[i - 1], list[i])
  <2>1. \A i \in 0 .. n : g[i] = IF i = 0 THEN first ELSE MissOne(g[i - 1], list[i])
    BY <1>1, <1>7
  <2>2. 0 \in 0 .. n /\ \A i \in 1 .. n : i \in 0 .. n /\ i # 0
    OBVIOUS
  <2> QED
    BY <2>1, <2>2
<1>10. g \in [0 .. n -> Scan]
  <2>1. g = [i \in 0 .. n |-> g[i]]
    BY <1>1, <1>7
  <2>2. \A i \in 1 .. n : g[i - 1] \in Scan => g[i] \in Scan
    BY <1>1, <1>9, MissOneTyped
  <2>3. g[0] \in Scan
    BY <1>4, <1>9
  <2> HIDE DEF Body, first
  <2> QED
    BY <1>1, <2>1, <2>2, <2>3, LoopKeeps
<1> HIDE DEF Body
<1> QED
  BY <1>1, <1>8, <1>9, <1>10

(* What missingSpans() returns for spans that are apart and end by the size.*)
LEMMA MissingFacts ==
  ASSUME NEW list \in Seq(NatSpan), NEW size \in Nat, Apart(list),
         \A i \in 1 .. Len(list) : End(list[i]) <= size
  PROVE  /\ MissingSpans(list, size) \in Seq(NatSpan)
         /\ Apart(MissingSpans(list, size))
         /\ \A c : In(c, MissingSpans(list, size), Len(MissingSpans(list, size)))
                     <=> c \in 0 .. size - 1 /\ ~In(c, list, Len(list))
<1>1. PICK n \in Nat : n = Len(list) /\ \A i \in 1 .. n : list[i] \in NatSpan
  BY LenProperties, ElementOfSeq
<1>2. PICK f \in [0 .. n -> Scan] :
          /\ f[0] = [gaps |-> <<>>, cursor |-> 0]
          /\ \A i \in 1 .. n : f[i] = MissOne(f[i - 1], list[i])
          /\ MissingSpans(list, size)
               = IF f[n].cursor < size THEN Append(f[n].gaps, Gap(f[n].cursor, size))
                                       ELSE f[n].gaps
  BY <1>1, MissingLoop
<1> DEFINE Kept(i) ==
      /\ f[i].cursor = IF i = 0 THEN 0 ELSE End(list[i])
      /\ Apart(f[i].gaps)
      /\ Len(f[i].gaps) > 0 => End(Last(f[i].gaps)) < f[i].cursor
      /\ \A c : In(c, list, i) => c \in Nat /\ c < f[i].cursor
      /\ \A c : In(c, f[i].gaps, Len(f[i].gaps))
                 <=> c \in Nat /\ c < f[i].cursor /\ ~In(c, list, i)
           S == {i \in 0 .. n : Kept(i)}
<1>3. Kept(0)
  <2>1. Len(<<>>) = 0 /\ f[0].gaps = <<>> /\ f[0].cursor = 0
    BY <1>2
  <2>2. \A c : ~(c \in Nat /\ c < 0)
    OBVIOUS
  <2> QED
    BY <2>1, <2>2 DEF Apart, In
<1>4. ASSUME NEW i \in 0 .. n - 1, Kept(i)
      PROVE  Kept(i + 1)
  <2>1. i \in Nat /\ i \in 0 .. n /\ i + 1 \in 1 .. n /\ i + 1 \in 0 .. n /\ (i + 1) - 1 = i
    BY <1>1
  <2>2. PICK s \in NatSpan : s = list[i + 1]
    BY <1>1, <2>1
  <2>3. PICK gaps \in Seq(NatSpan), cursor \in Nat :
            f[i] \in Scan /\ gaps = f[i].gaps /\ cursor = f[i].cursor
    BY <1>2, <2>1 DEF Scan
  <2>4. cursor <= s.offset
    <3>1. CASE i = 0
      BY <1>2, <2>3, <3>1, SpanFacts
    <3>2. CASE i # 0
      <4>1. i \in 1 .. Len(list) - 1 /\ i \in 1 .. n
        BY <1>1, <2>1, <3>2
      <4>2. End(list[i]) < list[i + 1].offset
        BY <4>1 DEF Apart
      <4>3. cursor = End(list[i])
        BY <1>4, <2>3, <3>2
      <4> QED
        BY <2>2, <4>2, <4>3, SpanFacts
    <3> QED
      BY <3>1, <3>2
  <2>5. /\ f[i + 1].cursor = Max({cursor, End(s)})
        /\ f[i + 1].gaps = IF s.offset > cursor THEN Append(gaps, Gap(cursor, s.offset)) ELSE gaps
    <3>1. f[i + 1] = MissOne(f[i], s)
      BY <1>2, <2>1, <2>2
    <3>2. /\ MissOne(f[i], s).cursor = Max({f[i].cursor, End(s)})
          /\ MissOne(f[i], s).gaps = IF s.offset > f[i].cursor
                                     THEN Append(f[i].gaps, Gap(f[i].cursor, s.offset))
                                     ELSE f[i].gaps
      BY DEF MissOne
    <3> QED
      BY <2>3, <3>1, <3>2
  <2>6. f[i + 1].cursor = End(s)
    <3>1. cursor \in Int /\ End(s) \in Int /\ cursor <= End(s)
      BY <2>4, SpanFacts
    <3>2. Max({cursor, End(s)}) = End(s)
      BY <3>1, MaxOfTwo
    <3> QED
      BY <2>5, <3>2
  <2>7. PICK more \in Seq(NatSpan) : more = f[i + 1].gaps
    BY <1>2, <2>1 DEF Scan
  <2>8. /\ Apart(gaps)
        /\ Len(gaps) > 0 => End(Last(gaps)) < cursor
        /\ \A c : In(c, list, i) => c \in Nat /\ c < cursor
        /\ \A c : In(c, gaps, Len(gaps)) <=> c \in Nat /\ c < cursor /\ ~In(c, list, i)
    BY <1>4, <2>3
  <2>9. /\ Apart(more)
        /\ Len(more) > 0 => End(Last(more)) < End(s)
        /\ \A c : In(c, more, Len(more))
                    <=> In(c, gaps, Len(gaps)) \/ (c \in Nat /\ cursor <= c /\ c < s.offset)
    <3>1. CASE s.offset > cursor
      BY <2>5, <2>7, <2>8, <3>1, GapAppended, SpanFacts
    <3>2. CASE ~(s.offset > cursor)
      <4>1. more = gaps /\ s.offset = cursor
        BY <2>4, <2>5, <2>7, <3>2, SpanFacts
      <4>2. Len(gaps) > 0 => End(Last(gaps)) < End(s)
        <5> SUFFICES ASSUME Len(gaps) > 0
                     PROVE  End(Last(gaps)) < End(s)
          OBVIOUS
        <5>1. Last(gaps) \in NatSpan
          BY LastElement
        <5> QED
          BY <2>8, <4>1, <5>1, SpanFacts
      <4>3. \A c : ~(c \in Nat /\ cursor <= c /\ c < s.offset)
        BY <4>1
      <4> QED
        BY <2>8, <4>1, <4>2, <4>3
    <3> QED
      BY <3>1, <3>2
  <2>10. \A c : In(c, list, i + 1) <=> In(c, list, i) \/ c \in CellsOf(s)
    BY <2>1, <2>2, OneMore
  <2>11. \A c : In(c, list, i + 1) => c \in Nat /\ c < End(s)
    BY <2>4, <2>8, <2>10, SpanFacts
  <2>12. \A c : In(c, more, Len(more)) <=> c \in Nat /\ c < End(s) /\ ~In(c, list, i + 1)
    <3> TAKE c
    <3>1. CASE c \in Nat
      <4>1. c \in CellsOf(s) <=> s.offset <= c /\ c < End(s)
        BY <3>1, SpanFacts
      <4>2. s.offset \in Nat /\ End(s) \in Nat /\ s.offset < End(s)
        BY SpanFacts
      <4>3. In(c, gaps, Len(gaps)) <=> c < cursor /\ ~In(c, list, i)
        BY <2>8, <3>1
      <4>4. In(c, list, i) => c < cursor
        BY <2>8
      <4>5. In(c, more, Len(more)) <=> In(c, gaps, Len(gaps)) \/ (cursor <= c /\ c < s.offset)
        BY <2>9, <3>1
      <4> QED
        BY <2>4, <2>10, <3>1, <4>1, <4>2, <4>3, <4>4, <4>5
    <3>2. CASE c \notin Nat
      BY <2>8, <2>9, <3>2
    <3> QED
      BY <3>1, <3>2
  <2> QED
    BY <2>1, <2>2, <2>6, <2>7, <2>9, <2>11, <2>12
<1> HIDE DEF Kept
<1>5. 0 \in S
  BY <1>1, <1>3
<1>6. ASSUME NEW i \in 0 .. n - 1, i \in S
      PROVE  i + 1 \in S
  <2>1. i + 1 \in 0 .. n
    BY <1>1
  <2> QED
    BY <1>4, <1>6, <2>1
<1> HIDE DEF S
<1>7. \A i \in 0 .. n : i \in S
  BY <1>1, <1>5, <1>6, UpTo
<1>8. Kept(n) /\ n \in 0 .. n
  BY <1>1, <1>7 DEF S
<1>9. PICK gaps \in Seq(NatSpan), cursor \in Nat : gaps = f[n].gaps /\ cursor = f[n].cursor
  BY <1>2, <1>8 DEF Scan
<1>10. /\ cursor <= size /\ Apart(gaps)
       /\ Len(gaps) > 0 => End(Last(gaps)) < cursor
       /\ \A c : In(c, list, n) => c \in Nat /\ c < cursor
       /\ \A c : In(c, gaps, Len(gaps)) <=> c \in Nat /\ c < cursor /\ ~In(c, list, n)
  <2>1. n \in 1 .. n \/ n = 0
    BY <1>1
  <2>2. cursor <= size
    BY <1>1, <1>8, <1>9, <2>1 DEF Kept
  <2> QED
    BY <1>8, <1>9, <2>2 DEF Kept
<1>11. CASE cursor < size
  <2>1. MissingSpans(list, size) = Append(gaps, Gap(cursor, size))
    BY <1>2, <1>9, <1>11
  <2>2. /\ Append(gaps, Gap(cursor, size)) \in Seq(NatSpan)
        /\ Apart(Append(gaps, Gap(cursor, size)))
        /\ \A c : In(c, Append(gaps, Gap(cursor, size)), Len(Append(gaps, Gap(cursor, size))))
                     <=> In(c, gaps, Len(gaps)) \/ (c \in Nat /\ cursor <= c /\ c < size)
    BY <1>10, <1>11, GapAppended
  <2>3. \A c : c \in 0 .. size - 1 /\ ~In(c, list, n)
               <=> In(c, gaps, Len(gaps)) \/ (c \in Nat /\ cursor <= c /\ c < size)
    <3> TAKE c
    <3>1. c \in 0 .. size - 1 <=> c \in Nat /\ c < size
      OBVIOUS
    <3>2. CASE c \in Nat
      BY <1>10, <1>11, <3>1, <3>2
    <3>3. CASE c \notin Nat
      BY <1>10, <3>1, <3>3
    <3> QED
      BY <3>2, <3>3
  <2> QED
    BY <1>1, <2>1, <2>2, <2>3
<1>12. CASE ~(cursor < size)
  <2>1. MissingSpans(list, size) = gaps /\ cursor = size
    BY <1>2, <1>9, <1>10, <1>12
  <2>2. \A c : c \in 0 .. size - 1 <=> c \in Nat /\ c < cursor
    BY <2>1
  <2> QED
    BY <1>1, <1>10, <2>1, <2>2
<1> QED
  BY <1>11, <1>12

(* There are finitely many spans within the size, so any set of them has    *)
(* its listings.                                                            *)
LEMMA SpansFinite == IsFiniteSet(Spans) /\ Spans \subseteq NatSpan
<1> DEFINE P == (0 .. Size - 1) \X (1 .. Size)
           R == [offset : 0 .. Size - 1, length : 1 .. Size]
           f == [p \in P |-> [offset |-> p[1], length |-> p[2]]]
<1>1. Size \in Nat
  BY UploadAssumption
<1>2. IsFiniteSet(0 .. Size - 1) /\ IsFiniteSet(1 .. Size)
  <2>1. 0 \in Int /\ Size - 1 \in Int /\ 1 \in Int /\ Size \in Int
    BY <1>1
  <2> QED
    BY <2>1, FS_Interval
<1>3. IsFiniteSet(P)
  BY <1>2, FS_Product
<1>4. f \in Surjection(P, R)
  <2>1. f \in [P -> R]
    OBVIOUS
  <2>2. \A r \in R : \E p \in P : f[p] = r
    <3> TAKE r \in R
    <3>1. <<r.offset, r.length>> \in P /\ f[<<r.offset, r.length>>] = r
      OBVIOUS
    <3> QED
      BY <3>1
  <2> HIDE DEF f, P, R
  <2> QED
    BY <2>1, <2>2 DEF Surjection
<1>5. IsFiniteSet(R)
  <2> HIDE DEF f, P, R
  <2> QED
    BY <1>3, <1>4, FS_Surjection
<1>6. Spans \subseteq R
  BY DEF Spans, Cells
<1>7. IsFiniteSet(Spans)
  <2> HIDE DEF R
  <2> QED
    BY <1>5, <1>6, FS_Subset
<1>8. R \subseteq NatSpan
  BY <1>1 DEF NatSpan
<1> QED
  BY <1>6, <1>7, <1>8

(* A sorted listing of a set of spans, its merge, and what is missing.      *)
LEMMA ListedFacts ==
  ASSUME NEW spans \in SUBSET Spans, NEW list \in Sorted(spans)
  PROVE  /\ CoveredBy(MergeSpans(list)) = Covered(spans)
         /\ Apart(MergeSpans(list))
         /\ MissingSpans(MergeSpans(list), Size) \in Seq(NatSpan)
         /\ CoveredBy(MissingSpans(MergeSpans(list), Size)) = (0 .. Size - 1) \ Covered(spans)
         /\ Apart(MissingSpans(MergeSpans(list), Size))
<1>1. PICK n \in Nat : n = Cardinality(spans)
  BY SpansFinite, FS_Subset, FS_CardinalityType
<1>2. /\ list \in [1 .. n -> spans]
      /\ \A s \in spans : \E i \in 1 .. n : list[i] = s
      /\ \A i, j \in 1 .. n : i < j => list[i].offset <= list[j].offset
  BY <1>1 DEF Sorted
<1>3. \A i \in 1 .. n : list[i] \in NatSpan
  BY <1>2, SpansFinite
<1>4. list \in Seq(NatSpan) /\ Len(list) = n
  BY <1>1, <1>2, <1>3
<1>5. \A q \in Seq(NatSpan) : \A c : In(c, q, Len(q)) <=> c \in CoveredBy(q)
  <2> TAKE q \in Seq(NatSpan)
  <2>1. DOMAIN q = 1 .. Len(q)
    BY LenProperties
  <2> QED
    BY <2>1 DEF In, CoveredBy, Covered
<1>6. \A c : In(c, list, n) <=> c \in Covered(spans)
  BY <1>2 DEF In, Covered
<1>7. PICK merged \in Seq(NatSpan) :
          /\ merged = MergeSpans(list)
          /\ Apart(merged)
          /\ \A c : In(c, merged, Len(merged)) <=> In(c, list, n)
  BY <1>2, <1>4, MergeFacts
<1>8. CoveredBy(merged) = Covered(spans)
  BY <1>5, <1>6, <1>7
<1>9. Size \in Nat /\ \A i \in 1 .. Len(merged) : End(merged[i]) <= Size
  <2>1. Size \in Nat
    BY UploadAssumption
  <2> SUFFICES ASSUME NEW i \in 1 .. Len(merged)
               PROVE  End(merged[i]) <= Size
    BY <2>1
  <2>2. PICK m \in NatSpan : m = merged[i]
    BY ElementOfSeq
  <2>3. End(m) - 1 \in CellsOf(m)
    BY SpanFacts
  <2>4. In(End(m) - 1, list, n)
    BY <1>7, <2>2, <2>3 DEF In
  <2>5. PICK s \in Spans : End(m) - 1 \in CellsOf(s)
    BY <1>2, <2>4 DEF In
  <2>6. End(s) <= Size /\ End(m) - 1 < End(s) /\ End(s) \in Nat /\ End(m) \in Nat
    BY <2>5, SpanFacts, SpansFinite DEF Spans
  <2> QED
    BY <2>1, <2>2, <2>6
<1>10. PICK missing \in Seq(NatSpan) :
          /\ missing = MissingSpans(merged, Size)
          /\ Apart(missing)
          /\ \A c : In(c, missing, Len(missing))
                      <=> c \in 0 .. Size - 1 /\ ~In(c, merged, Len(merged))
  BY <1>7, <1>9, MissingFacts
<1>11. CoveredBy(missing) = (0 .. Size - 1) \ Covered(spans)
  BY <1>5, <1>6, <1>7, <1>10
<1> QED
  BY <1>7, <1>8, <1>10, <1>11

(* mergeSpans() and missingSpans() compute the union of the durable ranges  *)
(* and its complement, in order and without overlap, whatever ranges the    *)
(* segments left and in whichever order the directory lists them.           *)
THEOREM SpansAreExact == Spec => []SpansExact
<1>1. TypeOK => SpansExact
  <2> SUFFICES ASSUME TypeOK
               PROVE  SpansExact
    OBVIOUS
  <2>1. markers \in SUBSET Spans
    BY DEF TypeOK, Shapes
  <2> QED
    BY <2>1, ListedFacts DEF SpansExact, MergesExactly, MissesExactly
<1> QED
  BY <1>1, TypeCorrect, PTL

(* finalize() refuses while a range is missing: for the cells of the model  *)
(* that is the emptiness of what the markers leave uncovered.               *)
THEOREM NothingMissing ==
  ASSUME NEW spans \in SUBSET Spans, NEW list \in Sorted(spans)
  PROVE  MissingSpans(MergeSpans(list), Size) = <<>> <=> Cells \ Covered(spans) = {}
<1>1. PICK missing \in Seq(NatSpan) :
          /\ missing = MissingSpans(MergeSpans(list), Size)
          /\ CoveredBy(missing) = Cells \ Covered(spans)
  BY ListedFacts DEF Cells
<1>2. CASE missing = <<>>
  BY <1>1, <1>2 DEF CoveredBy, Covered
<1>3. CASE missing # <<>>
  <2>1. Len(missing) \in Nat /\ Len(missing) # 0 /\ DOMAIN missing = 1 .. Len(missing)
    BY <1>3, LenProperties, EmptySeq
  <2>2. 1 \in DOMAIN missing /\ missing[1] \in NatSpan
    BY <2>1, ElementOfSeq
  <2>3. missing[1].offset \in CellsOf(missing[1])
    BY <2>2, SpanFacts
  <2>4. missing[1].offset \in CoveredBy(missing)
    BY <2>2, <2>3 DEF CoveredBy, Covered
  <2> QED
    BY <1>1, <1>3, <2>4
<1> QED
  BY <1>1, <1>2, <1>3
=============================================================================
