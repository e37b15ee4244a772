------------------------- MODULE IdempotencyProofs -------------------------
(***************************************************************************)
(* Proofs about Idempotency for any requests, processes and lifetimes, and *)
(* any number of failed calls, crashes and vanished clients.               *)
(***************************************************************************)
EXTENDS Idempotency, TLAPS

(* The parts of the inductive invariant: the types, with entries that have  *)
(* something left to live; what the place of a request says of its capture  *)
(* and its answer; what an entry says of its request; whose reservation it  *)
(* is as long as none was outlived; and which reservations nobody can have  *)
(* left behind.                                                             *)
Types == TypeOK /\ \A k \in ResKeys : entry[k] # None => entry[k].left > 0

Places ==
    \A r \in Requests :
        /\ r \in captured => at[r] \in Active \cup {"done"}
        /\ at[r] \in {"recording", "releasing"} => r \in captured
        /\ at[r] \in {"idle", "reserving", "looking", "running"} => answer[r].kind = "none"
        /\ at[r] = "recording" => answer[r].kind = "own"
        /\ at[r] \in {"reserving", "looking"} => Keyed(r)
        /\ answer[r].kind = "replay" => answer[r].of \in Requests

Entries ==
    \A k \in ResKeys : entry[k] # None =>
        /\ ResKey(entry[k].of) = k
        /\ entry[k].state = "done" => answer[entry[k].of].kind = "own"

Owns(r) ==
    LET e == entry[ResKey(r)] IN e # None /\ e.state = "processing" /\ e.of = r

Reserves == overran = {} => \A r \in Requests : Holds(r) => Owns(r)

Left ==
    errors = 0 /\ losses = 0 =>
        \A k \in ResKeys : entry[k] # None /\ entry[k].state = "processing" =>
            entry[k].of \in captured /\ at[entry[k].of] \in Active

Inv == Types /\ Places /\ Entries /\ Reserves /\ RecordKept /\ ReplayIsOwn /\ Left

(* Every request has one of the reserved keys.                              *)
LEMMA KeyOf == \A r \in Requests : ResKey(r) \in ResKeys
  BY DEF ResKeys


(* Every step keeps the types and leaves no expired entry behind.           *)
LEMMA TypesStep == Types /\ [Next]_vars => Types'
<1> SUFFICES ASSUME Types, [Next]_vars PROVE Types'
  OBVIOUS
<1> USE IdempotencyAssumption, KeyOf DEF IdempotencyAssumption
<1>1. CASE \E r \in Requests : Arrive(r)
  <2> PICK r \in Requests : Arrive(r)
    BY <1>1
  <2>1. /\ at' \in [Requests -> Place]
        /\ answer' \in [Requests -> Answer]
    <3>1. CASE Keyed(r)
      BY <3>1 DEF Arrive, MoveTo, Types, TypeOK, Place
    <3>2. CASE ~Keyed(r)
      <4>1. PICK kind \in {"400", "ungated"} : Reply(r, kind, None)
        BY <3>2 DEF Arrive
      <4> QED
        BY <4>1 DEF Reply, MoveTo, Told, Types, TypeOK, Place, Answer
    <3> QED
      BY <3>1, <3>2
  <2> QED
    BY <2>1 DEF Arrive, History, Types, TypeOK
<1>2. CASE \E r \in Requests : Reserve(r)
  BY <1>2 DEF Reserve, Reserved, MoveTo, History, Types, TypeOK, Place, Active,
      Entry, Reservation, Envelope, Answer
<1>3. CASE \E r \in Requests : ReserveFails(r)
  <2> PICK r \in Requests : ReserveFails(r)
    BY <1>3
  <2>1. /\ at' \in [Requests -> Place]
        /\ answer' \in [Requests -> Answer]
    <3>1. CASE Proc[r] \in FailOpen
      BY <3>1 DEF ReserveFails, MoveTo, Types, TypeOK, Place
    <3>2. CASE Proc[r] \notin FailOpen
      BY <3>2 DEF ReserveFails, Reply, MoveTo, Told, Types, TypeOK, Place, Answer
    <3> QED
      BY <3>1, <3>2
  <2>2. /\ entry' \in [ResKeys -> Entry \cup {None}]
        /\ \A k \in ResKeys : entry'[k] # None => entry'[k].left > 0
    BY DEF ReserveFails, Types, TypeOK, Entry, Reservation
  <2> QED
    BY <2>1, <2>2 DEF ReserveFails, Fails, History, Types, TypeOK
<1>4. CASE \E r \in Requests : Look(r)
  BY <1>4 DEF Look, Reply, MoveTo, Told, Verdict, History, Types, TypeOK, Place,
      Active, Entry, Reservation, Envelope, Answer
<1>5. CASE \E r \in Requests : LookFails(r)
  BY <1>5 DEF LookFails, Fails, Reply, MoveTo, Told, History, Types, TypeOK,
      Place, Active, Entry, Reservation, Envelope, Answer
<1>6. CASE \E r \in Requests : RespondRecorded(r)
  BY <1>6 DEF RespondRecorded, Respond, MoveTo, Told, History, Types, TypeOK,
      Place, Active, Entry, Reservation, Envelope, Answer
<1>7. CASE \E r \in Requests : RespondUnrecorded(r)
  BY <1>7 DEF RespondUnrecorded, Respond, MoveTo, Told, History, Types, TypeOK,
      Place, Active, Entry, Reservation, Envelope, Answer
<1>8. CASE \E r \in Requests : RecordLands(r)
  BY <1>8 DEF RecordLands, MoveTo, History, Types, TypeOK, Place, Active, Entry,
      Reservation, Envelope, Answer
<1>9. CASE \E r \in Requests : ReleaseLands(r)
  BY <1>9 DEF ReleaseLands, MoveTo, History, Types, TypeOK, Place, Active,
      Entry, Reservation, Envelope, Answer
<1>10. CASE \E r \in Requests : CallFails(r)
  BY <1>10 DEF CallFails, Fails, MoveTo, History, Types, TypeOK, Place, Active,
      Entry, Reservation, Envelope, Answer
<1>11. CASE \E r \in Requests : Disconnect(r)
  BY <1>11 DEF Disconnect, Reply, MoveTo, Told, History, Types, TypeOK, Place,
      Active, Entry, Reservation, Envelope, Answer
<1>12. CASE \E p \in Procs : Crash(p)
  BY <1>12 DEF Crash, Told, History, Types, TypeOK, Place, Active, Entry,
      Reservation, Envelope, Answer
<1>13. CASE Tick
  BY <1>13 DEF Tick, Older, History, Types, TypeOK, Place, Active, Entry,
      Reservation, Envelope, Answer
<1>14. CASE UNCHANGED vars
  BY <1>14 DEF vars, Types, TypeOK, Place, Active, Entry, Reservation, Envelope,
      Answer
<1> QED
  BY <1>1, <1>2, <1>3, <1>4, <1>5, <1>6, <1>7, <1>8, <1>9, <1>10, <1>11, <1>12,
      <1>13, <1>14 DEF Next, Step

(* Every step keeps place, capture and answer of a request together.        *)
LEMMA PlacesStep == Types /\ Places /\ [Next]_vars => Places'
<1> SUFFICES ASSUME Types, Places, [Next]_vars PROVE Places'
  OBVIOUS
<1> USE IdempotencyAssumption, NoneAssumption, KeyOf DEF IdempotencyAssumption
<1>1. CASE \E r \in Requests : Arrive(r)
  BY <1>1 DEF Arrive, Reply, MoveTo, Told, Keyed, Refused, History, Types,
      TypeOK, Place, Active, Entry, Reservation, Envelope, Answer, Places, Keyed
<1>2. CASE \E r \in Requests : Reserve(r)
  BY <1>2 DEF Reserve, Reserved, MoveTo, History, Types, TypeOK, Place, Active,
      Entry, Reservation, Envelope, Answer, Places, Keyed
<1>3. CASE \E r \in Requests : ReserveFails(r)
  BY <1>3 DEF ReserveFails, Fails, Reply, MoveTo, Told, History, Types, TypeOK,
      Place, Active, Entry, Reservation, Envelope, Answer, Places, Keyed
<1>4. CASE \E r \in Requests : Look(r)
  BY <1>4 DEF Look, Reply, MoveTo, Told, Verdict, History, Types, TypeOK, Place,
      Active, Entry, Reservation, Envelope, Answer, Places, Keyed
<1>5. CASE \E r \in Requests : LookFails(r)
  BY <1>5 DEF LookFails, Fails, Reply, MoveTo, Told, History, Types, TypeOK,
      Place, Active, Entry, Reservation, Envelope, Answer, Places, Keyed
<1>6. CASE \E r \in Requests : RespondRecorded(r)
  BY <1>6 DEF RespondRecorded, Respond, MoveTo, Told, History, Types, TypeOK,
      Place, Active, Entry, Reservation, Envelope, Answer, Places, Keyed
<1>7. CASE \E r \in Requests : RespondUnrecorded(r)
  BY <1>7 DEF RespondUnrecorded, Respond, MoveTo, Told, History, Types, TypeOK,
      Place, Active, Entry, Reservation, Envelope, Answer, Places, Keyed
<1>8. CASE \E r \in Requests : RecordLands(r)
  BY <1>8 DEF RecordLands, MoveTo, History, Types, TypeOK, Place, Active, Entry,
      Reservation, Envelope, Answer, Places, Keyed
<1>9. CASE \E r \in Requests : ReleaseLands(r)
  BY <1>9 DEF ReleaseLands, MoveTo, History, Types, TypeOK, Place, Active,
      Entry, Reservation, Envelope, Answer, Places, Keyed
<1>10. CASE \E r \in Requests : CallFails(r)
  BY <1>10 DEF CallFails, Fails, MoveTo, History, Types, TypeOK, Place, Active,
      Entry, Reservation, Envelope, Answer, Places, Keyed
<1>11. CASE \E r \in Requests : Disconnect(r)
  BY <1>11 DEF Disconnect, Reply, MoveTo, Told, History, Types, TypeOK, Place,
      Active, Entry, Reservation, Envelope, Answer, Places, Keyed
<1>12. CASE \E p \in Procs : Crash(p)
  BY <1>12 DEF Crash, Told, History, Types, TypeOK, Place, Active, Entry,
      Reservation, Envelope, Answer, Places, Keyed
<1>13. CASE Tick
  BY <1>13 DEF Tick, Older, History, Types, TypeOK, Place, Active, Entry,
      Reservation, Envelope, Answer, Places, Keyed
<1>14. CASE UNCHANGED vars
  BY <1>14 DEF vars, Types, TypeOK, Place, Active, Entry, Reservation, Envelope,
      Answer, Places, Keyed
<1> QED
  BY <1>1, <1>2, <1>3, <1>4, <1>5, <1>6, <1>7, <1>8, <1>9, <1>10, <1>11, <1>12,
      <1>13, <1>14 DEF Next, Step

(* A key only ever holds the reservation or the answer of a request of its own. *)
LEMMA EntriesStep == Types /\ Places /\ Entries /\ [Next]_vars => Entries'
<1> SUFFICES ASSUME Types, Places, Entries, [Next]_vars PROVE Entries'
  OBVIOUS
<1> USE IdempotencyAssumption, NoneAssumption, KeyOf DEF IdempotencyAssumption
<1>1. CASE \E r \in Requests : Arrive(r)
  BY <1>1 DEF Arrive, Reply, MoveTo, Told, Keyed, Refused, History, Types,
      TypeOK, Place, Active, Entry, Reservation, Envelope, Answer, Places,
      Entries
<1>2. CASE \E r \in Requests : Reserve(r)
  BY <1>2 DEF Reserve, Reserved, MoveTo, History, Types, TypeOK, Place, Active,
      Entry, Reservation, Envelope, Answer, Places, Entries
<1>3. CASE \E r \in Requests : ReserveFails(r)
  BY <1>3 DEF ReserveFails, Fails, Reply, MoveTo, Told, History, Types, TypeOK,
      Place, Active, Entry, Reservation, Envelope, Answer, Places, Entries
<1>4. CASE \E r \in Requests : Look(r)
  BY <1>4 DEF Look, Reply, MoveTo, Told, Verdict, History, Types, TypeOK, Place,
      Active, Entry, Reservation, Envelope, Answer, Places, Entries
<1>5. CASE \E r \in Requests : LookFails(r)
  BY <1>5 DEF LookFails, Fails, Reply, MoveTo, Told, History, Types, TypeOK,
      Place, Active, Entry, Reservation, Envelope, Answer, Places, Entries
<1>6. CASE \E r \in Requests : RespondRecorded(r)
  BY <1>6 DEF RespondRecorded, Respond, MoveTo, Told, History, Types, TypeOK,
      Place, Active, Entry, Reservation, Envelope, Answer, Places, Entries
<1>7. CASE \E r \in Requests : RespondUnrecorded(r)
  BY <1>7 DEF RespondUnrecorded, Respond, MoveTo, Told, History, Types, TypeOK,
      Place, Active, Entry, Reservation, Envelope, Answer, Places, Entries
<1>8. CASE \E r \in Requests : RecordLands(r)
  BY <1>8 DEF RecordLands, MoveTo, History, Types, TypeOK, Place, Active, Entry,
      Reservation, Envelope, Answer, Places, Entries
<1>9. CASE \E r \in Requests : ReleaseLands(r)
  BY <1>9 DEF ReleaseLands, MoveTo, History, Types, TypeOK, Place, Active,
      Entry, Reservation, Envelope, Answer, Places, Entries
<1>10. CASE \E r \in Requests : CallFails(r)
  BY <1>10 DEF CallFails, Fails, MoveTo, History, Types, TypeOK, Place, Active,
      Entry, Reservation, Envelope, Answer, Places, Entries
<1>11. CASE \E r \in Requests : Disconnect(r)
  BY <1>11 DEF Disconnect, Reply, MoveTo, Told, History, Types, TypeOK, Place,
      Active, Entry, Reservation, Envelope, Answer, Places, Entries
<1>12. CASE \E p \in Procs : Crash(p)
  BY <1>12 DEF Crash, Told, History, Types, TypeOK, Place, Active, Entry,
      Reservation, Envelope, Answer, Places, Entries
<1>13. CASE Tick
  BY <1>13 DEF Tick, Older, History, Types, TypeOK, Place, Active, Entry,
      Reservation, Envelope, Answer, Places, Entries
<1>14. CASE UNCHANGED vars
  BY <1>14 DEF vars, Types, TypeOK, Place, Active, Entry, Reservation, Envelope,
      Answer, Places, Entries
<1> QED
  BY <1>1, <1>2, <1>3, <1>4, <1>5, <1>6, <1>7, <1>8, <1>9, <1>10, <1>11, <1>12,
      <1>13, <1>14 DEF Next, Step

(* While no request outlives its reservation, the key of a holder says so.  *)
LEMMA ReservesStep == Types /\ Places /\ Reserves /\ [Next]_vars => Reserves'
<1> SUFFICES ASSUME Types, Places, Reserves, [Next]_vars PROVE Reserves'
  OBVIOUS
<1> USE IdempotencyAssumption, NoneAssumption, KeyOf DEF IdempotencyAssumption
<1>1. CASE \E r \in Requests : Arrive(r)
  BY <1>1 DEF Arrive, Reply, MoveTo, Told, Keyed, Refused, History, Types,
      TypeOK, Place, Active, Entry, Reservation, Envelope, Answer, Places,
      Reserves, Holds, Owns
<1>2. CASE \E r \in Requests : Reserve(r)
  BY <1>2 DEF Reserve, Reserved, MoveTo, History, Types, TypeOK, Place, Active,
      Entry, Reservation, Envelope, Answer, Places, Reserves, Holds, Owns
<1>3. CASE \E r \in Requests : ReserveFails(r)
  BY <1>3 DEF ReserveFails, Fails, Reply, MoveTo, Told, History, Types, TypeOK,
      Place, Active, Entry, Reservation, Envelope, Answer, Places, Reserves,
      Holds, Owns
<1>4. CASE \E r \in Requests : Look(r)
  BY <1>4 DEF Look, Reply, MoveTo, Told, Verdict, History, Types, TypeOK, Place,
      Active, Entry, Reservation, Envelope, Answer, Places, Reserves, Holds,
      Owns
<1>5. CASE \E r \in Requests : LookFails(r)
  BY <1>5 DEF LookFails, Fails, Reply, MoveTo, Told, History, Types, TypeOK,
      Place, Active, Entry, Reservation, Envelope, Answer, Places, Reserves,
      Holds, Owns
<1>6. CASE \E r \in Requests : RespondRecorded(r)
  BY <1>6 DEF RespondRecorded, Respond, MoveTo, Told, History, Types, TypeOK,
      Place, Active, Entry, Reservation, Envelope, Answer, Places, Reserves,
      Holds, Owns
<1>7. CASE \E r \in Requests : RespondUnrecorded(r)
  BY <1>7 DEF RespondUnrecorded, Respond, MoveTo, Told, History, Types, TypeOK,
      Place, Active, Entry, Reservation, Envelope, Answer, Places, Reserves,
      Holds, Owns
<1>8. CASE \E r \in Requests : RecordLands(r)
  BY <1>8 DEF RecordLands, MoveTo, History, Types, TypeOK, Place, Active, Entry,
      Reservation, Envelope, Answer, Places, Reserves, Holds, Owns
<1>9. CASE \E r \in Requests : ReleaseLands(r)
  BY <1>9 DEF ReleaseLands, MoveTo, History, Types, TypeOK, Place, Active,
      Entry, Reservation, Envelope, Answer, Places, Reserves, Holds, Owns
<1>10. CASE \E r \in Requests : CallFails(r)
  BY <1>10 DEF CallFails, Fails, MoveTo, History, Types, TypeOK, Place, Active,
      Entry, Reservation, Envelope, Answer, Places, Reserves, Holds, Owns
<1>11. CASE \E r \in Requests : Disconnect(r)
  BY <1>11 DEF Disconnect, Reply, MoveTo, Told, History, Types, TypeOK, Place,
      Active, Entry, Reservation, Envelope, Answer, Places, Reserves, Holds,
      Owns
<1>12. CASE \E p \in Procs : Crash(p)
  BY <1>12 DEF Crash, Told, History, Types, TypeOK, Place, Active, Entry,
      Reservation, Envelope, Answer, Places, Reserves, Holds, Owns
<1>13. CASE Tick
  <2> SUFFICES ASSUME overran' = {}, NEW r \in Requests, Holds(r)' PROVE Owns(r)'
    BY DEF Reserves
  <2>1. overran = {} /\ Holds(r)
    BY <1>13 DEF Tick, Holds
  <2>2. Owns(r)
    BY <2>1 DEF Reserves
  <2>3. entry'[ResKey(r)] # None
    BY <1>13, <2>1 DEF Tick
  <2>4. entry'[ResKey(r)] = Older(entry[ResKey(r)])
    BY <1>13 DEF Tick
  <2> QED
    BY <2>2, <2>3, <2>4 DEF Owns, Older, Types, TypeOK, Entry
<1>14. CASE UNCHANGED vars
  BY <1>14 DEF vars, Types, TypeOK, Place, Active, Entry, Reservation, Envelope,
      Answer, Places, Reserves, Holds, Owns
<1> QED
  BY <1>1, <1>2, <1>3, <1>4, <1>5, <1>6, <1>7, <1>8, <1>9, <1>10, <1>11, <1>12,
      <1>13, <1>14 DEF Next, Step

(* Every step keeps what was recorded.                                      *)
LEMMA RecordsStep ==
  Types /\ Places /\ Reserves /\ RecordKept /\ [Next]_vars =>
    RecordKept'
<1> SUFFICES ASSUME Types, Places, Reserves, RecordKept, [Next]_vars
             PROVE  RecordKept'
  OBVIOUS
<1> USE IdempotencyAssumption, NoneAssumption, KeyOf DEF IdempotencyAssumption
<1>1. CASE \E r \in Requests : Arrive(r)
  BY <1>1 DEF Arrive, Reply, MoveTo, Told, Keyed, Refused, History, Types,
      TypeOK, Place, Active, Entry, Reservation, Envelope, Answer, Places,
      Reserves, Holds, Owns, RecordKept
<1>2. CASE \E r \in Requests : Reserve(r)
  BY <1>2 DEF Reserve, Reserved, MoveTo, History, Types, TypeOK, Place, Active,
      Entry, Reservation, Envelope, Answer, Places, Reserves, Holds, Owns,
      RecordKept
<1>3. CASE \E r \in Requests : ReserveFails(r)
  BY <1>3 DEF ReserveFails, Fails, Reply, MoveTo, Told, History, Types, TypeOK,
      Place, Active, Entry, Reservation, Envelope, Answer, Places, Reserves,
      Holds, Owns, RecordKept
<1>4. CASE \E r \in Requests : Look(r)
  BY <1>4 DEF Look, Reply, MoveTo, Told, Verdict, History, Types, TypeOK, Place,
      Active, Entry, Reservation, Envelope, Answer, Places, Reserves, Holds,
      Owns, RecordKept
<1>5. CASE \E r \in Requests : LookFails(r)
  BY <1>5 DEF LookFails, Fails, Reply, MoveTo, Told, History, Types, TypeOK,
      Place, Active, Entry, Reservation, Envelope, Answer, Places, Reserves,
      Holds, Owns, RecordKept
<1>6. CASE \E r \in Requests : RespondRecorded(r)
  BY <1>6 DEF RespondRecorded, Respond, MoveTo, Told, History, Types, TypeOK,
      Place, Active, Entry, Reservation, Envelope, Answer, Places, Reserves,
      Holds, Owns, RecordKept
<1>7. CASE \E r \in Requests : RespondUnrecorded(r)
  BY <1>7 DEF RespondUnrecorded, Respond, MoveTo, Told, History, Types, TypeOK,
      Place, Active, Entry, Reservation, Envelope, Answer, Places, Reserves,
      Holds, Owns, RecordKept
<1>8. CASE \E r \in Requests : RecordLands(r)
  BY <1>8 DEF RecordLands, MoveTo, History, Types, TypeOK, Place, Active, Entry,
      Reservation, Envelope, Answer, Places, Reserves, Holds, Owns, RecordKept
<1>9. CASE \E r \in Requests : ReleaseLands(r)
  BY <1>9 DEF ReleaseLands, MoveTo, History, Types, TypeOK, Place, Active,
      Entry, Reservation, Envelope, Answer, Places, Reserves, Holds, Owns,
      RecordKept
<1>10. CASE \E r \in Requests : CallFails(r)
  BY <1>10 DEF CallFails, Fails, MoveTo, History, Types, TypeOK, Place, Active,
      Entry, Reservation, Envelope, Answer, Places, Reserves, Holds, Owns,
      RecordKept
<1>11. CASE \E r \in Requests : Disconnect(r)
  BY <1>11 DEF Disconnect, Reply, MoveTo, Told, History, Types, TypeOK, Place,
      Active, Entry, Reservation, Envelope, Answer, Places, Reserves, Holds,
      Owns, RecordKept
<1>12. CASE \E p \in Procs : Crash(p)
  BY <1>12 DEF Crash, Told, History, Types, TypeOK, Place, Active, Entry,
      Reservation, Envelope, Answer, Places, Reserves, Holds, Owns, RecordKept
<1>13. CASE Tick
  <2> SUFFICES ASSUME overran' = {}, NEW k \in ResKeys, owed'[k] > 0
               PROVE entry'[k] # None /\ entry'[k].state = "done" /\ entry'[k].left = owed'[k]
    BY DEF RecordKept
  <2> overran = {}
    BY <1>13 DEF Tick
  <2>1. owed[k] > 1 /\ owed'[k] = owed[k] - 1
    BY <1>13 DEF Tick, Types, TypeOK
  <2>2. entry[k] # None /\ entry[k].state = "done" /\ entry[k].left = owed[k]
    BY <2>1 DEF RecordKept, Types, TypeOK
  <2>3. entry'[k] = [entry[k] EXCEPT !.left = entry[k].left - 1]
    BY <1>13, <2>1, <2>2 DEF Tick, Older, Types, TypeOK
  <2>4. entry[k] \in Entry
    BY <2>2 DEF Types, TypeOK
  <2>5. entry'[k] \in Entry /\ entry'[k].state = "done" /\ entry'[k].left = entry[k].left - 1
    BY <2>1, <2>2, <2>3, <2>4 DEF Entry
  <2> QED
    BY <2>1, <2>2, <2>5
<1>14. CASE UNCHANGED vars
  BY <1>14 DEF vars, Types, TypeOK, Place, Active, Entry, Reservation, Envelope,
      Answer, Places, Reserves, Holds, Owns, RecordKept
<1> QED
  BY <1>1, <1>2, <1>3, <1>4, <1>5, <1>6, <1>7, <1>8, <1>9, <1>10, <1>11, <1>12,
      <1>13, <1>14 DEF Next, Step

(* A request that is answered, with anything but a replay, was no source of *)
(* one before.                                                              *)
LEMMA AnswerKeeps ==
  ASSUME answer \in [Requests -> Answer], ReplayIsOwn, Places, NEW r \in Requests,
         answer[r].kind = "none", NEW a, a.kind # "replay", answer' = [answer EXCEPT ![r] = a]
  PROVE  ReplayIsOwn'
<1>1. \A s \in Requests : answer'[s] = answer[s] \/ (s = r /\ answer'[s] = a)
  OBVIOUS
<1>2. \A s \in Requests : answer[s].kind = "own" => answer'[s].kind = "own"
  BY <1>1
<1> QED
  BY <1>1, <1>2 DEF ReplayIsOwn, Places

(* Every step hands out only answers of the same request key.               *)
LEMMA ReplaysStep ==
  Types /\ Places /\ Entries /\ ReplayIsOwn /\ [Next]_vars =>
    ReplayIsOwn'
<1> SUFFICES ASSUME Types, Places, Entries, ReplayIsOwn, [Next]_vars
             PROVE  ReplayIsOwn'
  OBVIOUS
<1> USE IdempotencyAssumption, NoneAssumption, KeyOf DEF IdempotencyAssumption
<1>1. CASE \E r \in Requests : Arrive(r)
  <2> PICK r \in Requests : Arrive(r)
    BY <1>1
  <2>1. CASE Keyed(r)
    BY <2>1 DEF Arrive, ReplayIsOwn
  <2>2. CASE ~Keyed(r)
    <3>1. PICK kind \in {"400", "ungated"} : answer' = [answer EXCEPT ![r] = Told(kind, None)]
      BY <2>2 DEF Arrive, Reply
    <3>2. answer[r].kind = "none" /\ Told(kind, None).kind # "replay"
      BY DEF Arrive, Places, Told
    <3> QED
      BY <3>1, <3>2, AnswerKeeps DEF Types, TypeOK
  <2> QED
    BY <2>1, <2>2
<1>2. CASE \E r \in Requests : Reserve(r)
  BY <1>2 DEF Reserve, Reserved, MoveTo, History, Types, TypeOK, Place, Active,
      Entry, Reservation, Envelope, Answer, Places, Entries, ReplayIsOwn, Same,
      ResKey, Keyed
<1>3. CASE \E r \in Requests : ReserveFails(r)
  <2> PICK r \in Requests : ReserveFails(r)
    BY <1>3
  <2> answer[r].kind = "none" /\ Told("503", None).kind # "replay"
    BY DEF ReserveFails, Places, Told
  <2>1. CASE Proc[r] \in FailOpen
    BY <2>1 DEF ReserveFails, ReplayIsOwn
  <2>2. CASE ~(Proc[r] \in FailOpen)
    <3>1. answer' = [answer EXCEPT ![r] = Told("503", None)]
      BY <2>2 DEF ReserveFails, Reply
    <3> QED
      BY <3>1, AnswerKeeps DEF Types, TypeOK
  <2> QED
    BY <2>1, <2>2
<1>4. CASE \E r \in Requests : Look(r)
  <2> PICK r \in Requests : Look(r)
    BY <1>4
  <2>1. answer[r].kind = "none" /\ Keyed(r)
    BY DEF Look, Places
  <2>2. CASE entry[ResKey(r)] = None
    BY <2>2 DEF Look, ReplayIsOwn
  <2>3. CASE entry[ResKey(r)] # None
    <3> DEFINE e == entry[ResKey(r)]
    <3>1. e \in Entry /\ ResKey(e.of) = ResKey(r)
      BY <2>3 DEF Types, TypeOK, Entries
    <3>2. answer' = [answer EXCEPT ![r] = Told(Verdict(e, r), e.of)]
      BY <2>3 DEF Look, Reply
    <3>3. CASE Verdict(e, r) = "replay"
      <4>1. e.state = "done" /\ Payload[e.of] = Payload[r]
        BY <3>1, <3>3 DEF Verdict, Entry
      <4>2. e.of \in Requests /\ answer[e.of].kind = "own" /\ e.of # r
        BY <2>1, <2>3, <3>1, <4>1 DEF Entries, Entry
      <4>3. Principal[e.of] = Principal[r] /\ Principal[r] # None /\ Same(r, e.of)
        BY <2>1, <3>1 DEF ResKey, Same, Keyed
      <4> HIDE DEF e
      <4>4. answer'[r].kind = "replay" /\ answer'[r].of = e.of
        BY <3>2, <3>3 DEF Told, Types, TypeOK
      <4>5. \A s \in Requests \ {r} : answer'[s] = answer[s]
        BY <3>2 DEF Types, TypeOK
      <4>6. \A s \in Requests : answer'[s].kind = "replay" =>
              /\ Principal[answer'[s].of] = Principal[s] /\ Principal[s] # None
              /\ Same(s, answer'[s].of) /\ Payload[answer'[s].of] = Payload[s]
              /\ answer[answer'[s].of].kind = "own"
        BY <4>1, <4>2, <4>3, <4>4, <4>5 DEF ReplayIsOwn
      <4>7. \A s \in Requests : answer'[s].kind = "replay" => answer'[s].of \in Requests
        BY <4>2, <4>4, <4>5 DEF Places, Types, TypeOK
      <4> QED
        BY <2>1, <4>5, <4>6, <4>7 DEF ReplayIsOwn
    <3>4. CASE Verdict(e, r) # "replay"
      BY <2>1, <3>2, <3>4, AnswerKeeps DEF Types, TypeOK, Told
    <3> QED
      BY <3>3, <3>4
  <2> QED
    BY <2>2, <2>3
<1>5. CASE \E r \in Requests : LookFails(r)
  <2> PICK r \in Requests : LookFails(r)
    BY <1>5
  <2> answer[r].kind = "none" /\ Told("503", None).kind # "replay"
    BY DEF LookFails, Places, Told
  <2>1. CASE Proc[r] \in FailOpen
    BY <2>1 DEF LookFails, ReplayIsOwn
  <2>2. CASE ~(Proc[r] \in FailOpen)
    <3>1. answer' = [answer EXCEPT ![r] = Told("503", None)]
      BY <2>2 DEF LookFails, Reply
    <3> QED
      BY <3>1, AnswerKeeps DEF Types, TypeOK
  <2> QED
    BY <2>1, <2>2
<1>6. CASE \E r \in Requests : RespondRecorded(r)
  BY <1>6 DEF RespondRecorded, Respond, MoveTo, Told, History, Types, TypeOK,
      Place, Active, Entry, Reservation, Envelope, Answer, Places, Entries,
      ReplayIsOwn, Same, ResKey, Keyed
<1>7. CASE \E r \in Requests : RespondUnrecorded(r)
  BY <1>7 DEF RespondUnrecorded, Respond, MoveTo, Told, History, Types, TypeOK,
      Place, Active, Entry, Reservation, Envelope, Answer, Places, Entries,
      ReplayIsOwn, Same, ResKey, Keyed
<1>8. CASE \E r \in Requests : RecordLands(r)
  BY <1>8 DEF RecordLands, MoveTo, History, Types, TypeOK, Place, Active, Entry,
      Reservation, Envelope, Answer, Places, Entries, ReplayIsOwn, Same, ResKey,
      Keyed
<1>9. CASE \E r \in Requests : ReleaseLands(r)
  BY <1>9 DEF ReleaseLands, MoveTo, History, Types, TypeOK, Place, Active,
      Entry, Reservation, Envelope, Answer, Places, Entries, ReplayIsOwn, Same,
      ResKey, Keyed
<1>10. CASE \E r \in Requests : CallFails(r)
  BY <1>10 DEF CallFails, Fails, MoveTo, History, Types, TypeOK, Place, Active,
      Entry, Reservation, Envelope, Answer, Places, Entries, ReplayIsOwn, Same,
      ResKey, Keyed
<1>11. CASE \E r \in Requests : Disconnect(r)
  BY <1>11 DEF Disconnect, Reply, MoveTo, Told, History, Types, TypeOK, Place,
      Active, Entry, Reservation, Envelope, Answer, Places, Entries,
      ReplayIsOwn, Same, ResKey, Keyed
<1>12. CASE \E p \in Procs : Crash(p)
  <2> PICK p \in Procs : Crash(p)
    BY <1>12
  <2>1. \A s \in Requests : answer'[s] = answer[s] \/ (answer[s].kind = "none" /\ answer'[s].kind = "lost")
    BY DEF Crash, Told
  <2> QED
    BY <2>1 DEF ReplayIsOwn, Places
<1>13. CASE Tick
  BY <1>13 DEF Tick, Older, History, Types, TypeOK, Place, Active, Entry,
      Reservation, Envelope, Answer, Places, Entries, ReplayIsOwn, Same, ResKey,
      Keyed
<1>14. CASE UNCHANGED vars
  BY <1>14 DEF vars, Types, TypeOK, Place, Active, Entry, Reservation, Envelope,
      Answer, Places, Entries, ReplayIsOwn, Same, ResKey, Keyed
<1> QED
  BY <1>1, <1>2, <1>3, <1>4, <1>5, <1>6, <1>7, <1>8, <1>9, <1>10, <1>11, <1>12,
      <1>13, <1>14 DEF Next, Step

(* Without errors and losses a reservation always has a request at work behind it. *)
LEMMA LeftStep == Types /\ Places /\ Entries /\ Left /\ [Next]_vars => Left'
<1> SUFFICES ASSUME Types, Places, Entries, Left, [Next]_vars PROVE Left'
  OBVIOUS
<1> USE IdempotencyAssumption, NoneAssumption, KeyOf DEF IdempotencyAssumption
<1>1. CASE \E r \in Requests : Arrive(r)
  BY <1>1 DEF Arrive, Reply, MoveTo, Told, Keyed, Refused, History, Types,
      TypeOK, Place, Active, Entry, Reservation, Envelope, Answer, Places,
      Entries, Left
<1>2. CASE \E r \in Requests : Reserve(r)
  BY <1>2 DEF Reserve, Reserved, MoveTo, History, Types, TypeOK, Place, Active,
      Entry, Reservation, Envelope, Answer, Places, Entries, Left
<1>3. CASE \E r \in Requests : ReserveFails(r)
  BY <1>3 DEF ReserveFails, Fails, Reply, MoveTo, Told, History, Types, TypeOK,
      Place, Active, Entry, Reservation, Envelope, Answer, Places, Entries, Left
<1>4. CASE \E r \in Requests : Look(r)
  BY <1>4 DEF Look, Reply, MoveTo, Told, Verdict, History, Types, TypeOK, Place,
      Active, Entry, Reservation, Envelope, Answer, Places, Entries, Left
<1>5. CASE \E r \in Requests : LookFails(r)
  BY <1>5 DEF LookFails, Fails, Reply, MoveTo, Told, History, Types, TypeOK,
      Place, Active, Entry, Reservation, Envelope, Answer, Places, Entries, Left
<1>6. CASE \E r \in Requests : RespondRecorded(r)
  BY <1>6 DEF RespondRecorded, Respond, MoveTo, Told, History, Types, TypeOK,
      Place, Active, Entry, Reservation, Envelope, Answer, Places, Entries, Left
<1>7. CASE \E r \in Requests : RespondUnrecorded(r)
  BY <1>7 DEF RespondUnrecorded, Respond, MoveTo, Told, History, Types, TypeOK,
      Place, Active, Entry, Reservation, Envelope, Answer, Places, Entries, Left
<1>8. CASE \E r \in Requests : RecordLands(r)
  BY <1>8 DEF RecordLands, MoveTo, History, Types, TypeOK, Place, Active, Entry,
      Reservation, Envelope, Answer, Places, Entries, Left
<1>9. CASE \E r \in Requests : ReleaseLands(r)
  BY <1>9 DEF ReleaseLands, MoveTo, History, Types, TypeOK, Place, Active,
      Entry, Reservation, Envelope, Answer, Places, Entries, Left
<1>10. CASE \E r \in Requests : CallFails(r)
  BY <1>10 DEF CallFails, Fails, MoveTo, History, Types, TypeOK, Place, Active,
      Entry, Reservation, Envelope, Answer, Places, Entries, Left
<1>11. CASE \E r \in Requests : Disconnect(r)
  BY <1>11 DEF Disconnect, Reply, MoveTo, Told, History, Types, TypeOK, Place,
      Active, Entry, Reservation, Envelope, Answer, Places, Entries, Left
<1>12. CASE \E p \in Procs : Crash(p)
  BY <1>12 DEF Crash, Told, History, Types, TypeOK, Place, Active, Entry,
      Reservation, Envelope, Answer, Places, Entries, Left
<1>13. CASE Tick
  BY <1>13 DEF Tick, Older, History, Types, TypeOK, Place, Active, Entry,
      Reservation, Envelope, Answer, Places, Entries, Left
<1>14. CASE UNCHANGED vars
  BY <1>14 DEF vars, Types, TypeOK, Place, Active, Entry, Reservation, Envelope,
      Answer, Places, Entries, Left
<1> QED
  BY <1>1, <1>2, <1>3, <1>4, <1>5, <1>6, <1>7, <1>8, <1>9, <1>10, <1>11, <1>12,
      <1>13, <1>14 DEF Next, Step

(***************************************************************************)
(* The theorems.                                                           *)
(***************************************************************************)
LEMMA InvHolds == Spec => []Inv
<1> USE IdempotencyAssumption, NoneAssumption, KeyOf
<1>1. Init => Inv
  <2> SUFFICES ASSUME Init PROVE Inv
    OBVIOUS
  <2>1. Types /\ Places
    BY DEF Init, Types, TypeOK, Places, Place, Active, Answer, Told
  <2>2. Entries /\ Reserves /\ RecordKept /\ ReplayIsOwn /\ Left
    BY DEF Init, Entries, Reserves, Holds, Active, RecordKept, ReplayIsOwn, Told, Left
  <2> QED
    BY <2>1, <2>2 DEF Inv
<1>2. Inv /\ [Next]_vars => Inv'
  BY TypesStep, PlacesStep, EntriesStep, ReservesStep, RecordsStep, ReplaysStep, LeftStep
  DEF Inv
<1> QED
  BY <1>1, <1>2, PTL DEF Spec

(* Whatever fails, crashes or expires, requests, entries and answers keep   *)
(* their types, and what is left of a lifetime is never negative.           *)
THEOREM TypeCorrect == Spec => []TypeOK
<1>1. Inv => TypeOK
  BY DEF Inv, Types
<1> QED
  BY <1>1, InvHolds, PTL

(* As long as no execution outlives its reservation, no two requests of one *)
(* key hold it at the same time.                                            *)
THEOREM OneExecution == Spec => []Exclusive
<1>1. Inv => Exclusive
  BY DEF Inv, Reserves, Owns, Same, Exclusive
<1> QED
  BY <1>1, InvHolds, PTL

(* As long as no execution outlives its reservation, a recorded response    *)
(* stays replayable for the whole of its retention.                         *)
THEOREM RecordStays == Spec => []RecordKept
<1>1. Inv => RecordKept
  BY DEF Inv
<1> QED
  BY <1>1, InvHolds, PTL

(* A replay is the recorded response of the same caller to the same         *)
(* operation, key and payload, also when executions overlap.                *)
THEOREM ReplayOfSame == Spec => []ReplayIsOwn
<1>1. Inv => ReplayIsOwn
  BY DEF Inv
<1> QED
  BY <1>1, InvHolds, PTL

(* Without a failed call, a crash or a vanished client every reservation    *)
(* belongs to a request that is still at work.                              *)
THEOREM NoDeadReservation == Spec => []ReservationIsLive
<1>1. Inv => ReservationIsLive
  BY DEF Inv, Left, ReservationIsLive
<1> QED
  BY <1>1, InvHolds, PTL

=============================================================================
