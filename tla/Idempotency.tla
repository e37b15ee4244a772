----------------------------- MODULE Idempotency -----------------------------
(***************************************************************************)
(* The Idempotency-Key gate of lib/idempotency (src/main.js) over a shared *)
(* kv namespace (lib/kv).  A request reserves its key with setnx, executes *)
(* and either records its response or releases the key; a request that     *)
(* loses the reservation reads what the key holds.  Store calls are two    *)
(* moments, issued and landed; requests of several processes interleave.   *)
(* The lifetime of an entry is kept as the ticks it has left.              *)
(***************************************************************************)
EXTENDS Integers, FiniteSets

CONSTANTS
    Requests,    \* the requests clients send, retries included
    Procs,       \* the processes of the bundle
    Proc,        \* the process a request reaches
    Principal,   \* rateLimit.deriveKey(request), None when nobody is resolved
    Operation,   \* method and route rule
    IdemKey,     \* the parsed Idempotency-Key header, None when absent
    Payload,     \* what fingerprint() tells apart
    Required,    \* operations whose route.idempotency.required is set
    FailOpen,    \* processes whose namespace has failMode open
    InflightTtl, \* ticks a reservation lasts
    Ttl,         \* ticks a recorded response lasts
    MaxErrors, MaxLosses, \* bounds on what the environment does
    None

ASSUME IdempotencyAssumption ==
    /\ Proc \in [Requests -> Procs]
    /\ {InflightTtl, Ttl} \subseteq Nat \ {0}
    /\ {MaxErrors, MaxLosses} \subseteq Nat
    /\ None \notin Requests

(* deriveResKey().                                                          *)
ResKey(r) == <<Principal[r], Operation[r], IdemKey[r]>>

ResKeys == {ResKey(r) : r \in Requests}

Same(r, s) == ResKey(r) = ResKey(s)

VARIABLES
    at,       \* where each request is
    captured, \* requests that carry _idemCapture
    entry,    \* what the namespace holds under each reservation key
    answer,   \* what the client was told
    owed,     \* ticks a recorded response of the key is still owed (history)
    overran,  \* requests whose reservation expired before they were done (history)
    errors, losses

vars == <<at, captured, entry, answer, owed, overran, errors, losses>>
History == <<owed, overran>>

(* running: the action executes; recording, releasing: the client has been  *)
(* answered and the namespace call of record() or of the belt is in flight. *)
Active == {"running", "recording", "releasing"}
Place == {"idle", "reserving", "looking", "done"} \cup Active

Entry == [state : {"processing", "done"}, of : Requests, left : Nat]

ASSUME NoneAssumption == None \notin Entry

Reservation(r) == [state |-> "processing", of |-> r, left |-> InflightTtl]

Envelope(r) == [state |-> "done", of |-> r, left |-> Ttl]

Answer == [kind : {"none", "ungated", "own", "unrecorded", "replay", "400", "409", "422", "503", "lost"},
           of   : Requests \cup {None}]

Told(kind, s) == [kind |-> kind, of |-> s]

Init ==
    /\ at = [r \in Requests |-> "idle"]
    /\ captured = {}
    /\ entry = [k \in ResKeys |-> None]
    /\ answer = [r \in Requests |-> Told("none", None)]
    /\ owed = [k \in ResKeys |-> 0]
    /\ overran = {}
    /\ errors = 0 /\ losses = 0

-----------------------------------------------------------------------------
(* gate(): a request it does not apply to passes and is followed no further.*)

MoveTo(r, place) == at' = [at EXCEPT ![r] = place]

Reply(r, kind, s) ==
    /\ MoveTo(r, "done")
    /\ answer' = [answer EXCEPT ![r] = Told(kind, s)]

Fails == errors < MaxErrors /\ errors' = errors + 1

Keyed(r) == Principal[r] # None /\ IdemKey[r] # None

Refused(r) == Principal[r] # None /\ IdemKey[r] = None /\ Operation[r] \in Required

Arrive(r) ==
    /\ at[r] = "idle"
    /\ IF Keyed(r)
       THEN MoveTo(r, "reserving") /\ UNCHANGED answer
       ELSE Reply(r, IF Refused(r) THEN "400" ELSE "ungated", None)
    /\ UNCHANGED <<captured, entry, History, errors, losses>>

(* Mutant: the reservation is written whatever the key holds.               *)
ReservedBlindly(r) ==
    /\ entry' = [entry EXCEPT ![ResKey(r)] = Reservation(r)]
    /\ captured' = captured \cup {r}
    /\ MoveTo(r, "running")

(* setnx wins when nothing live is stored under the key.                    *)
Reserved(r) ==
    IF entry[ResKey(r)] = None
    THEN /\ entry' = [entry EXCEPT ![ResKey(r)] = Reservation(r)]
         /\ captured' = captured \cup {r}
         /\ MoveTo(r, "running")
    ELSE MoveTo(r, "looking") /\ UNCHANGED <<entry, captured>>

Reserve(r) ==
    /\ at[r] = "reserving"
    /\ Reserved(r)
    /\ UNCHANGED <<answer, History, errors, losses>>

(* An error, of a call that was applied or not: fail-open takes it for a    *)
(* lost reservation, fail-closed answers 503.                               *)
ReserveFails(r) ==
    /\ at[r] = "reserving"
    /\ Fails
    /\ \/ UNCHANGED entry
       \/ /\ entry[ResKey(r)] = None
          /\ entry' = [entry EXCEPT ![ResKey(r)] = Reservation(r)]
    /\ IF Proc[r] \in FailOpen THEN MoveTo(r, "looking") /\ UNCHANGED answer ELSE Reply(r, "503", None)
    /\ UNCHANGED <<captured, History, losses>>

(* Mutant: the payload is not compared.                                     *)
VerdictAnyPayload(e, r) == IF e.state = "processing" THEN "409" ELSE "replay"

Verdict(e, r) ==
    CASE e.state = "processing" -> "409"
      [] e.state = "done" /\ Payload[e.of] # Payload[r] -> "422"
      [] e.state = "done" /\ Payload[e.of] = Payload[r] -> "replay"

(* The key was lost: answer from what it holds.  When that is gone by now   *)
(* the request executes without a capture.                                  *)
Look(r) ==
    /\ at[r] = "looking"
    /\ \/ /\ entry[ResKey(r)] = None
          /\ MoveTo(r, "running")
          /\ UNCHANGED answer
       \/ \E e \in {entry[ResKey(r)]} \ {None} : Reply(r, Verdict(e, r), e.of)
    /\ UNCHANGED <<captured, entry, History, errors, losses>>

(* Mutant: the rejection of the second call has no handler.                 *)
LookFailsUnowned(r) ==
    /\ at[r] = "looking"
    /\ Fails
    /\ MoveTo(r, IF Proc[r] \in FailOpen THEN "running" ELSE "unowned")
    /\ UNCHANGED <<captured, entry, answer, History, losses>>

LookFails(r) ==
    /\ at[r] = "looking"
    /\ Fails
    /\ IF Proc[r] \in FailOpen THEN MoveTo(r, "running") /\ UNCHANGED answer ELSE Reply(r, "503", None)
    /\ UNCHANGED <<captured, entry, History, losses>>

-----------------------------------------------------------------------------
(* The action has executed: record() or the finish belt.  Both have set     *)
(* `recorded`, so a request makes one of the two calls, once.               *)

Respond(r, kind, next) ==
    /\ at[r] = "running"
    /\ MoveTo(r, IF r \in captured THEN next ELSE "done")
    /\ answer' = [answer EXCEPT ![r] = Told(kind, None)]
    /\ UNCHANGED <<captured, entry, History, errors, losses>>

(* A status below 500 and a body within maxBodySize, through renderJSON or  *)
(* renderXML: the envelope is stored.                                       *)
RespondRecorded(r) == Respond(r, "own", "recording")

(* A status of 500 or more, a large body, a template, a redirect, an error  *)
(* egress: the key is deleted.                                              *)
RespondUnrecorded(r) == Respond(r, "unrecorded", "releasing")

(* Mutant: the belt does not see that the response was recorded.            *)
RecordLandsThenBelt(r) ==
    /\ at[r] = "recording"
    /\ entry' = [entry EXCEPT ![ResKey(r)] = Envelope(r)]
    /\ owed' = [owed EXCEPT ![ResKey(r)] = Ttl]
    /\ MoveTo(r, "releasing")
    /\ UNCHANGED <<captured, answer, overran, errors, losses>>

RecordLands(r) ==
    /\ at[r] = "recording"
    /\ entry' = [entry EXCEPT ![ResKey(r)] = Envelope(r)]
    /\ owed' = [owed EXCEPT ![ResKey(r)] = Ttl]
    /\ MoveTo(r, "done")
    /\ UNCHANGED <<captured, answer, overran, errors, losses>>

(* Mutant: the release of an unrecorded response is forgotten.              *)
ReleaseForgotten(r) ==
    /\ at[r] = "releasing"
    /\ MoveTo(r, "done")
    /\ UNCHANGED <<captured, entry, answer, History, errors, losses>>

(* del() does not compare: it deletes whatever is stored under the key.     *)
ReleaseLands(r) ==
    /\ at[r] = "releasing"
    /\ entry' = [entry EXCEPT ![ResKey(r)] = None]
    /\ MoveTo(r, "done")
    /\ UNCHANGED <<captured, answer, History, errors, losses>>

(* An error of either call is only logged; it may have been applied.        *)
CallFails(r) ==
    /\ Fails
    /\ \/ at[r] = "recording" /\ UNCHANGED <<entry, owed>>
       \/ /\ at[r] = "recording"
          /\ entry' = [entry EXCEPT ![ResKey(r)] = Envelope(r)]
          /\ owed' = [owed EXCEPT ![ResKey(r)] = Ttl]
       \/ at[r] = "releasing" /\ UNCHANGED <<entry, owed>>
       \/ /\ at[r] = "releasing"
          /\ entry' = [entry EXCEPT ![ResKey(r)] = None]
          /\ UNCHANGED owed
    /\ MoveTo(r, "done")
    /\ UNCHANGED <<captured, answer, overran, losses>>

-----------------------------------------------------------------------------
(* The environment.                                                         *)

(* A process dies: its requests are never answered and release nothing.     *)
Crash(p) ==
    LET open == {r \in Requests : Proc[r] = p /\ at[r] \notin {"idle", "done"}} IN
    /\ losses < MaxLosses
    /\ losses' = losses + 1
    /\ at' = [r \in Requests |-> IF r \in open THEN "done" ELSE at[r]]
    /\ answer' = [r \in Requests |-> IF r \in open /\ answer[r].kind = "none"
                                     THEN Told("lost", None) ELSE answer[r]]
    /\ UNCHANGED <<captured, entry, History, errors>>

(* The client goes away before a response that is not recorded is finished: *)
(* there is no finish event, and the belt does not run.                     *)
Disconnect(r) ==
    /\ losses < MaxLosses
    /\ losses' = losses + 1
    /\ at[r] = "running"
    /\ Reply(r, "lost", None)
    /\ UNCHANGED <<captured, entry, History, errors>>

(* Mutant: an entry is dropped two ticks late.                              *)
OlderLate(e) ==
    IF e = None THEN None ELSE IF e.left = -1 THEN None ELSE [e EXCEPT !.left = @ - 1]

Older(e) ==
    IF e = None THEN None ELSE IF e.left = 1 THEN None ELSE [e EXCEPT !.left = @ - 1]

Holds(r) == r \in captured /\ at[r] \in Active

Tick ==
    /\ \E k \in ResKeys : entry[k] # None \/ owed[k] > 0
    /\ entry' = [k \in ResKeys |-> Older(entry[k])]
    /\ owed' = [k \in ResKeys |-> IF owed[k] > 0 THEN owed[k] - 1 ELSE 0]
    /\ overran' = overran \cup {r \in Requests : Holds(r) /\ entry'[ResKey(r)] = None}
    /\ UNCHANGED <<at, captured, answer, errors, losses>>

-----------------------------------------------------------------------------
Step(r) ==
    \/ Reserve(r) \/ ReserveFails(r) \/ Look(r) \/ LookFails(r)
    \/ RespondRecorded(r) \/ RespondUnrecorded(r)
    \/ RecordLands(r) \/ ReleaseLands(r) \/ CallFails(r)

Next ==
    \/ \E r \in Requests : Arrive(r) \/ Step(r) \/ Disconnect(r)
    \/ \E p \in Procs : Crash(p)
    \/ Tick

Spec == Init /\ [][Next]_vars

(* The store answers, actions end and time passes; nobody has to send a     *)
(* request, to crash or to disconnect.                                      *)
FairSpec == Spec /\ (\A r \in Requests : WF_vars(Step(r))) /\ WF_vars(Tick)

-----------------------------------------------------------------------------
(* Type correctness of the gate and of the namespace.                       *)
TypeOK ==
    /\ at \in [Requests -> Place]
    /\ captured \subseteq Requests
    /\ entry \in [ResKeys -> Entry \cup {None}]
    /\ answer \in [Requests -> Answer]
    /\ owed \in [ResKeys -> Nat]
    /\ overran \subseteq Requests
    /\ {errors, losses} \subseteq Nat

(* Reservations exclude each other: as long as no execution outlives its    *)
(* reservation, no two requests of one key hold it at the same time, from   *)
(* the setnx that won to the landing of the record or of the release.       *)
Exclusive ==
    overran = {} =>
        \A r, s \in Requests : Holds(r) /\ Holds(s) /\ Same(r, s) => r = s

(* A recorded response stays replayable for its whole retention: unless an  *)
(* execution outlived its reservation, no late release and no late record   *)
(* takes it away, whatever failed or crashed.                               *)
RecordKept ==
    overran = {} =>
        \A k \in ResKeys : owed[k] > 0 =>
            entry[k] # None /\ entry[k].state = "done" /\ entry[k].left = owed[k]

(* A replay is the response of the same caller to the same operation, key   *)
(* and payload, one that was recorded: never an error, never somebody       *)
(* else's, however executions of the key overlapped.                        *)
ReplayIsOwn ==
    \A r \in Requests : answer[r].kind = "replay" =>
        LET s == answer[r].of IN
        /\ Principal[s] = Principal[r] /\ Principal[r] # None
        /\ Same(r, s) /\ Payload[s] = Payload[r]
        /\ answer[s].kind = "own"

(* "Still being processed" is true: without a failed call, a crash or a     *)
(* vanished client, a reservation belongs to a request that is executing or *)
(* about to record or release.                                              *)
ReservationIsLive ==
    errors = 0 /\ losses = 0 =>
        \A k \in ResKeys :
            entry[k] # None /\ entry[k].state = "processing" => at[entry[k].of] \in Active

(* Every request the gate took on is answered or lost with its process: no  *)
(* rejection of the namespace leaves one hanging.                           *)
AllAnswered == \A r \in Requests : at[r] = "reserving" ~> at[r] = "done"
=============================================================================
