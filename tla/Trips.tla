-------------------------------- MODULE Trips --------------------------------
(***************************************************************************)
(* The trips the backend infers for the device of one vehicle:             *)
(* TripService.process (backend/app/services/trips.py) in the transaction  *)
(* of every telemetry message with a position and a speed                  *)
(* (IngestionService._telemetry).                                          *)
(*                                                                         *)
(* A transaction reads the device first, the active trip after further     *)
(* queries, and writes when it commits; others run in between, at read     *)
(* committed and without row versions.  Only columns that differ from      *)
(* what was read are written.                                              *)
(*                                                                         *)
(* Times are kept as ages, as in DeviceStatus: how long ago the moment     *)
(* was.  Replayed telemetry brings the time it was measured at.            *)
(***************************************************************************)
EXTENDS Integers, FiniteSets

CONSTANTS
    Points,          \* bound: telemetry transactions under way at one time
    Rows,            \* bound: numbers of the rows of active trips
    StartDuration,   \* trip_start_duration_seconds
    StopDuration,    \* trip_stop_duration_seconds
    MaxLag           \* bound: age of a measurement when it is committed

ASSUME TripAssumption ==
    /\ StartDuration \in Nat /\ StopDuration \in Nat /\ MaxLag \in Nat
    /\ IsFiniteSet(Points)
    /\ IsFiniteSet(Rows) /\ Rows \subseteq Nat \ {0}
    /\ Cardinality(Rows) > 2 * Cardinality(Points)

VARIABLES
    motion,          \* age of devices.motion_candidate_since, or Null
    stopped,         \* age of devices.stopped_candidate_since, or Null
    trips,           \* the active trips, by row
    point            \* the transactions

tripVars == <<motion, stopped, trips, point>>

\* Ages beyond Aged cannot be told apart by the code.
Aged == MaxLag + (IF StartDuration > StopDuration THEN StartDuration
                                                  ELSE StopDuration) + 1
Null == Aged + 1
Ages == 0..Null
Grow(age) == IF age < Aged THEN age + 1 ELSE age

\* moving reaches trip_start_speed_kmh, stopped does not exceed
\* trip_stop_speed_kmh, slow is between the two.
Speeds == {"moving", "slow", "stopped"}

\* started and last are the ages of started_at and last_point_at.
NoTrip == [open |-> FALSE, started |-> Null, last |-> Null]
NoRow == 0

\* step: "idle", "trip" (the device is read, the trip is not), "commit".
\* motion, stopped, row and last are what was read.
Resting == [step |-> "idle", age |-> 0, speed |-> "stopped",
            motion |-> Null, stopped |-> Null, row |-> NoRow, last |-> Null]

-----------------------------------------------------------------------------
\* A message with a position comes, and _resolve_identity reads the device.
ReadDevice(m) ==
    /\ point[m].step = "idle"
    /\ \E age \in 0..MaxLag, speed \in Speeds :
          point' = [point EXCEPT ![m] =
                       [Resting EXCEPT !.step = "trip", !.age = age,
                          !.speed = speed, !.motion = motion,
                          !.stopped = stopped]]
    /\ UNCHANGED <<motion, stopped, trips>>

\* The active trip that started last.
Newest == {r \in Rows : /\ trips[r].open
                        /\ \A s \in Rows : trips[s].open =>
                              trips[r].started <= trips[s].started}

ReadTrip(m) ==
    /\ point[m].step = "trip"
    /\ \/ /\ Newest = {}
          /\ point' = [point EXCEPT ![m].step = "commit"]
       \/ \E r \in Newest :
             point' = [point EXCEPT ![m].step = "commit", ![m].row = r,
                                    ![m].last = trips[r].last]
    /\ UNCHANGED <<motion, stopped, trips>>

-----------------------------------------------------------------------------
(* TripService.process, with what the transaction has read                 *)

\* A number that no active trip has, nor one some transaction has read.
UnusedRow(r) == ~trips[r].open /\ \A m \in Points : point[m].row # r

FirstUnusedRow ==
    CHOOSE r \in Rows : UnusedRow(r) /\ \A s \in Rows : UnusedRow(s) => r <= s

\* What differs from the column read is written.
Written(column, read, new) == IF new = read THEN column ELSE new

\* No active trip: the candidate is dropped, begun, kept, or becomes a trip.
WithoutTrip(p) ==
    \/ /\ p.speed # "moving"
       /\ motion' = Written(motion, p.motion, Null)
       /\ UNCHANGED <<stopped, trips>>
    \/ /\ p.speed = "moving" /\ p.motion = Null
       /\ motion' = p.age
       /\ UNCHANGED <<stopped, trips>>
    \/ /\ p.speed = "moving" /\ p.motion # Null
       /\ p.motion - p.age < StartDuration
       /\ UNCHANGED <<motion, stopped, trips>>
    \/ /\ p.speed = "moving" /\ p.motion # Null
       /\ p.motion - p.age >= StartDuration
       /\ motion' = Null
       /\ stopped' = Written(stopped, p.stopped, Null)
       /\ trips' = [trips EXCEPT ![FirstUnusedRow] =
                       [open |-> TRUE, started |-> p.motion, last |-> p.age]]

\* A point is taken unless it is not after the last one or jumps: is too far
\* from it for the time between them.
Taken(p, jump) == p.age < p.last /\ ~jump

\* Mutant: every stopped point begins the stop again.
BeginsAgain(p) == p.age

\* The time the vehicle stopped.
StoppedSince(p) == IF p.stopped = Null THEN p.age ELSE p.stopped

Completes(p) == p.speed = "stopped" /\ StoppedSince(p) - p.age >= StopDuration

\* A trip that is no longer active stays so.
WithTrip(p, jump) ==
    \/ /\ ~Taken(p, jump)
       /\ UNCHANGED <<motion, stopped, trips>>
    \/ /\ Taken(p, jump)
       /\ stopped' = Written(stopped, p.stopped,
                             IF p.speed = "stopped" THEN StoppedSince(p)
                                                    ELSE Null)
       /\ trips' = [trips EXCEPT ![p.row] =
                       IF ~@.open \/ Completes(p) THEN NoTrip
                       ELSE [@ EXCEPT !.last = p.age]]
       /\ UNCHANGED motion

CommitPoint(m, jump) ==
    /\ point[m].step = "commit"
    /\ IF point[m].row = NoRow THEN WithoutTrip(point[m])
                               ELSE WithTrip(point[m], jump)
    /\ point' = [point EXCEPT ![m] = Resting]

\* The database refuses, in the commit or in a query before it.
AbandonPoint(m) ==
    /\ point[m].step # "idle"
    /\ point' = [point EXCEPT ![m] = Resting]
    /\ UNCHANGED <<motion, stopped, trips>>

\* A unit of time; no measurement is older than MaxLag when it is committed.
TripTick ==
    /\ \A m \in Points : point[m].step # "idle" => point[m].age < MaxLag
    /\ motion' = Grow(motion) /\ stopped' = Grow(stopped)
    /\ trips' = [r \in Rows |->
                    [trips[r] EXCEPT !.started = Grow(@), !.last = Grow(@)]]
    /\ point' = [m \in Points |->
                    IF point[m].step = "idle" THEN point[m]
                    ELSE [point[m] EXCEPT !.age = @ + 1,
                             !.motion = Grow(@), !.stopped = Grow(@),
                             !.last = Grow(@)]]

-----------------------------------------------------------------------------
TripInit ==
    /\ motion = Null /\ stopped = Null
    /\ trips = [r \in Rows |-> NoTrip]
    /\ point = [m \in Points |-> Resting]

TripNext ==
    \/ \E m \in Points :
          \/ ReadDevice(m) \/ ReadTrip(m) \/ AbandonPoint(m)
          \/ \E jump \in BOOLEAN : CommitPoint(m, jump)
    \/ TripTick

\* Queries are answered, and the database does not refuse for ever.
TripSpec ==
    /\ TripInit /\ [][TripNext]_tripVars
    /\ \A m \in Points :
          /\ WF_tripVars(ReadTrip(m))
          /\ SF_tripVars(\E jump \in BOOLEAN : CommitPoint(m, jump))

-----------------------------------------------------------------------------
TripTypeOK ==
    /\ motion \in Ages /\ stopped \in Ages
    /\ \E r \in Rows : UnusedRow(r)
    /\ trips \in [Rows -> [open : BOOLEAN, started : Ages, last : Ages]]
    /\ point \in [Points ->
                    [step : {"idle", "trip", "commit"}, age : 0..MaxLag,
                     speed : Speeds, motion : Ages, stopped : Ages,
                     row : Rows \cup {NoRow}, last : Ages]]

Standing == \A m \in Points : point[m].speed = "stopped"
CommitsNear(m) == CommitPoint(m, FALSE)

\* Once the vehicle stands for good, its telemetry keeps coming, however late
\* and in whatever order, and time goes on, no trip stays active, also when
\* transactions have opened two.
TripsEnd ==
    (/\ <>[]Standing
     /\ []<><<\E m \in Points : CommitsNear(m)>>_tripVars
     /\ []<><<TripTick>>_tripVars)
        => <>[](\A r \in Rows : ~trips[r].open)

\* A point older than the last one accepted does not set an active trip back
\* (docs/architecture.md).
TripNeverRetreats ==
    [][\A m \in Points, jump \in BOOLEAN : CommitPoint(m, jump) =>
          \A r \in Rows : trips[r].open /\ trips'[r].open =>
                             trips'[r].last <= trips[r].last]_tripVars

\* At most one trip is active.
OneActiveTrip == Cardinality({r \in Rows : trips[r].open}) <= 1
=============================================================================
