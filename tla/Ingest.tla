------------------------------- MODULE Ingest -------------------------------
(***************************************************************************)
(* From the robot to the log: an adapter node (PoseTagging) publishes to   *)
(* the memory node (MemoryNode), which binds what it gets to a segment and *)
(* records it.  The two are processes of their own: either may be down     *)
(* while the other runs, and the topic is volatile, so what is published   *)
(* while the memory node is down is gone.                                  *)
(*                                                                         *)
(* Coordinates are those of the odometry frame, whose origin is where the  *)
(* robot was last switched on.  The seed was surveyed from the first of    *)
(* those places.                                                           *)
(***************************************************************************)
EXTENDS PoseTagging

CONSTANTS
  SeedFile, FreshId, SegId, NaN, Infinite, NoSegment, DefaultFrame, NoFrame,
  Grid,          \* as in MemoryNode
  Offset,        \* places on the site where the robot may be switched on
  MemDepth,      \* KEEP_LAST depth of the memory node's subscription
  MaxDelivered,  \* bound: events that reach the memory node
  MaxMemRuns     \* bound: times the memory node is started

\* The odometry cache lets no other positions through.
ASSUME IngestAssumption ==
  /\ NaN \notin Position /\ Infinite \notin Position
  /\ MemDepth \in Nat \ {0}

VARIABLES
  origin,    \* where on the site the origin of the odometry frame is, at each time
  memState, memSeed, memJoined, memUnposed, memMismatch, memInbox,
  stored, delivered, memRun

memory == <<memState, memSeed, memJoined, memUnposed, memMismatch, memInbox,
            stored, delivered, memRun>>
ingestVars == <<vars, origin, memory>>

\* What the memory node makes of a message: it has no id and no segment yet,
\* and the frame is blank if nobody knew where the robot was.
RiskEvent(e) ==
  [good |-> TRUE, id |-> UnknownFrame, seg |-> UnknownFrame,
   frame |-> e.frame, pos |-> e.pos, ts |-> e.born]

Memory == INSTANCE MemoryNode WITH
  Message <- {RiskEvent(e) : e \in TaggedEvent},
  EventId <- {}, Blank <- UnknownFrame, Depth <- MemDepth,
  MaxMessages <- MaxDelivered, MaxRuns <- MaxMemRuns,
  state <- memState, seed <- memSeed, joined <- memJoined,
  unposed <- memUnposed, mismatch <- memMismatch, inbox <- memInbox,
  sent <- delivered, run <- memRun

IngestInit ==
  /\ Init
  /\ origin \in [Time -> Offset]
  /\ Memory!Init

-----------------------------------------------------------------------------

\* Once the last event is delivered, nothing the adapter does matters (bound).
AdapterStep ==
  /\ delivered < MaxDelivered
  /\ Step
  /\ UNCHANGED <<origin, memory>>

Deliver ==
  /\ TakeEvent
  /\ Memory!Publish(RiskEvent(Head(topic)))
  /\ UNCHANGED origin

LoseEvent ==
  /\ TakeEvent
  /\ memState # "up"
  /\ UNCHANGED <<origin, memory>>

MemoryStep ==
  /\ \/ Memory!StartWithoutSeed
     \/ \E f \in SeedFile :
          Memory!StartWithSeed(f) \/ Memory!StartWithRejectedSeed(f) \/ Memory!DieOfSeed(f)
     \/ Memory!Stop
     \/ Memory!OnEvent
  /\ UNCHANGED <<vars, origin>>

IngestNext == AdapterStep \/ Deliver \/ LoseEvent \/ MemoryStep

IngestSpec == IngestInit /\ [][IngestNext]_ingestVars

-----------------------------------------------------------------------------
(* Safety.                                                                 *)

Joined == {r \in Memory!Records : r.by = "join"}

\* The robot was where the record says, at time m, which is near the event's.
WasThere(r, m) ==
  /\ m <= now
  /\ r.pos = at[m]
  /\ Abs(r.ts - m) <= MaxAge + StampError

\* End to end, over all queues, delays, restarts of either node and edits of
\* the seed: if the log says that the spatial join bound an event to a segment,
\* then that is the nearest segment, of the seed then in force and in its
\* frame, to where the robot really was within MaxAge of the event's time, give
\* or take the error of the stamps.
JoinsAreTrue ==
  \A r \in Joined :
    /\ r.frame = r.seed.frame
    /\ \E m \in Time :
         /\ WasThere(r, m)
         /\ r.seg = Memory!SegmentForPoint(r.seed.segs, at[m]).id

-----------------------------------------------------------------------------
(* What the documents say and the code does not do.                        *)

\* "The memory node refuses to spatially join an event whose frame differs
\* from the seed's": a seed that was surveyed from one boot pose is in another
\* frame than an event that was located from another one.
JoinsShareTheOrigin ==
  \A r \in Joined : \E m \in Time :
    /\ WasThere(r, m)
    /\ origin[m] = origin[Start]
=============================================================================
