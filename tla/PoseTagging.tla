---------------------------- MODULE PoseTagging ----------------------------
(***************************************************************************)
(* An adapter node of riskgraph_memory: it turns upstream messages, which  *)
(* know what happened but not where, into RiskEvents, and stamps each with *)
(* the pose that its odometry cache holds, if that pose is close enough in *)
(* time to the event.                                                      *)
(*                                                                         *)
(* The node spins on a single-threaded executor, so every callback is one  *)
(* step.  The world around it is part of the model: a robot that moves, a  *)
(* driver that publishes its pose on a BEST_EFFORT topic of depth 1, on a  *)
(* clock of its own, or with no stamp at all; upstream messages that wait  *)
(* in a RELIABLE KEEP_LAST queue while time passes; a node that dies and   *)
(* is started again.                                                       *)
(*                                                                         *)
(* The three adapters differ in where the time of an event comes from: the *)
(* header of a safety alert, the timestamp of a HELIX fault, the receive   *)
(* time of a slip edge.  Kinds says which of them a node handles; the slip *)
(* flag arrives as "slip" and "clear".                                     *)
(***************************************************************************)
EXTENDS Topic

CONSTANTS
  Position,      \* where the robot can be
  Origin,        \* geometry_msgs/Point()
  NotFinite,     \* NaN or infinity, in a coordinate or in a timestamp
  Kinds,         \* what the node subscribes to besides odometry
  Frame,         \* the frames odometry is published in
  UnknownFrame,  \* the blank frame_id
  None,          \* no sample, no pose
  MaxAge,        \* max_age_s, in ticks
  Skew,          \* the driver's clock minus the clock of everybody else
  MaxDelay,      \* ticks an odometry sample may wait before its callback
  Depth,         \* KEEP_LAST depth of the queues in and out
  Start,         \* the time at which the node is first started
  MaxTime,       \* bound: the last tick
  MaxEvents      \* bound: events one run of the node publishes

\* Time 0 is an unset stamp, and no clock is ever within max_age_s of it.
ASSUME TimeAssumption ==
  /\ MaxAge \in Nat \ {0}
  /\ Skew \in Int
  /\ MaxDelay \in Nat
  /\ Depth \in Nat \ {0}
  /\ Start \in Nat /\ Start > MaxAge /\ Start + Skew > MaxAge
  /\ MaxTime \in Nat /\ MaxTime >= Start
  /\ MaxEvents \in Nat

ASSUME ValueAssumption ==
  /\ Kinds \subseteq {"alert", "fault", "slip", "clear"}
  /\ Origin \in Position
  /\ NotFinite \notin Position /\ NotFinite \notin Int
  /\ UnknownFrame \notin Frame

Time == Start..MaxTime

ASSUME NoneAssumption ==
  /\ None \notin [pos : Position \cup {NotFinite}, frame : Frame \cup {UnknownFrame},
                  stamp : Int, taken : Nat]
  /\ None \notin [pos : Position, frame : Frame, stamp : Int]

VARIABLES
  now,      \* the time
  at,       \* where the robot is at each time
  odom,     \* the odometry sample that waits for its callback, or None
  inbox,    \* upstream messages that wait for their callback
  up,       \* is the node running
  cache,    \* OdometryCache._pose
  prev,     \* TactileAdapter._prev: the last slip flag received
  posed,    \* posed_event_count
  unposed,  \* unposed_event_count
  topic     \* /riskgraph/risk_events, as far as nobody has taken it yet

world == <<now, at>>
node == <<up, cache, prev, posed, unposed>>
vars == <<now, at, odom, inbox, up, cache, prev, posed, unposed, topic>>

\* "taken" is when the robot was there: the driver knows it, the message does
\* not carry it unless it is stamped.
Sample == [pos : Position \cup {NotFinite}, frame : Frame \cup {UnknownFrame},
           stamp : Int, taken : Time]

Upstream == [kind : Kinds, stamp : {0, NotFinite} \cup Time]

Pose == [pos : Position, frame : Frame, stamp : Int]

\* What an adapter publishes, as far as location goes; "born" is the time the
\* adapter went by when it looked for a pose.
TaggedEvent == [pos : Position, frame : Frame \cup {UnknownFrame}, born : {0} \cup Time]

TypeOK ==
  /\ now \in Time
  /\ at \in [Time -> Position]
  /\ odom \in Sample \cup {None}
  /\ inbox \in Seq(Upstream)
  /\ up \in BOOLEAN /\ prev \in BOOLEAN
  /\ cache \in Pose \cup {None}
  /\ posed \in Nat /\ unposed \in Nat
  /\ topic \in Seq(TaggedEvent)

Init ==
  /\ now = Start
  /\ at \in [Time -> Position]
  /\ odom = None
  /\ inbox = <<>>
  /\ up = FALSE /\ prev = FALSE
  /\ cache = None
  /\ posed = 0 /\ unposed = 0
  /\ topic = <<>>

-----------------------------------------------------------------------------
(* The world.                                                              *)

\* No sample waits longer than MaxDelay: by then it was handled or lost.
Tick ==
  /\ now < MaxTime
  /\ odom # None => now - odom.taken < MaxDelay
  /\ now' = now + 1
  /\ UNCHANGED <<at, odom, inbox, node, topic>>

\* The driver publishes where the robot is, or garbage; a sample that still
\* waits is replaced.
PublishOdometry(pos, frame, stamp) ==
  /\ up
  /\ pos \in {at[now], NotFinite}
  /\ odom' = [pos |-> pos, frame |-> frame, stamp |-> stamp, taken |-> now]
  /\ UNCHANGED <<world, inbox, node, topic>>

LoseOdometry ==
  /\ odom # None
  /\ odom' = None
  /\ UNCHANGED <<world, inbox, node, topic>>

\* The slip flag is of now; alerts and faults may name no time, a fault
\* garbage.
PublishUpstream(m) ==
  /\ up
  /\ \/ m.stamp = now
     \/ m.stamp = 0 /\ m.kind \in {"alert", "fault"}
     \/ m.stamp = NotFinite /\ m.kind = "fault"
  /\ posed + unposed + Len(inbox) < MaxEvents
  /\ inbox' = KeepLast(inbox, m, Depth)
  /\ UNCHANGED <<world, odom, node, topic>>

\* The memory node takes an event from the topic.
TakeEvent ==
  /\ topic # <<>>
  /\ topic' = Tail(topic)
  /\ UNCHANGED <<world, odom, inbox, node>>

-----------------------------------------------------------------------------
(* The node.                                                               *)

\* A new process has an empty cache, takes the slip flag to be low and
\* subscribes anew.
StartNode ==
  /\ ~up
  /\ up' = TRUE
  /\ cache' = None
  /\ prev' = FALSE
  /\ posed' = 0 /\ unposed' = 0
  /\ UNCHANGED <<world, odom, inbox, topic>>

\* What the process knew dies with it.
Die ==
  /\ up' = FALSE
  /\ odom' = None
  /\ inbox' = <<>>
  /\ cache' = None
  /\ prev' = FALSE
  /\ posed' = 0 /\ unposed' = 0
  /\ UNCHANGED <<world, topic>>

Crash == up /\ Die

\* Mutant: coordinates are not checked.
UsableIfNotFinite(pos, frame, stamp) == frame # UnknownFrame /\ stamp > 0

\* OdometryCache.update: a malformed sample leaves the previous pose.
Usable(pos, frame, stamp) ==
  /\ frame # UnknownFrame
  /\ pos # NotFinite
  /\ stamp > 0

\* Mutant: a malformed sample renews the stamp of the pose that is kept.
UpdateRenewing(pos, frame, stamp) ==
  cache' = IF Usable(pos, frame, stamp)
           THEN [pos |-> pos, frame |-> frame, stamp |-> stamp]
           ELSE IF cache = None THEN cache ELSE [cache EXCEPT !.stamp = stamp]

Update(pos, frame, stamp) ==
  cache' = IF Usable(pos, frame, stamp)
           THEN [pos |-> pos, frame |-> frame, stamp |-> stamp]
           ELSE cache

\* A sample without a stamp counts as measured when it is received.
OnOdom ==
  /\ up
  /\ odom # None
  /\ Update(odom.pos, odom.frame, IF odom.stamp <= 0 THEN now ELSE odom.stamp)
  /\ odom' = None
  /\ UNCHANGED <<world, inbox, up, prev, posed, unposed, topic>>

\* Mutant: only a pose that is too old is refused.
PoseAtOneSided(t) ==
  IF cache # None /\ t - cache.stamp <= MaxAge THEN cache ELSE None

\* Mutant: an event without a time is taken to be of now, as a sample is.
PoseAtNow(t) ==
  LET time == IF t = 0 THEN now ELSE t
  IN  IF cache # None /\ time - cache.stamp \in -MaxAge..MaxAge THEN cache ELSE None

\* OdometryCache.pose_at: the cached pose, if within MaxAge of time t.
PoseAt(t) ==
  IF cache # None /\ t - cache.stamp \in -MaxAge..MaxAge THEN cache ELSE None

\* stamp_pose, then publish.
PublishStamped(t) ==
  LET pose == PoseAt(t)
  IN  IF pose = None
      THEN /\ topic' = KeepLast(topic, [pos |-> Origin, frame |-> UnknownFrame,
                                        born |-> t], Depth)
           /\ unposed' = unposed + 1
           /\ UNCHANGED posed
      ELSE /\ topic' = KeepLast(topic, [pos |-> pose.pos, frame |-> pose.frame,
                                        born |-> t], Depth)
           /\ posed' = posed + 1
           /\ UNCHANGED unposed

Receive(kind) ==
  /\ up
  /\ inbox # <<>>
  /\ Head(inbox).kind = kind

OnAlert ==
  /\ Receive("alert")
  /\ PublishStamped(Head(inbox).stamp)
  /\ inbox' = Tail(inbox)
  /\ UNCHANGED <<world, odom, up, cache, prev>>

\* int() of a timestamp that is not finite raises in the callback, and the
\* node dies of it.
OnFault ==
  /\ Receive("fault")
  /\ IF Head(inbox).stamp = NotFinite
     THEN Die
     ELSE /\ PublishStamped(Head(inbox).stamp)
          /\ inbox' = Tail(inbox)
          /\ UNCHANGED <<world, odom, up, cache, prev>>

\* Only the leading edge of the slip flag is an event, and it happens when it
\* is received.
OnSlip ==
  /\ Receive("slip")
  /\ IF prev THEN UNCHANGED <<topic, posed, unposed>> ELSE PublishStamped(now)
  /\ prev' = TRUE
  /\ inbox' = Tail(inbox)
  /\ UNCHANGED <<world, odom, up, cache>>

OnClear ==
  /\ Receive("clear")
  /\ prev' = FALSE
  /\ inbox' = Tail(inbox)
  /\ UNCHANGED <<world, odom, up, cache, posed, unposed, topic>>

Callback == OnOdom \/ OnAlert \/ OnFault \/ OnSlip \/ OnClear

DriverStamps == {0, now + Skew}

\* Everything but the delivery of what is published.
Step ==
  \/ Tick \/ LoseOdometry
  \/ \E p \in Position \cup {NotFinite}, f \in Frame \cup {UnknownFrame},
        s \in DriverStamps : PublishOdometry(p, f, s)
  \/ \E m \in Upstream : PublishUpstream(m)
  \/ StartNode \/ Crash
  \/ Callback

Next == Step \/ TakeEvent

Spec == Init /\ [][Next]_vars

-----------------------------------------------------------------------------
(* Safety.                                                                 *)

Abs(n) == IF n < 0 THEN -n ELSE n

\* How far a stamp in the cache can be from the time of the measurement: the
\* driver's clock is off, or there was no stamp and the sample waited.
StampError == IF Abs(Skew) > MaxDelay THEN Abs(Skew) ELSE MaxDelay

\* The cache holds a pose the robot really had, near the time it is filed
\* under, whatever garbage the driver published in between.
CacheIsHonest ==
  cache # None =>
    /\ cache.pos \in Position /\ cache.frame \in Frame /\ cache.stamp > 0
    /\ \E m \in Time : /\ m <= now
                       /\ cache.pos = at[m]
                       /\ Abs(cache.stamp - m) <= StampError

\* "An unbound event is honest; a confidently mislocated one is not": a
\* published event either carries the blank frame, or a position where the
\* robot was within MaxAge of the event's time, give or take the error of the
\* stamps.  However long the message, the sample and the event waited.
Located(e) == e.frame # UnknownFrame

EventsAreHonest ==
  \A n \in 1..Len(topic) :
    LET e == topic[n]
    IN  IF Located(e)
        THEN \E m \in Time : /\ m <= now
                             /\ e.pos = at[m]
                             /\ Abs(e.born - m) <= MaxAge + StampError
        ELSE e.pos = Origin

\* An event whose own stamp is unset is never located.
UnsetStampIsUnlocated ==
  \A n \in 1..Len(topic) : topic[n].born = 0 => ~Located(topic[n])
=============================================================================
