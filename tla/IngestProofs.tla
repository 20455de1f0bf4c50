---------------------------- MODULE IngestProofs ----------------------------
(***************************************************************************)
(* Proofs about PoseTagging, for any positions, frames, clock skew, delay, *)
(* queue depth and age limit; and about Ingest, for any number of seeds,   *)
(* restarts, events and any depth of the queues.  What the first part      *)
(* shows of the adapter holds in the second because every step of the      *)
(* whole is a step of the adapter or leaves it alone.                      *)
(***************************************************************************)
EXTENDS Ingest, DataLemmas

-----------------------------------------------------------------------------
(* The adapter: its inductive invariant.                                   *)

\* Only faults carry a timestamp that is not finite.
OnlyFaultsAreNotFinite ==
  \A n \in 1..Len(inbox) : inbox[n].stamp = NotFinite => inbox[n].kind = "fault"

\* A sample that waits was measured at most MaxDelay ago, where the robot was
\* then, and is stamped by the driver's clock or not at all.
SampleIsHonest ==
  odom # None =>
    /\ odom \in Sample
    /\ odom.taken <= now /\ now - odom.taken <= MaxDelay
    /\ odom.pos # NotFinite => odom.pos = at[odom.taken]
    /\ odom.stamp = 0 \/ odom.stamp = odom.taken + Skew

\* No cached pose is so old that an unset stamp could match it.
CacheIsLate == cache # None => cache.stamp > MaxAge

\* The inductive invariant: what is checked, and the three facts it rests on.
IInv ==
  /\ TypeOK
  /\ OnlyFaultsAreNotFinite
  /\ SampleIsHonest
  /\ CacheIsHonest
  /\ CacheIsLate
  /\ EventsAreHonest
  /\ UnsetStampIsUnlocated

\* What both invariants about the topic say of one event.
EventOK(e) ==
  /\ IF Located(e)
     THEN \E m \in Time : /\ m <= now
                          /\ e.pos = at[m]
                          /\ Abs(e.born - m) <= MaxAge + StampError
     ELSE e.pos = Origin
  /\ e.born = 0 => ~Located(e)

\* The two invariants about the topic hold when every event on it is OK.
LEMMA TopicIsOK ==
  (\A n \in 1..Len(topic) : EventOK(topic[n])) <=>
    EventsAreHonest /\ UnsetStampIsUnlocated
BY DEF EventOK, EventsAreHonest, UnsetStampIsUnlocated

\* An event that is honest stays so while time passes.
LEMMA EventStaysOK ==
  ASSUME NEW e, EventOK(e), now \in Time, now' \in Time, now <= now', at' = at
  PROVE  EventOK(e)'
BY DEF EventOK, Located, Abs, StampError, Time

-----------------------------------------------------------------------------

\* The invariant holds before the node is first started.
LEMMA InitIInv == Init => IInv
<1> SUFFICES ASSUME Init PROVE IInv
  OBVIOUS
<1>1. now \in Time
  BY TimeAssumption DEF Init, Time
<1>2. inbox \in Seq(Upstream) /\ topic \in Seq(TaggedEvent)
      /\ Len(inbox) = 0 /\ Len(topic) = 0
  BY EmptySeq DEF Init
<1>3. TypeOK
  BY <1>1, <1>2 DEF Init, TypeOK
<1>4. QED
  BY <1>2, <1>3 DEF Init, IInv, OnlyFaultsAreNotFinite, SampleIsHonest,
     CacheIsHonest, CacheIsLate, EventsAreHonest, UnsetStampIsUnlocated

\* An event that the node publishes by time t is honest: it has the cached
\* pose and that pose is near enough, or it has none.
LEMMA PublishedIsOK ==
  ASSUME TypeOK, CacheIsHonest, CacheIsLate,
         NEW t \in {0} \cup Time, PublishStamped(t), UNCHANGED <<world, cache>>
  PROVE  \E e \in TaggedEvent :
           /\ topic' = KeepLast(topic, e, Depth)
           /\ EventOK(e)'
           /\ posed' \in Nat /\ unposed' \in Nat
<1>1. /\ now \in Time /\ now' = now /\ at' = at
      /\ at \in [Time -> Position]
      /\ posed \in Nat /\ unposed \in Nat
      /\ cache \in Pose \cup {None}
  BY DEF TypeOK, world
<1>2. Time \subseteq Nat /\ MaxAge \in Nat \ {0} /\ StampError \in Nat
  BY TimeAssumption DEF Time, StampError, Abs
<1>3. CASE PoseAt(t) = None
  <2> DEFINE e == [pos |-> Origin, frame |-> UnknownFrame, born |-> t]
  <2>1. topic' = KeepLast(topic, e, Depth) /\ posed' = posed /\ unposed' = unposed + 1
    BY <1>3 DEF PublishStamped
  <2>2. e \in TaggedEvent
    BY ValueAssumption DEF TaggedEvent
  <2>3. EventOK(e)'
    BY DEF EventOK, Located
  <2>4. QED
    BY <1>1, <2>1, <2>2, <2>3
<1>4. CASE PoseAt(t) # None
  <2> DEFINE e == [pos |-> cache.pos, frame |-> cache.frame, born |-> t]
  <2>1. /\ PoseAt(t) = cache /\ cache # None
        /\ t - cache.stamp \in -MaxAge..MaxAge
    BY <1>4 DEF PoseAt
  <2>2. topic' = KeepLast(topic, e, Depth) /\ posed' = posed + 1 /\ unposed' = unposed
    BY <1>4, <2>1 DEF PublishStamped
  <2>3. cache \in Pose /\ cache.pos \in Position /\ cache.frame \in Frame
        /\ cache.stamp \in Int
    BY <1>1, <2>1 DEF Pose
  <2>4. e \in TaggedEvent
    BY <2>3 DEF TaggedEvent
  <2>5. Located(e) /\ t # 0
    BY <1>2, <2>1, <2>3, ValueAssumption DEF Located, CacheIsLate
  <2>6. PICK m \in Time : /\ m <= now
                          /\ cache.pos = at[m]
                          /\ Abs(cache.stamp - m) <= StampError
    BY <2>1 DEF CacheIsHonest
  <2>7. Abs(t - m) <= MaxAge + StampError
    <3>1. t \in Int /\ m \in Int
      BY <1>2
    <3>2. QED
      BY <1>2, <2>1, <2>3, <2>6, <3>1 DEF Abs
  <2>8. EventOK(e)'
    <3>1. (Located(e) /\ e.pos = at[m] /\ e.born = t)'
      BY <1>1, <2>5, <2>6 DEF Located
    <3>2. StampError' = StampError
      OBVIOUS
    <3>3. QED
      BY <1>1, <2>5, <2>6, <2>7, <3>1 DEF EventOK, Located
  <2>9. QED
    BY <1>1, <2>2, <2>4, <2>8
<1>5. QED
  BY <1>3, <1>4

\* The topic stays honest if all that is new on it is.
LEMMA TopicStaysHonest ==
  ASSUME EventsAreHonest, UnsetStampIsUnlocated,
         now \in Time, now' \in Time, now <= now', at' = at,
         \A n \in 1..Len(topic') :
           \/ \E k \in 1..Len(topic) : topic'[n] = topic[k]
           \/ \E e \in TaggedEvent : topic'[n] = e /\ EventOK(e)'
  PROVE  EventsAreHonest' /\ UnsetStampIsUnlocated'
<1>1. ASSUME NEW n \in 1..Len(topic')
      PROVE  EventOK(topic[n])'
  <2>1. PICK x : x = topic'[n]
    OBVIOUS
  <2>2. EventOK(x)'
    <3>1. CASE \E k \in 1..Len(topic) : topic'[n] = topic[k]
      <4>1. PICK k \in 1..Len(topic) : x = topic[k]
        BY <2>1, <3>1
      <4>2. EventOK(x)
        BY <4>1, TopicIsOK DEF EventOK
      <4>3. QED
        BY <4>2, EventStaysOK
    <3>2. CASE \E e \in TaggedEvent : topic'[n] = e /\ EventOK(e)'
      BY <2>1, <3>2
    <3>3. QED
      BY <3>1, <3>2
  <2>3. QED
    BY <2>1, <2>2 DEF EventOK, Located
<1>2. QED
  BY <1>1 DEF EventOK, EventsAreHonest, UnsetStampIsUnlocated

\* The cache and the sample stay honest while time passes and nobody touches
\* them.
LEMMA CacheStaysHonest ==
  ASSUME CacheIsHonest, CacheIsLate, cache' = cache, at' = at,
         now \in Time, now' \in Time, now <= now'
  PROVE  CacheIsHonest' /\ CacheIsLate'
BY DEF CacheIsHonest, CacheIsLate, Abs, StampError, Time

\* The callback of an upstream message: one message less, one event more.
LEMMA PublishingKeepsIInv ==
  ASSUME IInv, NEW t \in {0} \cup Time, PublishStamped(t),
         inbox # <<>>, inbox' = Tail(inbox), UNCHANGED <<world, odom, up, cache>>,
         prev' \in BOOLEAN
  PROVE  IInv'
<1>1. PICK e \in TaggedEvent :
        /\ topic' = KeepLast(topic, e, Depth)
        /\ EventOK(e)'
        /\ posed' \in Nat /\ unposed' \in Nat
  BY PublishedIsOK DEF IInv
<1>2. /\ now' = now /\ at' = at /\ now \in Time /\ now <= now'
      /\ topic \in Seq(TaggedEvent) /\ inbox \in Seq(Upstream)
  BY DEF IInv, TypeOK, world, Time
<1>3. /\ topic' \in Seq(TaggedEvent)
      /\ \A n \in 1..Len(topic') :
           topic'[n] = e \/ \E k \in 1..Len(topic) : topic'[n] = topic[k]
  BY <1>1, <1>2, TimeAssumption, KeepLastProperties
<1>4. EventsAreHonest' /\ UnsetStampIsUnlocated'
  BY <1>1, <1>2, <1>3, TopicStaysHonest DEF IInv
<1>5. inbox' \in Seq(Upstream) /\ OnlyFaultsAreNotFinite'
  BY <1>2, DequeueProperties DEF IInv, OnlyFaultsAreNotFinite
<1>6. TypeOK'
  BY <1>1, <1>2, <1>3, <1>5 DEF IInv, TypeOK
<1>7. SampleIsHonest'
  BY <1>2 DEF IInv, SampleIsHonest
<1>8. CacheIsHonest' /\ CacheIsLate'
  BY <1>2, CacheStaysHonest DEF IInv
<1>9. QED
  BY <1>4, <1>5, <1>6, <1>7, <1>8 DEF IInv

\* A step that leaves the clock, the messages and the topic as they are, or
\* drops some, keeps what is said of them.
LEMMA QuietStepKeepsTopic ==
  ASSUME IInv, UNCHANGED <<world, topic>>
  PROVE  EventsAreHonest' /\ UnsetStampIsUnlocated'
<1>1. now' = now /\ at' = at /\ topic' = topic /\ now \in Time /\ now <= now'
  BY DEF IInv, TypeOK, world, Time
<1>2. QED
  BY <1>1, TopicStaysHonest DEF IInv

\* Every step of the world and of the node keeps the invariant.
LEMMA NextKeepsIInv == IInv /\ [Next]_vars => IInv'
<1> SUFFICES ASSUME IInv, [Next]_vars PROVE IInv'
  OBVIOUS
<1> USE TimeAssumption
<1>0. /\ now \in Time /\ at \in [Time -> Position]
      /\ odom \in Sample \cup {None} /\ inbox \in Seq(Upstream)
      /\ cache \in Pose \cup {None} /\ topic \in Seq(TaggedEvent)
      /\ posed \in Nat /\ unposed \in Nat /\ up \in BOOLEAN /\ prev \in BOOLEAN
      /\ Time \subseteq Nat /\ \A t \in Time : t > MaxAge /\ t + Skew > MaxAge
  BY DEF IInv, TypeOK, Time
<1>1. CASE Tick
  <2>1. now' = now + 1 /\ now' \in Time /\ now <= now' /\ at' = at
    BY <1>0, <1>1 DEF Tick, Time
  <2>2. UNCHANGED <<at, odom, inbox, up, cache, prev, posed, unposed, topic>>
    BY <1>1 DEF Tick, node
  <2>3. TypeOK'
    BY <2>1, <2>2 DEF IInv, TypeOK
  <2>4. SampleIsHonest'
    BY <1>0, <1>1, <2>1, <2>2 DEF Tick, IInv, SampleIsHonest, Sample
  <2>5. CacheIsHonest' /\ CacheIsLate'
    BY <1>0, <2>1, <2>2, CacheStaysHonest DEF IInv
  <2>6. EventsAreHonest' /\ UnsetStampIsUnlocated'
    BY <1>0, <2>1, <2>2, TopicStaysHonest DEF IInv
  <2>7. OnlyFaultsAreNotFinite'
    BY <2>2 DEF IInv, OnlyFaultsAreNotFinite
  <2>8. QED
    BY <2>3, <2>4, <2>5, <2>6, <2>7 DEF IInv
<1>2. ASSUME NEW p \in Position \cup {NotFinite}, NEW f \in Frame \cup {UnknownFrame},
             NEW s \in DriverStamps, PublishOdometry(p, f, s)
      PROVE  IInv'
  <2>1. UNCHANGED <<world, inbox, up, cache, prev, posed, unposed, topic>>
    BY <1>2 DEF PublishOdometry, node
  <2>2. now' = now /\ at' = at /\ now <= now'
    BY <1>0, <2>1 DEF world
  <2>3. odom' = [pos |-> p, frame |-> f, stamp |-> s, taken |-> now]
    BY <1>2 DEF PublishOdometry
  <2>4. s \in Int /\ (s = 0 \/ s = now + Skew)
    BY <1>0 DEF DriverStamps
  <2>5. odom' \in Sample
    BY <1>0, <2>3, <2>4 DEF Sample
  <2>6. SampleIsHonest'
    BY <1>0, <1>2, <2>2, <2>3, <2>4, <2>5 DEF SampleIsHonest, PublishOdometry, Sample
  <2>7. TypeOK' /\ OnlyFaultsAreNotFinite'
    BY <2>1, <2>2, <2>5 DEF IInv, TypeOK, OnlyFaultsAreNotFinite
  <2>8. CacheIsHonest' /\ CacheIsLate'
    BY <1>0, <2>1, <2>2, CacheStaysHonest DEF IInv
  <2>9. QED
    BY <2>1, <2>6, <2>7, <2>8, QuietStepKeepsTopic DEF IInv
<1>3. CASE LoseOdometry
  <2>1. UNCHANGED <<world, inbox, up, cache, prev, posed, unposed, topic>> /\ odom' = None
    BY <1>3 DEF LoseOdometry, node
  <2>2. now' = now /\ at' = at /\ now <= now'
    BY <1>0, <2>1 DEF world
  <2>3. TypeOK' /\ SampleIsHonest' /\ OnlyFaultsAreNotFinite'
    BY <2>1, <2>2 DEF IInv, TypeOK, SampleIsHonest, OnlyFaultsAreNotFinite
  <2>4. CacheIsHonest' /\ CacheIsLate'
    BY <1>0, <2>1, <2>2, CacheStaysHonest DEF IInv
  <2>5. QED
    BY <2>1, <2>3, <2>4, QuietStepKeepsTopic DEF IInv
<1>4. ASSUME NEW m \in Upstream, PublishUpstream(m)
      PROVE  IInv'
  <2>1. UNCHANGED <<world, odom, up, cache, prev, posed, unposed, topic>>
    BY <1>4 DEF PublishUpstream, node
  <2>2. now' = now /\ at' = at /\ now <= now'
    BY <1>0, <2>1 DEF world
  <2>3. inbox' = KeepLast(inbox, m, Depth)
    BY <1>4 DEF PublishUpstream
  <2>4. /\ inbox' \in Seq(Upstream)
        /\ \A n \in 1..Len(inbox') :
             inbox'[n] = m \/ \E k \in 1..Len(inbox) : inbox'[n] = inbox[k]
    BY <1>0, <2>3, KeepLastProperties
  <2>5. m.stamp = NotFinite => m.kind = "fault"
    BY <1>0, <1>4, ValueAssumption DEF PublishUpstream
  <2>6. OnlyFaultsAreNotFinite'
    BY <2>4, <2>5 DEF IInv, OnlyFaultsAreNotFinite
  <2>7. TypeOK' /\ SampleIsHonest'
    BY <2>1, <2>2, <2>4 DEF IInv, TypeOK, SampleIsHonest
  <2>8. CacheIsHonest' /\ CacheIsLate'
    BY <1>0, <2>1, <2>2, CacheStaysHonest DEF IInv
  <2>9. QED
    BY <2>1, <2>6, <2>7, <2>8, QuietStepKeepsTopic DEF IInv
<1>5. CASE TakeEvent
  <2>1. UNCHANGED <<world, odom, inbox, up, cache, prev, posed, unposed>>
        /\ topic # <<>> /\ topic' = Tail(topic)
    BY <1>5 DEF TakeEvent, node
  <2>2. now' = now /\ at' = at /\ now <= now'
    BY <1>0, <2>1 DEF world
  <2>3. /\ topic' \in Seq(TaggedEvent)
        /\ \A n \in 1..Len(topic') : \E k \in 1..Len(topic) : topic'[n] = topic[k]
    BY <1>0, <2>1, DequeueProperties
  <2>4. EventsAreHonest' /\ UnsetStampIsUnlocated'
    BY <1>0, <2>2, <2>3, TopicStaysHonest DEF IInv
  <2>5. TypeOK' /\ SampleIsHonest' /\ OnlyFaultsAreNotFinite'
    BY <2>1, <2>2, <2>3 DEF IInv, TypeOK, SampleIsHonest, OnlyFaultsAreNotFinite
  <2>6. CacheIsHonest' /\ CacheIsLate'
    BY <1>0, <2>1, <2>2, CacheStaysHonest DEF IInv
  <2>7. QED
    BY <2>4, <2>5, <2>6 DEF IInv
<1>6. CASE StartNode
  <2>1. UNCHANGED <<world, odom, inbox, topic>>
        /\ up' = TRUE /\ cache' = None /\ prev' = FALSE
        /\ posed' = 0 /\ unposed' = 0
    BY <1>6 DEF StartNode
  <2>2. now' = now /\ at' = at
    BY <2>1 DEF world
  <2>3. TypeOK' /\ SampleIsHonest' /\ OnlyFaultsAreNotFinite'
    BY <2>1, <2>2 DEF IInv, TypeOK, SampleIsHonest, OnlyFaultsAreNotFinite
  <2>4. CacheIsHonest' /\ CacheIsLate'
    BY <2>1 DEF CacheIsHonest, CacheIsLate
  <2>5. QED
    BY <2>1, <2>3, <2>4, QuietStepKeepsTopic DEF IInv
<1>7. ASSUME Die
      PROVE  IInv'
  <2>1. UNCHANGED <<world, topic>>
        /\ up' = FALSE /\ odom' = None /\ inbox' = <<>>
        /\ cache' = None /\ prev' = FALSE /\ posed' = 0 /\ unposed' = 0
    BY <1>7 DEF Die
  <2>2. now' = now /\ at' = at
    BY <2>1 DEF world
  <2>3. inbox' \in Seq(Upstream) /\ Len(inbox') = 0
    BY <2>1, EmptySeq
  <2>4. SampleIsHonest' /\ OnlyFaultsAreNotFinite'
    BY <2>1, <2>3 DEF SampleIsHonest, OnlyFaultsAreNotFinite
  <2>5. TypeOK'
    BY <2>1, <2>2, <2>3 DEF IInv, TypeOK
  <2>6. CacheIsHonest' /\ CacheIsLate'
    BY <2>1 DEF CacheIsHonest, CacheIsLate
  <2>7. QED
    BY <2>1, <2>4, <2>5, <2>6, QuietStepKeepsTopic DEF IInv
<1>8. CASE OnOdom
  <2> DEFINE stamp == IF odom.stamp <= 0 THEN now ELSE odom.stamp
  <2>1. UNCHANGED <<world, inbox, up, prev, posed, unposed, topic>>
        /\ odom # None /\ odom' = None /\ Update(odom.pos, odom.frame, stamp)
    BY <1>8 DEF OnOdom
  <2>2. now' = now /\ at' = at /\ now <= now'
    BY <1>0, <2>1 DEF world
  <2>3. CASE cache' = cache
    <3>1. TypeOK' /\ SampleIsHonest' /\ OnlyFaultsAreNotFinite'
      BY <2>1, <2>2, <2>3 DEF IInv, TypeOK, SampleIsHonest, OnlyFaultsAreNotFinite
    <3>2. CacheIsHonest' /\ CacheIsLate'
      BY <1>0, <2>2, <2>3, CacheStaysHonest DEF IInv
    <3>3. QED
      BY <2>1, <3>1, <3>2, QuietStepKeepsTopic DEF IInv
  <2>4. CASE cache' # cache
    <3>1. /\ Usable(odom.pos, odom.frame, stamp)
          /\ cache' = [pos |-> odom.pos, frame |-> odom.frame, stamp |-> stamp]
      BY <2>1, <2>4 DEF Update
    <3>2. /\ odom \in Sample /\ odom.taken \in Time /\ odom.stamp \in Int
          /\ odom.pos \in Position \cup {NotFinite}
          /\ odom.frame \in Frame \cup {UnknownFrame}
          /\ odom.taken <= now /\ now - odom.taken <= MaxDelay
          /\ odom.pos # NotFinite => odom.pos = at[odom.taken]
          /\ odom.stamp = 0 \/ odom.stamp = odom.taken + Skew
      BY <1>0, <2>1 DEF IInv, SampleIsHonest, Sample
    <3>3. /\ odom.pos \in Position /\ odom.frame \in Frame
          /\ odom.pos = at[odom.taken]
      BY <3>1, <3>2, ValueAssumption DEF Usable
    <3>4. /\ stamp \in Int /\ stamp > MaxAge /\ stamp > 0
          /\ Abs(stamp - odom.taken) <= StampError
      <4>0. /\ now \in Int /\ now > MaxAge /\ now > 0
            /\ odom.taken + Skew \in Int /\ odom.taken + Skew > MaxAge
            /\ odom.taken + Skew > 0 /\ odom.taken \in Int
            /\ Skew \in Int /\ MaxDelay \in Nat
        <5>1. \A t \in Time : t \in Nat /\ t > MaxAge /\ t + Skew > MaxAge
          BY <1>0
        <5>2. now \in Time /\ odom.taken \in Time
          BY <1>0, <3>2
        <5>3. QED
          BY <5>1, <5>2
      <4>1. CASE odom.stamp = 0
        <5>1. stamp = now
          BY <4>1
        <5>2. Abs(now - odom.taken) <= MaxDelay
          BY <4>0, <3>2 DEF Abs
        <5>3. MaxDelay <= StampError
          BY <4>0 DEF Abs, StampError
        <5>4. Abs(now - odom.taken) \in Int /\ StampError \in Int
          BY <4>0 DEF Abs, StampError
        <5>5. QED
          BY <4>0, <5>1, <5>2, <5>3, <5>4
      <4>2. CASE odom.stamp = odom.taken + Skew
        <5>1. stamp = odom.taken + Skew
          BY <4>0, <4>2
        <5>2. stamp - odom.taken = Skew
          BY <4>0, <5>1
        <5>3. Abs(Skew) <= StampError
          BY <4>0 DEF Abs, StampError
        <5>4. QED
          BY <4>0, <5>1, <5>2, <5>3
      <4>3. QED
        BY <3>2, <4>1, <4>2
    <3> HIDE DEF stamp
    <3>5. cache' \in Pose /\ cache' # None /\ cache'.pos = odom.pos
          /\ cache'.frame = odom.frame /\ cache'.stamp = stamp
      <4>1. cache' \in Pose
        BY <3>1, <3>3, <3>4 DEF Pose
      <4>2. None \notin Pose
        BY NoneAssumption DEF Pose
      <4>3. QED
        BY <3>1, <4>1, <4>2
    <3>6. CacheIsHonest' /\ CacheIsLate'
      BY <2>2, <3>2, <3>3, <3>4, <3>5 DEF CacheIsHonest, CacheIsLate, Abs, StampError
    <3>7. TypeOK' /\ SampleIsHonest' /\ OnlyFaultsAreNotFinite'
      BY <2>1, <2>2, <3>5 DEF IInv, TypeOK, SampleIsHonest, OnlyFaultsAreNotFinite
    <3>8. QED
      BY <2>1, <3>6, <3>7, QuietStepKeepsTopic DEF IInv
  <2>5. QED
    BY <2>3, <2>4
<1>9. ASSUME NEW kind, Receive(kind)
      PROVE  /\ inbox # <<>> /\ Head(inbox) \in Upstream
             /\ Head(inbox).stamp \in {0, NotFinite} \cup Time
             /\ Head(inbox).stamp = NotFinite => kind = "fault"
  <2>1. inbox # <<>> /\ Head(inbox).kind = kind
    BY <1>9 DEF Receive
  <2>2. Head(inbox) \in Upstream /\ 1 \in 1..Len(inbox) /\ Head(inbox) = inbox[1]
    BY <1>0, <2>1, DequeueProperties
  <2>3. QED
    BY <2>1, <2>2 DEF Upstream, IInv, OnlyFaultsAreNotFinite
<1>10. CASE OnAlert
  <2>1. Head(inbox).stamp \in {0} \cup Time /\ inbox # <<>>
    BY <1>9, <1>10 DEF OnAlert
  <2>2. QED
    BY <1>0, <1>10, <2>1, PublishingKeepsIInv DEF OnAlert
<1>11. CASE OnFault
  <2>1. CASE Head(inbox).stamp = NotFinite
    BY <1>7, <1>11, <2>1 DEF OnFault
  <2>2. CASE Head(inbox).stamp # NotFinite
    <3>1. Head(inbox).stamp \in {0} \cup Time /\ inbox # <<>>
      BY <1>9, <1>11, <2>2 DEF OnFault
    <3>2. QED
      BY <1>0, <1>11, <2>2, <3>1, PublishingKeepsIInv DEF OnFault
  <2>3. QED
    BY <2>1, <2>2
<1>12. ASSUME inbox # <<>>, inbox' = Tail(inbox), prev' \in BOOLEAN,
              UNCHANGED <<world, odom, up, cache, posed, unposed, topic>>
       PROVE  IInv'
  <2>1. now' = now /\ at' = at /\ now <= now'
    BY <1>0, <1>12 DEF world
  <2>2. /\ inbox' \in Seq(Upstream)
        /\ \A n \in 1..Len(inbox') : \E k \in 1..Len(inbox) : inbox'[n] = inbox[k]
    BY <1>0, <1>12, DequeueProperties
  <2>3. TypeOK' /\ SampleIsHonest' /\ OnlyFaultsAreNotFinite'
    BY <1>12, <2>1, <2>2 DEF IInv, TypeOK, SampleIsHonest, OnlyFaultsAreNotFinite
  <2>4. CacheIsHonest' /\ CacheIsLate'
    BY <1>0, <1>12, <2>1, CacheStaysHonest DEF IInv
  <2>5. QED
    BY <1>12, <2>3, <2>4, QuietStepKeepsTopic DEF IInv
<1>13. CASE OnSlip
  <2>1. now \in {0} \cup Time /\ inbox # <<>> /\ inbox' = Tail(inbox) /\ prev' \in BOOLEAN
        /\ UNCHANGED <<world, odom, up, cache>>
    BY <1>0, <1>9, <1>13 DEF OnSlip
  <2>2. CASE prev
    BY <1>12, <1>13, <2>1, <2>2 DEF OnSlip
  <2>3. CASE ~prev
    BY <1>13, <2>1, <2>3, PublishingKeepsIInv DEF OnSlip
  <2>4. QED
    BY <2>2, <2>3
<1>14. CASE OnClear
  BY <1>9, <1>12, <1>14 DEF OnClear
<1>15. CASE UNCHANGED vars
  BY <1>15 DEF vars, world, node, IInv, TypeOK, SampleIsHonest, OnlyFaultsAreNotFinite,
     CacheIsHonest, CacheIsLate, EventsAreHonest, UnsetStampIsUnlocated
<1>16. QED
  BY <1>1, <1>2, <1>3, <1>4, <1>5, <1>6, <1>7, <1>8, <1>10, <1>11, <1>13, <1>14, <1>15
     DEF Next, Step, Callback, Crash

-----------------------------------------------------------------------------

\* The inductive invariant holds in every reachable state.
LEMMA Inductive == Spec => []IInv
BY InitIInv, NextKeepsIInv, PTL DEF Spec

\* The odometry cache, the counters and the queues of an adapter keep their
\* types (pose_source.py, pose_tagging.py).
THEOREM TypeCorrect == Spec => []TypeOK
BY Inductive, PTL DEF IInv

\* The cached pose is one the robot really had, within StampError of its stamp,
\* for any clock skew and any delay of the samples (pose_source.py:89-114).
THEOREM CacheStaysTrue == Spec => []CacheIsHonest
BY Inductive, PTL DEF IInv

\* A published event is located where the robot was within max_age_s plus the
\* error of the stamps, or carries the blank frame (pose_tagging.py:119-141).
THEOREM NoEventIsMislocated == Spec => []EventsAreHonest
BY Inductive, PTL DEF IInv

\* An event without a time never gets a pose, since no clock that runs is within
\* max_age_s of zero (pose_source.py:116-135).
THEOREM NoUnsetStampIsLocated == Spec => []UnsetStampIsUnlocated
BY Inductive, PTL DEF IInv

-----------------------------------------------------------------------------
(* What the memory node gets and records.                                  *)

\* The messages the memory node can get.
Messages == {RiskEvent(e) : e \in TaggedEvent}

\* What the message says of the robot is true.
MessageOK(m) == m.frame # UnknownFrame => \E t \in Time : WasThere(m, t)

\* What a record of a join says of the robot is true, and it is bound to the
\* nearest segment.
RecordOK(r) ==
  r.by = "join" =>
    /\ r.frame = r.seed.frame
    /\ \E m \in Time :
         /\ WasThere(r, m)
         /\ r.seg = Memory!SegmentForPoint(r.seed.segs, at[m]).id

\* The inductive invariant of the memory node's side.
MemoryIInv ==
  /\ memInbox \in Seq(Messages)
  /\ \A n \in 1..Len(memInbox) : MessageOK(memInbox[n])
  /\ \A i \in DOMAIN stored : stored[i] # None => RecordOK(stored[i])

-----------------------------------------------------------------------------
(* The adapter is a component of the whole.                                *)

\* Every behaviour of the whole is one of the adapter.
LEMMA AdapterIsAComponent == IngestSpec => Spec
<1>1. IngestInit => Init
  BY DEF IngestInit
<1>2. [IngestNext]_ingestVars => [Next]_vars
  BY DEF IngestNext, AdapterStep, Deliver, LoseEvent, MemoryStep, ingestVars, Next
<1>3. QED
  BY <1>1, <1>2, PTL DEF IngestSpec, Spec

\* The clock never runs backwards, and the past does not change.
LEMMA ThePastStays ==
  ASSUME IInv, IInv', [Next]_vars
  PROVE  /\ now \in Time /\ now' \in Time /\ now <= now'
         /\ at' = at
<1>1. now \in Time /\ now' \in Time
  BY DEF IInv, TypeOK
<1>2. now \in Nat
  BY <1>1, TimeAssumption DEF Time
<1>3. CASE Tick
  BY <1>1, <1>2, <1>3 DEF Tick
<1>4. CASE ~Tick
  <2>1. UNCHANGED world
    BY <1>4 DEF Next, Step, PublishOdometry, LoseOdometry, PublishUpstream, TakeEvent,
       StartNode, Crash, Die, Callback, OnOdom, OnAlert, OnFault, OnSlip, OnClear, vars, world
  <2>2. QED
    BY <1>1, <1>2, <2>1 DEF world
<1>5. QED
  BY <1>3, <1>4

\* What was true of the robot stays true.
LEMMA WasThereStays ==
  ASSUME now \in Time, now' \in Time, now <= now', at' = at,
         NEW r, NEW m \in Time, WasThere(r, m)
  PROVE  WasThere(r, m)'
<1>1. m \in Int /\ now \in Int /\ now' \in Int
  BY TimeAssumption DEF Time
<1>2. QED
  BY <1>1 DEF WasThere, Abs, StampError

\* So do messages and records.
LEMMA TruthStays ==
  ASSUME now \in Time, now' \in Time, now <= now', at' = at
  PROVE  \A r : (MessageOK(r) => MessageOK(r)') /\ (RecordOK(r) => RecordOK(r)')
<1>1. \A r : \A m \in Time : WasThere(r, m) => WasThere(r, m)'
  BY WasThereStays
<1>2. ASSUME NEW r, MessageOK(r)
      PROVE  MessageOK(r)'
  BY <1>1, <1>2 DEF MessageOK
<1>3. ASSUME NEW r, RecordOK(r), r.by = "join"
      PROVE  /\ r.frame = r.seed.frame
             /\ \E m \in Time :
                  /\ WasThere(r, m)'
                  /\ r.seg = Memory!SegmentForPoint(r.seed.segs, at'[m]).id
  BY <1>1, <1>3 DEF RecordOK
<1>4. ASSUME NEW r, RecordOK(r)
      PROVE  RecordOK(r)'
  BY <1>3, <1>4 DEF RecordOK
<1>5. QED
  BY <1>2, <1>4

-----------------------------------------------------------------------------
(* The memory node's side.                                                 *)

\* It holds when nothing has been sent.
LEMMA InitMemoryIInv == IngestInit => MemoryIInv
<1> SUFFICES ASSUME IngestInit PROVE MemoryIInv
  OBVIOUS
<1>1. memInbox = <<>> /\ \A i \in DOMAIN stored : stored[i] = None
  BY DEF IngestInit, Memory!Init
<1>2. memInbox \in Seq(Messages) /\ Len(memInbox) = 0
  BY <1>1, EmptySeq
<1>3. QED
  BY <1>1, <1>2 DEF MemoryIInv

\* A step that leaves the memory node alone.
LEMMA OthersKeepMemoryIInv ==
  ASSUME MemoryIInv, UNCHANGED memory,
         now \in Time, now' \in Time, now <= now', at' = at
  PROVE  MemoryIInv'
<1>1. memInbox' = memInbox /\ stored' = stored
  BY DEF memory
<1>2. QED
  BY <1>1, TruthStays DEF MemoryIInv

\* What is delivered is what the adapter published, so it is true.
LEMMA DeliverKeepsMemoryIInv ==
  ASSUME IInv, MemoryIInv, Deliver, now \in Time, now' \in Time, now <= now', at' = at
  PROVE  MemoryIInv'
<1> DEFINE m == RiskEvent(Head(topic))
<1>1. topic # <<>> /\ topic \in Seq(TaggedEvent) /\ stored' = stored
      /\ memInbox' = Memory!KeepLast(memInbox, m, MemDepth)
  BY DEF Deliver, TakeEvent, Memory!Publish, IInv, TypeOK
<1>2. Head(topic) \in TaggedEvent /\ 1 \in 1..Len(topic) /\ Head(topic) = topic[1]
  BY <1>1, DequeueProperties
<1>3. m \in Messages
  BY <1>2 DEF Messages
<1>4. EventOK(Head(topic))
  BY <1>2, TopicIsOK DEF IInv
<1>5. MessageOK(m)
  <2>1. m.frame = Head(topic).frame /\ m.pos = Head(topic).pos /\ m.ts = Head(topic).born
    BY DEF RiskEvent
  <2>2. QED
    BY <1>4, <2>1 DEF EventOK, Located, MessageOK, WasThere
<1>6. memInbox' = KeepLast(memInbox, m, MemDepth)
  BY <1>1 DEF KeepLast, Memory!KeepLast
<1> HIDE DEF m
<1>7. /\ memInbox' \in Seq(Messages)
      /\ \A n \in 1..Len(memInbox') :
           memInbox'[n] = m \/ \E k \in 1..Len(memInbox) : memInbox'[n] = memInbox[k]
  BY <1>3, <1>6, IngestAssumption, KeepLastProperties DEF MemoryIInv
<1>8. \A n \in 1..Len(memInbox') : MessageOK(memInbox'[n])
  BY <1>5, <1>7 DEF MemoryIInv
<1>9. QED
  BY <1>1, <1>7, <1>8, TruthStays DEF MemoryIInv

\* What the memory node records of a message it joins is true.
LEMMA JoinedRecordIsOK ==
  ASSUME NEW m \in Messages, MessageOK(m), m.frame # UnknownFrame, m.frame = memSeed.frame,
         NEW near, near = Memory!SegmentForPoint(memSeed.segs, Memory!Finite(m.pos))
  PROVE  RecordOK(Memory!Stored(m, near.id, "join"))
<1> DEFINE r == Memory!Stored(m, near.id, "join")
<1>1. /\ r.frame = m.frame /\ r.pos = m.pos /\ r.ts = m.ts /\ r.seg = near.id
      /\ r.by = "join" /\ r.seed = memSeed
  BY DEF Memory!Stored
<1>2. m.pos \in Position
  BY DEF Messages, RiskEvent, TaggedEvent
<1>3. Memory!Finite(m.pos) = m.pos
  BY <1>2, IngestAssumption DEF Memory!Finite
<1>4. PICK t \in Time : WasThere(m, t)
  BY DEF MessageOK
<1>5. WasThere(r, t) /\ m.pos = at[t]
  BY <1>1, <1>4 DEF WasThere
<1> HIDE DEF r
<1>6. r.seg = Memory!SegmentForPoint(r.seed.segs, at[t]).id
  BY <1>1, <1>3, <1>5
<1>7. RecordOK(r)
  BY <1>1, <1>5, <1>6 DEF RecordOK
<1>8. QED
  BY <1>7 DEF r

\* Recording an event by what is true of it leaves a log of truths.
LEMMA PersistKeepsRecords ==
  ASSUME NEW m, NEW seg, NEW binding, Memory!Persist(m, seg, binding),
         RecordOK(Memory!Stored(m, seg, binding)),
         \A i \in DOMAIN stored : stored[i] # None => RecordOK(stored[i])
  PROVE  \A i \in DOMAIN stored' : stored'[i] # None => RecordOK(stored'[i])
<1>1. CASE UNCHANGED stored
  BY <1>1
<1>2. CASE stored' = [stored EXCEPT ![Memory!AssignedId(m)] = Memory!Stored(m, seg, binding)]
  <2>1. DOMAIN stored' = DOMAIN stored
        /\ \A i \in DOMAIN stored :
             stored'[i] = stored[i] \/ stored'[i] = Memory!Stored(m, seg, binding)
    BY <1>2
  <2>2. QED
    BY <2>1
<1>3. QED
  BY <1>1, <1>2 DEF Memory!Persist

\* Each of the ways _on_event ends.
LEMMA OnEventKeepsMemoryIInv ==
  ASSUME MemoryIInv, Memory!OnEvent
  PROVE  /\ memInbox' \in Seq(Messages)
         /\ \A n \in 1..Len(memInbox') : MessageOK(memInbox'[n])
         /\ \A i \in DOMAIN stored' : stored'[i] # None => RecordOK(stored'[i])
<1>1. PICK m \in Messages : Memory!Receive(m) /\
        \/ UNCHANGED stored
        \/ \E seg, binding : binding # "join" /\ Memory!Persist(m, seg, binding)
        \/ \E near : /\ m.frame # UnknownFrame /\ m.frame = memSeed.frame
                     /\ near = Memory!SegmentForPoint(memSeed.segs, Memory!Finite(m.pos))
                     /\ Memory!Persist(m, near.id, "join")
  <2>1. CASE Memory!DropMalformed
    BY <2>1 DEF Memory!DropMalformed, Messages
  <2>2. CASE Memory!StoreAsStamped
    BY <2>2 DEF Memory!StoreAsStamped, Messages
  <2>3. CASE Memory!StoreUnposed
    BY <2>3 DEF Memory!StoreUnposed, Messages
  <2>4. CASE Memory!StoreMismatched
    BY <2>4 DEF Memory!StoreMismatched, Messages
  <2>5. CASE Memory!StoreJoined
    BY <2>5 DEF Memory!StoreJoined, Messages
  <2>6. QED
    BY <2>1, <2>2, <2>3, <2>4, <2>5 DEF Memory!OnEvent
<1>2. memInbox # <<>> /\ memInbox' = Tail(memInbox) /\ m = Head(memInbox)
  BY <1>1 DEF Memory!Receive
<1>3. /\ memInbox' \in Seq(Messages) /\ 1 \in 1..Len(memInbox) /\ m = memInbox[1]
      /\ \A n \in 1..Len(memInbox') : \E k \in 1..Len(memInbox) : memInbox'[n] = memInbox[k]
  BY <1>2, DequeueProperties DEF MemoryIInv
<1>4. MessageOK(m) /\ \A n \in 1..Len(memInbox') : MessageOK(memInbox'[n])
  BY <1>3 DEF MemoryIInv
<1>5. \A i \in DOMAIN stored : stored[i] # None => RecordOK(stored[i])
  BY DEF MemoryIInv
<1>6. CASE UNCHANGED stored
  BY <1>3, <1>4, <1>5, <1>6
<1>7. ASSUME NEW seg, NEW binding, binding # "join", Memory!Persist(m, seg, binding)
      PROVE  \A i \in DOMAIN stored' : stored'[i] # None => RecordOK(stored'[i])
  <2>1. RecordOK(Memory!Stored(m, seg, binding))
    BY <1>7 DEF RecordOK, Memory!Stored
  <2>2. QED
    BY <1>5, <1>7, <2>1, PersistKeepsRecords
<1>8. ASSUME NEW near, m.frame # UnknownFrame, m.frame = memSeed.frame,
             near = Memory!SegmentForPoint(memSeed.segs, Memory!Finite(m.pos)),
             Memory!Persist(m, near.id, "join")
      PROVE  \A i \in DOMAIN stored' : stored'[i] # None => RecordOK(stored'[i])
  BY <1>4, <1>5, <1>8, JoinedRecordIsOK, PersistKeepsRecords
<1>9. QED
  BY <1>1, <1>3, <1>4, <1>6, <1>7, <1>8

\* The steps of the memory node.
LEMMA MemoryStepKeepsMemoryIInv ==
  ASSUME MemoryIInv, MemoryStep, now \in Time
  PROVE  MemoryIInv'
<1>1. now' = now /\ at' = at /\ now <= now'
  <2>1. now' = now /\ at' = at
    BY DEF MemoryStep, vars, world
  <2>2. QED
    BY <2>1, TimeAssumption DEF Time
<1>2. \A r : (MessageOK(r) => MessageOK(r)') /\ (RecordOK(r) => RecordOK(r)')
  BY <1>1, TruthStays
<1>3. CASE Memory!OnEvent
  BY <1>2, <1>3, OnEventKeepsMemoryIInv DEF MemoryIInv
<1>4. CASE Memory!Stop
  <2>1. memInbox' = <<>> /\ stored' = stored
    BY <1>4 DEF Memory!Stop
  <2>2. memInbox' \in Seq(Messages) /\ Len(memInbox') = 0
    BY <2>1, EmptySeq
  <2>3. QED
    BY <1>2, <2>1, <2>2 DEF MemoryIInv
<1>5. CASE \/ Memory!StartWithoutSeed
           \/ \E f \in SeedFile :
                Memory!StartWithSeed(f) \/ Memory!StartWithRejectedSeed(f) \/ Memory!DieOfSeed(f)
  <2>1. memInbox' = memInbox /\ stored' = stored
    BY <1>5 DEF Memory!StartWithoutSeed, Memory!StartWithSeed, Memory!StartWithRejectedSeed,
       Memory!DieOfSeed, Memory!Startup
  <2>2. QED
    BY <1>2, <2>1 DEF MemoryIInv
<1>6. QED
  BY <1>3, <1>4, <1>5 DEF MemoryStep

\* Every step of the whole.
LEMMA IngestNextKeepsMemoryIInv ==
  IInv /\ IInv' /\ MemoryIInv /\ [IngestNext]_ingestVars => MemoryIInv'
<1> SUFFICES ASSUME IInv, IInv', MemoryIInv, [IngestNext]_ingestVars
             PROVE  MemoryIInv'
  OBVIOUS
<1>1. [Next]_vars
  BY DEF IngestNext, AdapterStep, Deliver, LoseEvent, MemoryStep, ingestVars, Next
<1>2. now \in Time /\ now' \in Time /\ now <= now' /\ at' = at
  BY <1>1, ThePastStays
<1>3. CASE UNCHANGED memory
  BY <1>2, <1>3, OthersKeepMemoryIInv
<1>4. CASE Deliver
  BY <1>2, <1>4, DeliverKeepsMemoryIInv
<1>5. CASE MemoryStep
  BY <1>2, <1>5, MemoryStepKeepsMemoryIInv
<1>6. QED
  BY <1>3, <1>4, <1>5 DEF IngestNext, AdapterStep, LoseEvent, ingestVars

-----------------------------------------------------------------------------

\* An event that the log says was joined is bound to the segment nearest to
\* where the robot was near its time, through both nodes, their queues, their
\* restarts and edits of the seed (pose_tagging.py:119-141, memory_node.py:146-171).
THEOREM NoJoinIsMislocated == IngestSpec => []JoinsAreTrue
<1>1. IngestSpec => []IInv
  BY AdapterIsAComponent, Inductive, PTL
<1>2. IngestSpec /\ []IInv => []MemoryIInv
  BY InitMemoryIInv, IngestNextKeepsMemoryIInv, PTL DEF IngestSpec
<1>3. MemoryIInv => JoinsAreTrue
  BY DEF MemoryIInv, JoinsAreTrue, Joined, Memory!Records, RecordOK
<1>4. QED
  BY <1>1, <1>2, <1>3, PTL

\* Either node of the whole behaves as it does by itself: what is proved of the
\* adapter among arbitrary messages, and of the memory node among arbitrary
\* events of this kind, is true of the two of them together.
THEOREM BothAreComponents == IngestSpec => Spec /\ Memory!Spec
<1>1. IngestSpec => []IInv
  BY AdapterIsAComponent, Inductive, PTL
<1>2. IngestInit => Memory!Init
  BY DEF IngestInit
<1>3. IInv /\ [IngestNext]_ingestVars => [Memory!Next]_(Memory!vars)
  <2>. SUFFICES ASSUME IInv, [IngestNext]_ingestVars PROVE [Memory!Next]_(Memory!vars)
    OBVIOUS
  <2>1. CASE UNCHANGED memory
    BY <2>1 DEF memory, Memory!vars, Memory!counters
  <2>2. CASE Deliver
    <3>1. topic \in Seq(TaggedEvent) /\ topic # <<>>
      BY <2>2 DEF IInv, TypeOK, Deliver, TakeEvent
    <3>2. Head(topic) \in TaggedEvent
      BY <3>1, HeadTailProperties
    <3>3. Memory!Publish(RiskEvent(Head(topic)))
      BY <2>2 DEF Deliver
    <3>4. \E m \in Messages : Memory!Publish(m)
      BY <3>2, <3>3 DEF Messages
    <3>5. QED
      BY <3>4 DEF Memory!Next, Messages
  <2>3. CASE MemoryStep
    BY <2>3 DEF MemoryStep, Memory!Next
  <2>4. QED
    BY <2>1, <2>2, <2>3 DEF IngestNext, AdapterStep, LoseEvent, ingestVars
<1>4. QED
  BY <1>1, <1>2, <1>3, AdapterIsAComponent, PTL DEF IngestSpec, Memory!Spec
=============================================================================
