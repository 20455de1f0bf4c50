-------------------------- MODULE SlipEdgesProofs --------------------------
(***************************************************************************)
(* Proofs about SlipEdges, for any queue depth and any number of slips and *)
(* restarts.                                                               *)
(***************************************************************************)
EXTENDS SlipEdges, DataLemmas

-----------------------------------------------------------------------------
(* The inductive invariant.                                                *)

\* The flag did not have the value of m after it had the value of n.
NotAfter(m, n) == m.slip < n.slip \/ (m.slip = n.slip /\ (n.data => m.data))

Current == [data |-> flag, slip |-> slip]

\* The queue holds values of the flag in the order it had them.
QueueInOrder ==
  /\ \A n \in 1..Len(inbox) : NotAfter(inbox[n], Current)
  /\ \A k, n \in 1..Len(inbox) : k <= n => NotAfter(inbox[k], inbox[n])

\* All that comes is of slip s or a later one.
Begun(s) ==
  /\ s <= slip
  /\ \A n \in 1..Len(inbox) : s <= inbox[n].slip

\* A high flag that comes is of a later slip than s.
Over(s) ==
  /\ Begun(s)
  /\ flag => s < slip
  /\ \A n \in 1..Len(inbox) : inbox[n].data => s < inbox[n].slip

HistoryInOrder ==
  /\ \A k \in DOMAIN reports : Begun(reports[k].slip) /\ reports[k].run <= run
  /\ \A s \in seen : Begun(s)
  /\ \A s \in cleared : Over(s)

\* When the next high flag is reported, it is of a slip that this run has not
\* reported.
EdgeIsNew == ~prev => \A k \in DOMAIN reports : reports[k].run = run => Over(reports[k].slip)

\* When it is not, it follows a slip that was, with no low flag in between.
EdgeIsHidden == prev => \E r \in seen : Reported(r) /\ \A s \in cleared : s < r

IInv ==
  /\ TypeOK
  /\ ~up => inbox = <<>>
  /\ QueueInOrder
  /\ HistoryInOrder
  /\ EdgeIsNew
  /\ EdgeIsHidden
  /\ ReportedInOrder
  /\ MissedForCause

\* The invariant holds before the adapter is first started.
LEMMA InitIInv == Init => IInv
<1> SUFFICES ASSUME Init PROVE IInv
  OBVIOUS
<1>1. inbox \in Seq(Flag) /\ Len(inbox) = 0 /\ DOMAIN reports = {}
      /\ reports \in Seq([slip : Slip, run : Run])
  BY EmptySeq DEF Init
<1>2. Len(inbox) <= Depth /\ 0 \in Slip /\ 0 \in Run
  BY <1>1, EdgeAssumption DEF Slip, Run
<1>3. TypeOK
  BY <1>1, <1>2 DEF Init, TypeOK
<1>4. QED
  BY <1>1, <1>3 DEF Init, IInv, QueueInOrder, HistoryInOrder, EdgeIsNew, EdgeIsHidden,
     ReportedInOrder, MissedForCause

-----------------------------------------------------------------------------
(* The sensor.                                                             *)

\* The slips of the queue and of the reports are numbers.
LEMMA Numbers ==
  ASSUME TypeOK
  PROVE  /\ slip \in Nat /\ run \in Nat /\ Len(inbox) \in Nat
         /\ \A n \in 1..Len(inbox) : inbox[n].slip \in Nat /\ inbox[n].data \in BOOLEAN
         /\ \A k \in DOMAIN reports : reports[k].slip \in Nat /\ reports[k].run \in Nat
         /\ seen \subseteq Nat /\ cleared \subseteq Nat
<1>1. \A n \in 1..Len(inbox) : inbox[n] \in Flag
  BY DEF TypeOK
<1>2. \A k \in DOMAIN reports : reports[k] \in [slip : Slip, run : Run]
  <2>1. reports \in Seq([slip : Slip, run : Run])
    BY DEF TypeOK
  <2>2. reports \in [1..Len(reports) -> [slip : Slip, run : Run]]
        /\ DOMAIN reports = 1..Len(reports)
    BY <2>1, LenProperties
  <2>3. QED
    BY <2>2
<1>3. QED
  BY <1>1, <1>2, LenProperties, EdgeAssumption DEF TypeOK, Flag, Slip, Run

\* The flag stays as it is, falls, or rises for a new slip.
Advance == slip < slip' \/ (slip' = slip /\ (flag' => flag))

\* What is published keeps the order.
LEMMA PublishKeepsIInv ==
  ASSUME IInv, flag' \in BOOLEAN, slip' \in Slip, Advance, Publish(flag', slip'),
         UNCHANGED adapter
  PROVE  IInv'
<1> USE EdgeAssumption
<1>0. /\ inbox \in Seq(Flag) /\ flag \in BOOLEAN /\ slip \in Nat /\ slip' \in Nat
      /\ Len(inbox) \in Nat
      /\ \A n \in 1..Len(inbox) : inbox[n].slip \in Nat /\ inbox[n].data \in BOOLEAN
      /\ Current' \in Flag /\ Current'.data = flag' /\ Current'.slip = slip'
  BY Numbers DEF IInv, TypeOK, Slip, Flag, Current
<1>1. UNCHANGED <<up, run, prev, seen, cleared, reports>>
  BY DEF adapter
<1>2. /\ inbox' \in Seq(Flag) /\ Len(inbox') <= Depth /\ (~up => inbox' = <<>>)
      /\ \E d \in Nat :
           \A n \in 1..Len(inbox') :
             \/ n = Len(inbox') /\ inbox'[n] = Current'
             \/ n + d \in 1..Len(inbox) /\ inbox'[n] = inbox[n + d]
  <2>1. CASE up
    <3>1. inbox' = KeepLast(inbox, Current', Depth)
      BY <2>1 DEF Publish, Current
    <3>2. /\ inbox' \in Seq(Flag)
          /\ Len(inbox) <= Depth => Len(inbox') <= Depth
          /\ inbox'[Len(inbox')] = Current'
          /\ \E d \in {0, 1} :
               /\ Len(inbox') = Len(inbox) - d + 1
               /\ d = 1 => Len(inbox) > 0
               /\ \A n \in 1..(Len(inbox) - d) : inbox'[n] = inbox[n + d]
      BY <1>0, <3>1, KeepLastShifts
    <3>3. PICK d \in {0, 1} :
               /\ Len(inbox') = Len(inbox) - d + 1
               /\ d = 1 => Len(inbox) > 0
               /\ \A n \in 1..(Len(inbox) - d) : inbox'[n] = inbox[n + d]
      BY <3>2
    <3>4. ASSUME NEW n \in 1..Len(inbox'), n # Len(inbox')
          PROVE  n + d \in 1..Len(inbox) /\ inbox'[n] = inbox[n + d]
      <4>1. n \in 1..(Len(inbox) - d)
        BY <1>0, <3>3, <3>4
      <4>2. n + d \in 1..Len(inbox)
        BY <1>0, <3>3, <4>1
      <4>3. QED
        BY <3>3, <4>1, <4>2
    <3>5. QED
      BY <2>1, <3>2, <3>4 DEF IInv, TypeOK
  <2>2. CASE ~up
    <3>1. inbox' = <<>> /\ inbox' = inbox
      BY <2>2 DEF Publish, IInv
    <3>2. Len(inbox') = 0
      BY <3>1, EmptySeq
    <3>3. QED
      BY <1>0, <3>1, <3>2 DEF IInv, TypeOK
  <2>3. QED
    BY <2>1, <2>2
<1>3. PICK d \in Nat :
        \A n \in 1..Len(inbox') :
          \/ n = Len(inbox') /\ inbox'[n] = Current'
          \/ n + d \in 1..Len(inbox) /\ inbox'[n] = inbox[n + d]
  BY <1>2
<1>4. \A n \in 1..Len(inbox) : NotAfter(inbox[n], Current')
  <2>1. \A n \in 1..Len(inbox) : NotAfter(inbox[n], Current)
    BY DEF IInv, QueueInOrder
  <2>2. QED
    BY <1>0, <2>1 DEF NotAfter, Advance, Current
<1>5. QueueInOrder'
  <2>1. NotAfter(Current', Current')
    BY <1>0 DEF NotAfter
  <2>2. \A n \in 1..Len(inbox') : NotAfter(inbox'[n], Current')
    BY <1>3, <1>4, <2>1
  <2>3. ASSUME NEW k \in 1..Len(inbox'), NEW n \in 1..Len(inbox'), k <= n
        PROVE  NotAfter(inbox'[k], inbox'[n])
    <3>1. Len(inbox') \in Nat
      BY <1>2, LenProperties
    <3>2. CASE n = Len(inbox') /\ inbox'[n] = Current'
      BY <2>2, <3>2
    <3>3. CASE n + d \in 1..Len(inbox) /\ inbox'[n] = inbox[n + d]
                /\ ~(n = Len(inbox') /\ inbox'[n] = Current')
      <4>1. CASE n = Len(inbox') /\ k = n
        <5>1. NotAfter(inbox[n + d], inbox[n + d])
          BY <3>3, <1>0 DEF NotAfter
        <5>2. QED
          BY <3>3, <4>1, <5>1
      <4>2. CASE ~(k = n /\ n = Len(inbox'))
        <5>1. k # Len(inbox')
          BY <2>3, <3>1, <4>2
        <5>2. k + d \in 1..Len(inbox) /\ inbox'[k] = inbox[k + d] /\ k + d <= n + d
          BY <1>3, <2>3, <5>1
        <5>3. QED
          BY <3>3, <5>2 DEF IInv, QueueInOrder
      <4>3. QED
        BY <4>1, <4>2
    <3>4. QED
      BY <1>3, <3>2, <3>3
  <2>4. QED
    BY <2>2, <2>3 DEF QueueInOrder, Current
<1>6. \A s \in Nat : (Begun(s) => Begun(s)') /\ (Over(s) => Over(s)')
  <2>1. ASSUME NEW s \in Nat, Begun(s)
        PROVE  Begun(s)'
    <3>1. s <= slip' /\ \A n \in 1..Len(inbox) : s <= inbox[n].slip
      BY <1>0, <2>1 DEF Begun, Advance
    <3>2. \A n \in 1..Len(inbox') : s <= inbox'[n].slip
      BY <1>0, <1>3, <3>1
    <3>3. QED
      BY <3>1, <3>2 DEF Begun
  <2>2. ASSUME NEW s \in Nat, Over(s)
        PROVE  Over(s)'
    <3>1. /\ Begun(s)' /\ (flag' => s < slip')
          /\ \A n \in 1..Len(inbox) : inbox[n].data => s < inbox[n].slip
      BY <1>0, <2>1, <2>2 DEF Over, Begun, Advance
    <3>2. \A n \in 1..Len(inbox') : inbox'[n].data => s < inbox'[n].slip
      BY <1>0, <1>3, <3>1
    <3>3. QED
      BY <3>1, <3>2 DEF Over
  <2>3. QED
    BY <2>1, <2>2
<1>7. HistoryInOrder' /\ EdgeIsNew'
  BY <1>1, <1>6, Numbers DEF IInv, HistoryInOrder, EdgeIsNew
<1>8. TypeOK'
  BY <1>1, <1>2 DEF IInv, TypeOK
<1>9. (EdgeIsHidden /\ ReportedInOrder /\ MissedForCause)'
  BY <1>1 DEF IInv, EdgeIsHidden, ReportedInOrder, MissedForCause, Reported
<1>10. QED
  BY <1>1, <1>2, <1>5, <1>7, <1>8, <1>9 DEF IInv

\* The steps of the sensor keep the invariant.
LEMMA SensorKeepsIInv ==
  ASSUME IInv, StartSlipping \/ StopSlipping \/ RepeatFlag
  PROVE  IInv'
<1>1. slip \in Nat /\ slip \in Slip /\ flag \in BOOLEAN /\ MaxSlips \in Nat
  BY EdgeAssumption, Numbers DEF IInv, TypeOK
<1>2. /\ flag' \in BOOLEAN /\ slip' \in Slip
      /\ Advance /\ Publish(flag', slip') /\ UNCHANGED adapter
  <2>1. CASE StartSlipping
    <3>1. slip + 1 \in Slip
      BY <1>1, <2>1 DEF StartSlipping, Slip
    <3>2. flag' = TRUE /\ slip' = slip + 1 /\ UNCHANGED adapter
      BY <2>1 DEF StartSlipping
    <3>3. Publish(flag', slip')
      BY <2>1, <3>2 DEF StartSlipping, Publish
    <3>4. Advance
      BY <1>1, <3>2 DEF Advance
    <3>5. QED
      BY <3>1, <3>2, <3>3, <3>4
  <2>2. CASE StopSlipping
    BY <1>1, <2>2 DEF StopSlipping, Advance
  <2>3. CASE RepeatFlag
    BY <1>1, <2>3 DEF RepeatFlag, Advance, sensor, Publish
  <2>4. QED
    BY <2>1, <2>2, <2>3
<1>3. QED
  BY <1>2, PublishKeepsIInv

-----------------------------------------------------------------------------
(* The adapter.                                                            *)

\* A run begins with an empty queue and has received and reported nothing.
LEMMA StartKeepsIInv ==
  ASSUME IInv, StartAdapter
  PROVE  IInv'
<1>1. /\ up' = TRUE /\ run' = run + 1 /\ prev' = FALSE /\ seen' = {} /\ cleared' = {}
      /\ flag' = flag /\ slip' = slip /\ inbox' = inbox /\ reports' = reports
      /\ ~up /\ run < MaxRuns
  BY DEF StartAdapter, sensor
<1>2. run \in Nat /\ run + 1 \in Run
      /\ \A k \in DOMAIN reports : reports[k].slip \in Nat /\ reports[k].run \in Nat
  BY <1>1, EdgeAssumption, Numbers DEF IInv, TypeOK, Run
<1>3. TypeOK'
  BY <1>1, <1>2 DEF IInv, TypeOK
<1>4. \A k \in DOMAIN reports : reports[k].run < run'
  BY <1>1, <1>2 DEF IInv, HistoryInOrder
<1>5. (\A k \in DOMAIN reports : Begun(reports[k].slip) /\ reports[k].run <= run)'
  BY <1>1, <1>2, <1>4 DEF IInv, HistoryInOrder, Begun
<1>6. HistoryInOrder'
  BY <1>1, <1>5 DEF HistoryInOrder
<1>7. EdgeIsNew'
  BY <1>1, <1>2, <1>4 DEF EdgeIsNew
<1>8. QED
  BY <1>1, <1>3, <1>6, <1>7
     DEF IInv, QueueInOrder, NotAfter, Current, EdgeIsHidden, ReportedInOrder, MissedForCause

\* A crash loses the queue; what remains is in order all the more.
LEMMA CrashKeepsIInv ==
  ASSUME IInv, Crash
  PROVE  IInv'
<1>1. /\ up' = FALSE /\ inbox' = <<>>
      /\ flag' = flag /\ slip' = slip /\ run' = run /\ prev' = prev
      /\ seen' = seen /\ cleared' = cleared /\ reports' = reports
  BY DEF Crash, sensor
<1>2. Len(inbox') = 0 /\ inbox' \in Seq(Flag) /\ Len(inbox') <= Depth
  BY <1>1, EmptySeq, EdgeAssumption
<1>3. TypeOK'
  BY <1>1, <1>2 DEF IInv, TypeOK
<1>4. \A s : (Begun(s) => Begun(s)') /\ (Over(s) => Over(s)')
  BY <1>1, <1>2 DEF Begun, Over
<1>5. HistoryInOrder' /\ EdgeIsNew'
  BY <1>1, <1>4 DEF IInv, HistoryInOrder, EdgeIsNew
<1>6. QED
  BY <1>1, <1>2, <1>3, <1>5
     DEF IInv, QueueInOrder, EdgeIsHidden, ReportedInOrder, MissedForCause, Reported

\* Handling the oldest message keeps the invariant.
LEMMA OnSlipKeepsIInv ==
  ASSUME IInv, OnSlip
  PROVE  IInv'
<1> DEFINE m == Head(inbox)
<1>1. /\ up /\ inbox # <<>> /\ inbox' = Tail(inbox)
      /\ flag' = flag /\ slip' = slip /\ up' = up /\ run' = run
      /\ reports' = IF m.data /\ ~prev THEN Append(reports, [slip |-> m.slip, run |-> run])
                                       ELSE reports
      /\ prev' = m.data
      /\ seen' = IF m.data THEN seen \cup {m.slip} ELSE seen
      /\ cleared' = IF m.data THEN cleared ELSE cleared \cup {m.slip}
  BY DEF OnSlip, IsLeadingEdge, NextPrev, sensor
<1>2. /\ slip \in Nat /\ run \in Nat /\ flag \in BOOLEAN /\ prev \in BOOLEAN
      /\ \A n \in 1..Len(inbox) : inbox[n].slip \in Nat /\ inbox[n].data \in BOOLEAN
      /\ \A k \in DOMAIN reports : reports[k].slip \in Nat /\ reports[k].run \in Nat
      /\ seen \subseteq Nat /\ cleared \subseteq Nat
  BY Numbers DEF IInv, TypeOK
<1>3. /\ inbox' \in Seq(Flag) /\ Len(inbox') \in Nat /\ Len(inbox) = Len(inbox') + 1
      /\ m = inbox[1] /\ m \in Flag
      /\ \A n \in 1..Len(inbox') : n + 1 \in 1..Len(inbox) /\ inbox'[n] = inbox[n + 1]
  <2>1. inbox \in Seq(Flag)
    BY DEF IInv, TypeOK
  <2>2. /\ inbox' \in Seq(Flag) /\ Len(inbox') = Len(inbox) - 1
        /\ Len(inbox) \in Nat \ {0}
        /\ m = inbox[1] /\ m \in Flag
        /\ \A n \in 1..Len(inbox') : inbox'[n] = inbox[n + 1]
    BY <1>1, <2>1, DequeueShifts
  <2>3. QED
    BY <2>2
<1>4. m.slip \in Slip /\ m.slip \in Nat /\ m.data \in BOOLEAN
  BY <1>3, EdgeAssumption DEF Flag, Slip
<1>5. /\ NotAfter(m, Current)
      /\ \A n \in 1..Len(inbox') : NotAfter(m, inbox'[n])
  <2>1. 1 \in 1..Len(inbox) /\ \A n \in 1..Len(inbox') : 1 <= n + 1
    BY <1>3
  <2>2. QED
    BY <1>3, <2>1 DEF IInv, QueueInOrder
<1> HIDE DEF m
<1>6. \A s \in Nat : (Begun(s) => Begun(s)') /\ (Over(s) => Over(s)')
  BY <1>1, <1>3 DEF Begun, Over
<1>7. \A s \in Nat : (Begun(s) => s <= m.slip) /\ (m.data /\ Over(s) => s < m.slip)
  <2>1. 1 \in 1..Len(inbox)
    BY <1>3
  <2>2. QED
    BY <1>3, <2>1 DEF Begun, Over
<1>8. \A n \in 1..Len(inbox') : inbox'[n].slip \in Nat /\ inbox'[n].data \in BOOLEAN
  BY <1>2, <1>3
<1>9. \A s \in Nat : s <= m.slip => Begun(s)' /\ (~m.data => Over(s)')
  <2> TAKE s \in Nat
  <2> HAVE s <= m.slip
  <2>1. s <= slip' /\ (~m.data /\ flag' => s < slip')
    BY <1>1, <1>2, <1>4, <1>5 DEF NotAfter, Current
  <2>2. \A n \in 1..Len(inbox') :
          s <= inbox'[n].slip /\ (~m.data /\ inbox'[n].data => s < inbox'[n].slip)
    BY <1>4, <1>5, <1>8 DEF NotAfter
  <2>3. QED
    BY <2>1, <2>2 DEF Begun, Over
<1>10. seen' \subseteq Slip /\ cleared' \subseteq Slip
  BY <1>1, <1>4 DEF IInv, TypeOK
<1>11. Len(inbox') <= Depth
  BY <1>3, EdgeAssumption DEF IInv, TypeOK
<1>12. QueueInOrder'
  <2>1. Current' = Current
    BY <1>1 DEF Current
  <2>2. \A n \in 1..Len(inbox') : NotAfter(inbox'[n], Current)
    BY <1>3 DEF IInv, QueueInOrder
  <2>3. ASSUME NEW k \in 1..Len(inbox'), NEW n \in 1..Len(inbox'), k <= n
        PROVE  NotAfter(inbox'[k], inbox'[n])
    <3>1. k + 1 <= n + 1 /\ k + 1 \in 1..Len(inbox) /\ n + 1 \in 1..Len(inbox)
      BY <1>3, <2>3
    <3>2. QED
      BY <1>3, <3>1 DEF IInv, QueueInOrder
  <2>4. QED
    BY <2>1, <2>2, <2>3 DEF QueueInOrder
<1>13. CASE ~m.data
  <2>1. /\ reports' = reports /\ prev' = FALSE
        /\ seen' = seen /\ cleared' = cleared \cup {m.slip}
    BY <1>1, <1>13
  <2>2. TypeOK'
    BY <1>1, <1>3, <1>10, <1>11, <2>1 DEF IInv, TypeOK
  <2>3. HistoryInOrder'
    <3>1. \A k \in DOMAIN reports : Begun(reports[k].slip)' /\ reports[k].run <= run'
      <4>1. \A k \in DOMAIN reports : reports[k].slip \in Nat /\ Begun(reports[k].slip)
              /\ reports[k].run <= run
        BY <1>2 DEF IInv, HistoryInOrder
      <4>2. (\A k \in DOMAIN reports : Begun(reports[k].slip) /\ reports[k].run <= run)'
        BY <1>1, <1>6, <2>1, <4>1
      <4>3. QED
        BY <2>1, <4>2
    <3>2. \A s \in seen' : Begun(s)'
      BY <1>2, <1>6, <2>1 DEF IInv, HistoryInOrder
    <3>3. ASSUME NEW s \in cleared'
          PROVE  Over(s)'
      <4>1. s \in Nat /\ (s \in cleared \/ s <= m.slip)
        BY <1>2, <1>4, <2>1
      <4>2. s \in cleared => Over(s)
        BY DEF IInv, HistoryInOrder
      <4>3. QED
        BY <1>6, <1>9, <1>13, <4>1, <4>2
    <3>4. QED
      BY <2>1, <3>1, <3>2, <3>3 DEF HistoryInOrder
  <2>4. EdgeIsNew'
    BY <1>2, <1>7, <1>9, <1>13, <2>1 DEF IInv, HistoryInOrder, EdgeIsNew
  <2>5. MissedForCause'
    <3> SUFFICES ASSUME NEW s \in seen, ~Reported(s)
                 PROVE  \E r \in seen : r < s /\ Reported(r) /\ cleared' \cap r..(s - 1) = {}
      BY <1>1, <2>1 DEF MissedForCause, Reported
    <3>1. PICK r \in seen : r < s /\ Reported(r) /\ cleared \cap r..(s - 1) = {}
      BY DEF IInv, MissedForCause
    <3>2. s \in Nat /\ s <= m.slip
      BY <1>2, <1>7 DEF IInv, HistoryInOrder
    <3>3. m.slip \notin r..(s - 1)
      BY <1>2, <1>4, <3>2
    <3>4. QED
      BY <2>1, <3>1, <3>3
  <2>6. QED
    BY <1>1, <1>12, <2>1, <2>2, <2>3, <2>4, <2>5 DEF IInv, EdgeIsHidden, ReportedInOrder
<1>14. CASE m.data /\ prev
  <2>1. /\ reports' = reports /\ prev' = TRUE
        /\ seen' = seen \cup {m.slip} /\ cleared' = cleared
    BY <1>1, <1>14
  <2>2. TypeOK'
    BY <1>1, <1>3, <1>10, <1>11, <2>1 DEF IInv, TypeOK
  <2>3. HistoryInOrder'
    <3>1. (\A k \in DOMAIN reports : Begun(reports[k].slip) /\ reports[k].run <= run)'
      BY <1>1, <1>2, <1>6, <2>1 DEF IInv, HistoryInOrder
    <3>2. ASSUME NEW s \in seen'
          PROVE  Begun(s)'
      <4>1. s \in Nat /\ (s \in seen \/ s <= m.slip)
        BY <1>2, <1>4, <2>1
      <4>2. s \in seen => Begun(s)
        BY DEF IInv, HistoryInOrder
      <4>3. QED
        BY <1>6, <1>9, <4>1, <4>2
    <3>3. \A s \in cleared' : Over(s)'
      BY <1>2, <1>6, <2>1 DEF IInv, HistoryInOrder
    <3>4. QED
      BY <3>1, <3>2, <3>3 DEF HistoryInOrder
  <2>4. PICK r \in seen : Reported(r) /\ \A s \in cleared : s < r
    BY <1>14 DEF IInv, EdgeIsHidden
  <2>5. EdgeIsHidden'
    BY <1>1, <2>1, <2>4 DEF EdgeIsHidden, Reported
  <2>6. r \in Nat /\ r <= m.slip
    BY <1>2, <1>7, <2>4 DEF IInv, HistoryInOrder
  <2>7. MissedForCause'
    <3> SUFFICES ASSUME NEW s \in seen \cup {m.slip}, ~Reported(s)
                 PROVE  \E x \in seen \cup {m.slip} :
                          x < s /\ Reported(x) /\ cleared \cap x..(s - 1) = {}
      BY <1>1, <2>1 DEF MissedForCause, Reported
    <3>1. CASE s \in seen
      BY <3>1 DEF IInv, MissedForCause
    <3>2. CASE s = m.slip
      <4>1. r < s
        BY <1>4, <2>4, <2>6, <3>2
      <4>2. cleared \cap r..(s - 1) = {}
        BY <1>2, <2>4, <2>6
      <4>3. QED
        BY <2>4, <4>1, <4>2
    <3>3. QED
      BY <3>1, <3>2
  <2>8. QED
    BY <1>1, <1>12, <2>1, <2>2, <2>3, <2>5, <2>7 DEF IInv, EdgeIsNew, ReportedInOrder
<1>15. CASE m.data /\ ~prev
  <2> DEFINE new == [slip |-> m.slip, run |-> run]
  <2>1. /\ reports' = Append(reports, new) /\ prev' = TRUE
        /\ seen' = seen \cup {m.slip} /\ cleared' = cleared
    BY <1>1, <1>15
  <2>2. new \in [slip : Slip, run : Run] /\ new.slip = m.slip /\ new.run = run
    BY <1>4 DEF IInv, TypeOK
  <2> HIDE DEF new
  <2>3. /\ reports' \in Seq([slip : Slip, run : Run])
        /\ Len(reports) \in Nat
        /\ DOMAIN reports = 1..Len(reports) /\ DOMAIN reports' = 1..(Len(reports) + 1)
        /\ \A k \in 1..Len(reports) : reports'[k] = reports[k]
        /\ reports'[Len(reports) + 1] = new
    <3>1. reports \in Seq([slip : Slip, run : Run])
      BY DEF IInv, TypeOK
    <3>2. QED
      BY <2>1, <2>2, <3>1, AppendProperties, LenProperties
  <2>4. \A k \in DOMAIN reports' :
          \/ k = Len(reports) + 1 /\ reports'[k] = new
          \/ k \in DOMAIN reports /\ k <= Len(reports) /\ reports'[k] = reports[k]
    BY <2>3
  <2>5. TypeOK'
    BY <1>1, <1>3, <1>10, <1>11, <2>1, <2>3 DEF IInv, TypeOK
  <2>6. \A k \in DOMAIN reports :
          /\ reports[k].slip \in Nat /\ reports[k].slip <= m.slip
          /\ reports[k].run \in Nat /\ reports[k].run <= run
          /\ reports[k].run = run => reports[k].slip < m.slip
    BY <1>2, <1>7, <1>15 DEF IInv, HistoryInOrder, EdgeIsNew
  <2>7. HistoryInOrder'
    <3>1. ASSUME NEW k \in DOMAIN reports'
          PROVE  Begun(reports[k].slip)' /\ reports'[k].run <= run'
      <4>1. reports'[k].slip \in Nat /\ reports'[k].run <= run'
            /\ (Begun(reports'[k].slip) \/ reports'[k].slip <= m.slip)
        BY <1>1, <1>2, <1>4, <2>2, <2>4, <2>6
      <4>2. \A s \in Nat : (Begun(s) \/ s <= m.slip) => Begun(s)'
        BY <1>6, <1>9
      <4>3. \A s : Begun(s)' <=> s <= slip' /\ \A n \in 1..Len(inbox') : s <= inbox'[n].slip
        BY DEF Begun
      <4>4. QED
        BY <4>1, <4>2, <4>3 DEF Begun
    <3>2. ASSUME NEW s \in seen'
          PROVE  Begun(s)'
      <4>1. s \in Nat /\ (s \in seen \/ s <= m.slip)
        BY <1>2, <1>4, <2>1
      <4>2. s \in seen => Begun(s)
        BY DEF IInv, HistoryInOrder
      <4>3. QED
        BY <1>6, <1>9, <4>1, <4>2
    <3>3. \A s \in cleared' : Over(s)'
      BY <1>2, <1>6, <2>1 DEF IInv, HistoryInOrder
    <3>4. QED
      BY <3>1, <3>2, <3>3 DEF HistoryInOrder
  <2>8. /\ \A s : Reported(s) => \E k \in DOMAIN reports' : reports'[k].slip = s
                                                       /\ reports'[k].run = run'
        /\ \E k \in DOMAIN reports' : reports'[k].slip = m.slip /\ reports'[k].run = run'
    BY <1>1, <2>2, <2>3 DEF Reported
  <2>9. EdgeIsHidden'
    <3>1. \A s \in cleared : s < m.slip
      BY <1>2, <1>7, <1>15 DEF IInv, HistoryInOrder
    <3>2. QED
      BY <2>1, <2>8, <3>1 DEF EdgeIsHidden, Reported
  <2>10. ReportedInOrder'
    <3> SUFFICES ASSUME NEW k \in DOMAIN reports', NEW n \in DOMAIN reports', k < n
                 PROVE  /\ reports'[k].slip <= reports'[n].slip
                        /\ reports'[k].slip = reports'[n].slip =>
                             reports'[k].run < reports'[n].run
      BY DEF ReportedInOrder
    <3>1. CASE n = Len(reports) + 1
      <4>1. k \in DOMAIN reports /\ reports'[k] = reports[k] /\ reports'[n] = new
        BY <2>3, <3>1
      <4>2. QED
        BY <1>2, <1>4, <2>2, <2>6, <4>1
    <3>2. CASE n # Len(reports) + 1
      <4>1. /\ k \in DOMAIN reports /\ reports'[k] = reports[k]
            /\ n \in DOMAIN reports /\ reports'[n] = reports[n]
        BY <2>3, <3>2
      <4>2. QED
        BY <4>1 DEF IInv, ReportedInOrder
    <3>3. QED
      BY <3>1, <3>2
  <2>11. MissedForCause'
    <3> SUFFICES ASSUME NEW s \in seen', ~Reported(s)'
                 PROVE  \E r \in seen' : r < s /\ Reported(r)' /\ cleared' \cap r..(s - 1) = {}
      BY DEF MissedForCause
    <3>1. s \in seen /\ ~Reported(s)
      BY <2>1, <2>8 DEF Reported
    <3>2. PICK r \in seen : r < s /\ Reported(r) /\ cleared \cap r..(s - 1) = {}
      BY <3>1 DEF IInv, MissedForCause
    <3>3. Reported(r)'
      BY <2>8, <3>2 DEF Reported
    <3>4. QED
      BY <2>1, <3>2, <3>3
  <2>12. QED
    BY <1>1, <1>12, <2>1, <2>5, <2>7, <2>9, <2>10, <2>11 DEF IInv, EdgeIsNew
<1>16. QED
  BY <1>4, <1>13, <1>14, <1>15 DEF IInv, TypeOK

\* What neither changes the state nor the history keeps the invariant.
LEMMA StutterKeepsIInv ==
  ASSUME IInv, UNCHANGED vars
  PROVE  IInv'
BY DEF vars, sensor, adapter, IInv, TypeOK, QueueInOrder, NotAfter, Current, HistoryInOrder,
       Begun, Over, EdgeIsNew, EdgeIsHidden, ReportedInOrder, MissedForCause, Reported

\* The invariant is inductive.
LEMMA Inductive == Spec => []IInv
<1>1. IInv /\ [Next]_vars => IInv'
  BY SensorKeepsIInv, StartKeepsIInv, CrashKeepsIInv, OnSlipKeepsIInv, StutterKeepsIInv
     DEF Next
<1>2. QED
  BY InitIInv, <1>1, PTL DEF Spec

-----------------------------------------------------------------------------

\* Every variable has its type and the queue never outgrows its depth.
THEOREM TypeCorrect == Spec => []TypeOK
<1>1. IInv => TypeOK
  BY DEF IInv
<1>2. QED
  BY Inductive, <1>1, PTL

\* Whatever the queue loses and however often the flag is published, one run
\* reports a slip at most once, and slips in the order in which they began.
THEOREM NoSlipIsReportedTwice == Spec => []ReportedInOrder
<1>1. IInv => ReportedInOrder
  BY DEF IInv
<1>2. QED
  BY Inductive, <1>1, PTL

\* A slip that was received and not reported is hidden behind a reported one,
\* with no low flag received in between.
THEOREM NoSlipIsMissedWithoutCause == Spec => []MissedForCause
<1>1. IInv => MissedForCause
  BY DEF IInv
<1>2. QED
  BY Inductive, <1>1, PTL
=============================================================================
