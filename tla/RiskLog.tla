------------------------------ MODULE RiskLog ------------------------------
(***************************************************************************)
(* What the persistent risk store promises to the processes that write it. *)
(*                                                                         *)
(* Seen from a caller of record_event the store is a log that maps an      *)
(* event id to the last event recorded under that id.  A call takes effect *)
(* at one instant between its start and its end or not at all; it returns  *)
(* only if it took effect and raises only if it did not.  A process that   *)
(* dies leaves the log as it is.  A power loss takes every process down    *)
(* and may cost the newest effects, never one that a checkpoint has made   *)
(* durable, and never an older effect while a newer one survives.          *)
(*                                                                         *)
(* The exception is a call broken off by something other than an error of  *)
(* the database: it takes no effect before its client records again, and   *)
(* none after that, but if the client closes the log first the log may     *)
(* hold anything under the id of that call.                                *)
(***************************************************************************)
EXTENDS Naturals, Sequences

CONSTANTS
  Client,   \* processes with an open store
  Id,       \* event ids
  Event,    \* the events that may be recorded, records with a field "id"
  NoEvent   \* what the log holds for an id that was never recorded

VARIABLES
  states,   \* the states a power loss may fall back to; the last one is current
  call,     \* what each client is doing
  left,     \* the id of the call each client has broken off, or NoEvent
  torn      \* the ids that clients closed the log on after such a call

logVars == <<states, call, left, torn>>

Current == states[Len(states)]

Empty == [id \in Id |-> NoEvent]

Idle == [st |-> "idle"]
Down == [st |-> "down"]
Pending(e) == [st |-> "pending", event |-> e]
Applied(e) == [st |-> "applied", event |-> e]

LogInit ==
  /\ states = <<Empty>>
  /\ call = [c \in Client |-> Down]
  /\ left = [c \in Client |-> NoEvent]
  /\ torn = {}

Start(c) ==
  /\ call[c] = Down
  /\ call' = [call EXCEPT ![c] = Idle]
  /\ UNCHANGED <<states, left, torn>>

Stop(c) ==
  /\ call' = [call EXCEPT ![c] = Down]
  /\ left' = [left EXCEPT ![c] = NoEvent]
  /\ UNCHANGED <<states, torn>>

\* The client closes the log on a call it broke off.
StopTorn(c) ==
  /\ call[c] = Idle
  /\ left[c] # NoEvent
  /\ Len(states') = Len(states) + 1
  /\ states' = Append(states, [Current EXCEPT ![left[c]] =
                                 states'[Len(states) + 1][left[c]]])
  /\ torn' = torn \cup {left[c]}
  /\ call' = [call EXCEPT ![c] = Down]
  /\ left' = [left EXCEPT ![c] = NoEvent]

Record(c, e) ==
  /\ call[c] = Idle
  /\ call' = [call EXCEPT ![c] = Pending(e)]
  /\ UNCHANGED <<states, left, torn>>

TakeEffect(c, e) ==
  /\ call[c] = Pending(e)
  /\ left[c] = NoEvent
  /\ states' = Append(states, [Current EXCEPT ![e.id] = e])
  /\ call' = [call EXCEPT ![c] = Applied(e)]
  /\ UNCHANGED <<left, torn>>

Return(c, e) ==
  /\ call[c] = Applied(e)
  /\ call' = [call EXCEPT ![c] = Idle]
  /\ UNCHANGED <<states, left, torn>>

Raise(c, e) ==
  /\ call[c] = Pending(e)
  /\ call' = [call EXCEPT ![c] = Idle]
  /\ left' = [left EXCEPT ![c] = NoEvent]
  /\ UNCHANGED <<states, torn>>

\* An exception that the store does not handle ends the call; what it has
\* written, if it had begun to write, is neither kept nor thrown away yet.
BreakOff(c, e) ==
  /\ call[c] \in {Pending(e), Applied(e)}
  /\ call' = [call EXCEPT ![c] = Idle]
  /\ \/ UNCHANGED left
     \/ /\ call[c] = Pending(e) /\ left[c] = NoEvent
        /\ left' = [left EXCEPT ![c] = e.id]
  /\ UNCHANGED <<states, torn>>

MakeDurable ==
  /\ states' = <<Current>>
  /\ UNCHANGED <<call, left, torn>>

LosePower ==
  /\ \E n \in 1..Len(states) : states' = SubSeq(states, 1, n)
  /\ call' = [c \in Client |-> Down]
  /\ left' = [c \in Client |-> NoEvent]
  /\ UNCHANGED torn

LogNext ==
  \/ \E c \in Client :
       \/ Start(c)
       \/ Stop(c)
       \/ StopTorn(c)
       \/ \E e \in Event : Record(c, e) \/ TakeEffect(c, e) \/ Return(c, e)
                             \/ Raise(c, e) \/ BreakOff(c, e)
  \/ MakeDurable
  \/ LosePower

LogSpec == LogInit /\ [][LogNext]_logVars

-----------------------------------------------------------------------------
(* What follows for whoever uses the log.                                  *)

\* Whatever state a power loss falls back to, every later one came from it by
\* one effect after the other, each of one event under its own id, or of a
\* call that was broken off under the id of that call.
OneEffectApart ==
  \A n \in 1..(Len(states) - 1) :
    \/ \E e \in Event : states[n + 1] = [states[n] EXCEPT ![e.id] = e]
    \/ \E i \in torn : \A j \in Id \ {i} : states[n + 1][j] = states[n][j]

\* When a call returns, the log holds its event, or one that was recorded
\* under the same id since, unless that id was torn.
ReturnedIsRecorded ==
  \A c \in Client, e \in Event : call[c] = Applied(e) =>
    \/ e.id \in torn
    \/ Current[e.id] \in Event /\ Current[e.id].id = e.id
=============================================================================
