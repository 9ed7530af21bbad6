------------------------------ MODULE PushBus -------------------------------
(***************************************************************************)
(* The ordered event log of one session: makeSessionPushBusHandle of       *)
(* apps/server/src/services/pushBus.ts, the implementation behind both     *)
(* SessionPushBus and SessionPushBuses.  A bus is a record of the last     *)
(* sequence number stamped and the ring of the latest Capacity events.     *)
(*                                                                         *)
(* append stamps and dispatches in one synchronous unit, so an append is   *)
(* one step of the modules that use the bus; whom it dispatches to is      *)
(* theirs to say.                                                          *)
(***************************************************************************)
EXTENDS Integers, Sequences

CONSTANTS
  Capacity,   \* DEFAULT_PUSH_BUS_CAPACITY is 5000
  Evicted     \* the null of replayFrom: the caller must fall back to a snapshot

ASSUME CapacityAssumption == Capacity \in Nat \ {0}

EmptyBus == [seq |-> 0, ring |-> <<>>]

Stamped(n, e) == [seq |-> n, event |-> e]

\* A mutant: the ring keeps one entry too few once it is full.
AppendDroppingTwo(bus, e) ==
  LET ring == Append(bus.ring, Stamped(bus.seq + 1, e))
  IN  [seq  |-> bus.seq + 1,
       ring |-> IF Len(ring) > Capacity THEN SubSeq(ring, 3, Len(ring)) ELSE ring]

\* The ring without its overflow.
Latest(ring) ==
  IF Len(ring) > Capacity THEN SubSeq(ring, Len(ring) - Capacity + 1, Len(ring)) ELSE ring

\* appendSync: stamp, append, drop the overflow.
AppendEvent(bus, e) ==
  [seq  |-> bus.seq + 1,
   ring |-> Latest(Append(bus.ring, Stamped(bus.seq + 1, e)))]

\* Several appends in one synchronous unit.
AppendAll(bus, events) ==
  [seq  |-> bus.seq + Len(events),
   ring |-> Latest(bus.ring \o [i \in DOMAIN events |-> Stamped(bus.seq + i, events[i])])]

\* A mutant: no eviction test, what is left of the ring is replayed.
ReplayWhatIsLeft(bus, lastSeq) ==
  SelectSeq(bus.ring, LAMBDA s : s.seq > lastSeq)

\* replayFrom: the events after lastSeq, or Evicted.  The filter of the ring
\* keeps its later part, because the ring is in stamp order (RingInOrder).
ReplayFrom(bus, lastSeq) ==
  IF lastSeq >= bus.seq THEN <<>>
  ELSE IF bus.ring = <<>> \/ lastSeq < Head(bus.ring).seq - 1 THEN Evicted
  ELSE SubSeq(bus.ring, lastSeq - Head(bus.ring).seq + 2, Len(bus.ring))

-----------------------------------------------------------------------------
\* The ring holds the latest events, consecutively stamped, up to Capacity.
RingInOrder(bus) ==
  /\ Len(bus.ring) = IF bus.seq < Capacity THEN bus.seq ELSE Capacity
  /\ \A i \in DOMAIN bus.ring : bus.ring[i].seq = bus.seq - Len(bus.ring) + i
=============================================================================
