------------------------------ MODULE Broadcast ------------------------------
(***************************************************************************)
(* The broadcast channel of the daemon's event bus                         *)
(* (orchestratord/src/engine.rs, mod broadcast): a bounded ring of         *)
(* (seq, value) pairs and the next sequence number, behind one mutex.      *)
(* Every operator below is one critical section of that mutex, as a        *)
(* function of the channel's state.                                        *)
(***************************************************************************)
EXTENDS Integers, Sequences, FiniteSets

CONSTANT CAPACITY   \* slots of the ring; 1024 in the code

ASSUME CapacityAssumption == CAPACITY \in Nat \ {0}

Channel == [ring |-> <<>>, next_seq |-> 1]

(* Mutant: evicts on every send, as if the fullness test were missing. *)
SendAlwaysEvicting(bus, value) ==
  [ring     |-> Append(IF bus.ring = <<>> THEN <<>> ELSE Tail(bus.ring),
                       [seq |-> bus.next_seq, val |-> value]),
   next_seq |-> bus.next_seq + 1]

(* The oldest entry is evicted only when the ring is already full. *)
Send(bus, value) ==
  [ring     |-> Append(IF Len(bus.ring) = CAPACITY THEN Tail(bus.ring) ELSE bus.ring,
                       [seq |-> bus.next_seq, val |-> value]),
   next_seq |-> bus.next_seq + 1]

(* Mutant: keeps the entry at the cursor too (>= for >). *)
PassedExclusive(bus, cursor) == Cardinality({i \in 1..Len(bus.ring) : bus.ring[i].seq < cursor})

(* The loop of drain_since keeps the entries above the cursor. Sequence     *)
(* numbers ascend along the ring (RingContiguous), so what it skips is a    *)
(* prefix.                                                                  *)
Passed(bus, cursor) == Cardinality({i \in 1..Len(bus.ring) : bus.ring[i].seq <= cursor})

(* Mutant: answers with the next number to be assigned. *)
DrainSinceNext(bus, cursor) ==
  LET skip == Passed(bus, cursor)
  IN  [cursor |-> bus.next_seq,
       events |-> [i \in 1..(Len(bus.ring) - skip) |-> bus.ring[skip + i].val]]

DrainSince(bus, cursor) ==
  LET skip == Passed(bus, cursor)
      rest == Len(bus.ring) - skip
  IN  [cursor |-> IF rest = 0 THEN cursor ELSE bus.ring[Len(bus.ring)].seq,
       events |-> [i \in 1..rest |-> bus.ring[skip + i].val]]

(* The sequence number of the last value sent, 0 before the first. *)
LastSeq(bus) == bus.next_seq - 1
=============================================================================
