------------------------------- MODULE EventBus -------------------------------
(***************************************************************************)
(* The event bus as its clients see it: the engine publishes, and clients  *)
(* poll it over a connection with events.tail { since, limit }, keeping    *)
(* the cursor themselves. The daemon may die and be started again: its     *)
(* bus is then empty and numbers from 1, and what a connection had in      *)
(* flight is gone.                                                         *)
(*                                                                         *)
(* An event is identified by <<run, n>>: the n-th value sent in the run-th *)
(* life of the daemon. No client of events.tail exists in the repository;  *)
(* ResetOnReconnect chooses what the client does with its cursor when it   *)
(* opens a new connection.                                                 *)
(***************************************************************************)
EXTENDS Broadcast

CONSTANTS Clients,           \* clients of the bus
          Limits,            \* the "limit" values a client asks for
          MaxEvents,         \* bound: values sent in one life of the daemon
          MaxRuns,           \* bound: lives of the daemon
          ResetOnReconnect   \* a client starts from 0 on a new connection

ASSUME BusAssumption == /\ Limits \subseteq Nat
                        /\ MaxEvents \in Nat
                        /\ MaxRuns \in Nat \ {0}
                        /\ ResetOnReconnect \in BOOLEAN

VARIABLES run,      \* which life of the daemon this is
          bus,      \* the channel of this life
          cursor,   \* per client: the last cursor it was given
          call,     \* per client: its outstanding events.tail, or Idle
          reply,    \* per client: the answer on its way, or NoReply
          seen,     \* per client: the events it received, in order
          gap       \* per client: an answer of this life failed the cursor comparison

busVars == <<run, bus, cursor, call, reply, seen, gap>>

Idle    == [state |-> "idle"]
NoReply == [state |-> "none"]
Call(since, limit)    == [state |-> "asked", since |-> since, limit |-> limit]
Reply(newCursor, evs) == [state |-> "answered", cursor |-> newCursor, events |-> evs]

BusInit ==
  /\ run = 1
  /\ bus = Channel
  /\ cursor = [c \in Clients |-> 0]
  /\ call = [c \in Clients |-> Idle]
  /\ reply = [c \in Clients |-> NoReply]
  /\ seen = [c \in Clients |-> <<>>]
  /\ gap = [c \in Clients |-> FALSE]

(* The engine thread sends one event. *)
Publish == /\ LastSeq(bus) < MaxEvents
           /\ bus' = Send(bus, <<run, bus.next_seq>>)
           /\ UNCHANGED <<run, cursor, call, reply, seen, gap>>

(* A client writes an events.tail request. *)
Ask(c, limit) == /\ call[c] = Idle
                 /\ call' = [call EXCEPT ![c] = Call(cursor[c], limit)]
                 /\ UNCHANGED <<run, bus, cursor, reply, seen, gap>>

(* dispatch, "events.tail": the ring is drained first, and the list is cut  *)
(* to the limit afterwards; the cursor is that of the whole drain.          *)
Truncated(events, limit) == SubSeq(events, 1, IF Len(events) > limit THEN limit ELSE Len(events))

(* Mutant: a cursor that counts what was returned instead of reading the    *)
(* drain's.                                                                 *)
EventsTailCounting(since, limit) ==
  LET events == Truncated(DrainSince(bus, since).events, limit)
  IN  Reply(since + Len(events), events)

EventsTail(since, limit) ==
  LET drained == DrainSince(bus, since)
  IN  Reply(drained.cursor, Truncated(drained.events, limit))

Serve(c) == /\ call[c].state = "asked"
            /\ reply[c] = NoReply
            /\ reply' = [reply EXCEPT ![c] = EventsTail(call[c].since, call[c].limit)]
            /\ UNCHANGED <<run, bus, cursor, call, seen, gap>>

(* The client takes the answer, and compares the new cursor with its old    *)
(* one plus the number of events, as the comment of drain_since tells it.   *)
Receive(c) ==
  /\ reply[c].state = "answered"
  /\ seen' = [seen EXCEPT ![c] = @ \o reply[c].events]
  /\ gap' = [gap EXCEPT ![c] = @ \/ reply[c].cursor # call[c].since + Len(reply[c].events)]
  /\ cursor' = [cursor EXCEPT ![c] = reply[c].cursor]
  /\ call' = [call EXCEPT ![c] = Idle]
  /\ reply' = [reply EXCEPT ![c] = NoReply]
  /\ UNCHANGED <<run, bus>>

(* A connection breaks: the request or its answer is lost, the daemon       *)
(* lives on, and the client asks again over a new connection.               *)
OnReconnect(cur) == IF ResetOnReconnect THEN 0 ELSE cur

Disconnect(c) == /\ call[c] # Idle
                 /\ call' = [call EXCEPT ![c] = Idle]
                 /\ reply' = [reply EXCEPT ![c] = NoReply]
                 /\ UNCHANGED <<run, bus, cursor, seen, gap>>

(* The daemon dies and is started again: every connection is reopened. *)
Restart == /\ run < MaxRuns
           /\ run' = run + 1
           /\ bus' = Channel
           /\ cursor' = [c \in Clients |-> OnReconnect(cursor[c])]
           /\ call' = [c \in Clients |-> Idle]
           /\ reply' = [c \in Clients |-> NoReply]
           /\ gap' = [c \in Clients |-> FALSE]
           /\ UNCHANGED seen

BusNext ==
  \/ Publish
  \/ Restart
  \/ \E c \in Clients : \/ \E limit \in Limits : Ask(c, limit)
                        \/ Serve(c)
                        \/ Receive(c)
                        \/ Disconnect(c)

BusSpec == BusInit /\ [][BusNext]_busVars

(* A connection thread serves what it was sent, and a client goes on        *)
(* polling. SF: a connection may break again and again, but not every time  *)
(* before the exchange is over.                                             *)
BusFairness ==
  \A c \in Clients : /\ WF_busVars(\E limit \in Limits : Ask(c, limit))
                     /\ SF_busVars(Serve(c))
                     /\ SF_busVars(Receive(c))

BusLiveSpec == BusSpec /\ BusFairness
-----------------------------------------------------------------------------
Events == (1..MaxRuns) \X (1..MaxEvents)

BusTypeOK ==
  /\ run \in 1..MaxRuns
  /\ bus \in [ring : Seq([seq : 1..MaxEvents, val : Events]), next_seq : 1..(MaxEvents + 1)]
  /\ cursor \in [Clients -> 0..MaxEvents]
  /\ call \in [Clients -> {Idle} \cup [state : {"asked"}, since : 0..MaxEvents, limit : Limits]]
  /\ reply \in [Clients -> {NoReply} \cup
                   [state : {"answered"}, cursor : 0..MaxEvents, events : Seq(Events)]]
  /\ seen \in [Clients -> Seq(Events)]
  /\ gap \in [Clients -> BOOLEAN]

(* The ring holds exactly the most recent values sent, in the order they    *)
(* were sent and under consecutive numbers ending just below next_seq: send *)
(* evicts the oldest entry, and only when the ring is full. What            *)
(* drain_since promises ("only the surviving tail") rests on it.            *)
RingContiguous ==
  /\ Len(bus.ring) = IF LastSeq(bus) < CAPACITY THEN LastSeq(bus) ELSE CAPACITY
  /\ \A i \in 1..Len(bus.ring) :
        LET n == LastSeq(bus) - Len(bus.ring) + i
        IN  bus.ring[i] = [seq |-> n, val |-> <<run, n>>]

Before(e, f) == e[1] < f[1] \/ (e[1] = f[1] /\ e[2] < f[2])

(* Whatever limits a client asks for, however often its connection breaks   *)
(* or the daemon restarts between its polls, it never receives an event     *)
(* twice nor two events in the wrong order: the cursor it resends is always *)
(* one that covers all it was given.                                        *)
InOrderOnce ==
  \A c \in Clients : \A i, j \in DOMAIN seen[c] : i < j => Before(seen[c][i], seen[c][j])

Received(c) == {seen[c][i] : i \in DOMAIN seen[c]}

(* The comment of drain_since: "callers can detect the gap by comparing the *)
(* returned cursor against cursor + result.len()". A client whose           *)
(* comparisons never failed has received every event its cursor has passed, *)
(* also when a limit cut an answer short or the ring turned over between    *)
(* two polls.                                                               *)
NoSilentLoss ==
  \A c \in Clients : ~ gap[c] =>
    \A n \in 1..LastSeq(bus) : n <= cursor[c] => <<run, n>> \in Received(c)

(* A client that goes on polling is brought up to every event of the life   *)
(* of the daemon it polls: its cursor reaches it, whatever its limits.      *)
CatchUp ==
  \A c \in Clients : \A r \in 1..MaxRuns : \A n \in 1..MaxEvents :
    (run = r /\ LastSeq(bus) >= n) ~> (run > r \/ cursor[c] >= n)
=============================================================================
