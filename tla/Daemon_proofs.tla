----------------------------- MODULE Daemon_proofs -----------------------------
(***************************************************************************)
(* What holds of the daemon's threads for all clients, sizes and bounds.   *)
(***************************************************************************)
EXTENDS Daemon, SequenceTheorems, FiniteSetTheorems, TLAPS

(* How often the elements of T occur in s. *)
Places(s, T) == {i \in 1..Len(s) : s[i] \in T}

Count(s, T) == Cardinality(Places(s, T))

LEMMA PlacesFinite ==
  ASSUME NEW S, NEW s \in Seq(S), NEW T
  PROVE  IsFiniteSet(Places(s, T)) /\ Count(s, T) \in Nat
<1>1. IsFiniteSet(1..Len(s))
  BY LenProperties, FS_Interval
<1>2. IsFiniteSet(Places(s, T))
  BY <1>1, FS_Subset DEF Places
<1> QED BY <1>2, FS_CardinalityType DEF Count

LEMMA CountEmpty == ASSUME NEW T PROVE Count(<<>>, T) = 0
<1>1. Places(<<>>, T) = {}
  BY DEF Places
<1> QED BY <1>1, FS_EmptySet DEF Count

LEMMA CountAppend ==
  ASSUME NEW S, NEW s \in Seq(S), NEW x \in S, NEW T
  PROVE  Count(Append(s, x), T) = Count(s, T) + (IF x \in T THEN 1 ELSE 0)
<1> DEFINE n == Len(s)
           k == Append(s, x)
<1>1. /\ n \in Nat /\ Len(k) = n + 1
      /\ \A i \in 1..n : k[i] = s[i]
      /\ k[n + 1] = x
  BY AppendProperties, LenProperties
<1>2. IsFiniteSet(Places(s, T)) /\ Count(s, T) \in Nat
  BY PlacesFinite
<1>3. CASE x \in T
  <2>1. Places(k, T) = Places(s, T) \cup {n + 1} /\ n + 1 \notin Places(s, T)
    BY <1>1, <1>3 DEF Places
  <2> QED BY <2>1, <1>2, <1>3, FS_AddElement DEF Count
<1>4. CASE x \notin T
  <2>1. Places(k, T) = Places(s, T)
    BY <1>1, <1>4 DEF Places
  <2> QED BY <2>1, <1>2, <1>4 DEF Count
<1> QED BY <1>3, <1>4

LEMMA CountTail ==
  ASSUME NEW S, NEW s \in Seq(S), s # <<>>, NEW T
  PROVE  /\ Count(s, T) = Count(Tail(s), T) + (IF Head(s) \in T THEN 1 ELSE 0)
         /\ Head(s) \in S /\ Tail(s) \in Seq(S)
         /\ Count(s, T) \in Nat /\ Count(Tail(s), T) \in Nat
         /\ Len(Tail(s)) = Len(s) - 1 /\ Len(s) \in Nat
<1> DEFINE n == Len(s)
           t == Tail(s)
<1>1. /\ n \in Nat /\ n # 0 /\ Len(t) = n - 1 /\ t \in Seq(S) /\ Head(s) \in S
      /\ \A i \in 1..(n - 1) : t[i] = s[i + 1]
      /\ s[1] = Head(s)
  BY HeadTailProperties, LenProperties, EmptySeq
<1>2. /\ IsFiniteSet(Places(s, T)) /\ IsFiniteSet(Places(t, T))
      /\ Count(s, T) \in Nat /\ Count(t, T) \in Nat
  BY <1>1, PlacesFinite
<1> DEFINE A == Places(t, T)
           B == Places(s, T) \ {1}
           f == [i \in A |-> i + 1]
<1>3. f \in Bijection(A, B)
  <2>1. \A i \in A : i \in Int /\ i + 1 \in B
    BY <1>1 DEF Places
  <2>2. f \in Injection(A, B)
    BY <2>1 DEF Injection, IsInjective
  <2>3. \A j \in B : \E i \in A : f[i] = j
    <3> TAKE j \in B
    <3>1. j \in 2..n /\ s[j] \in T
      BY <1>1 DEF Places
    <3>2. j - 1 \in A /\ f[j - 1] = j
      BY <3>1, <1>1 DEF Places
    <3> QED BY <3>2
  <2> QED BY <2>1, <2>2, <2>3 DEF Bijection, Surjection, Injection
<1>4. Cardinality(A) = Cardinality(B)
  BY <1>2, <1>3, FS_Bijection DEF ExistsBijection
<1>5. 1 \in Places(s, T) <=> Head(s) \in T
  BY <1>1 DEF Places
<1>6. Cardinality(B) = IF 1 \in Places(s, T) THEN Cardinality(Places(s, T)) - 1
                       ELSE Cardinality(Places(s, T))
  BY <1>2, FS_RemoveElement
<1>7. Count(s, T) = Count(t, T) + (IF Head(s) \in T THEN 1 ELSE 0)
  BY <1>2, <1>4, <1>5, <1>6 DEF Count
<1> QED BY <1>1, <1>2, <1>7

-----------------------------------------------------------------------------
(* The invariant. *)

Held(p)    == IF p = "object" THEN 1 ELSE 0
Served(at) == IF at \in {"calling", "writing"} THEN 1 ELSE 0

(* OnlyCutObjectsLost, from before the connection has its thread. *)
Answered ==
  \A c \in Clients :
    conn[c] # "ended" =>
      owed[c] = Count(inbox[c], Due) + Held(partial[c]) + Served(conn[c]) + cut[c]

(* What may follow a piece: the second one after a first, and only then. *)
Follows(p, q) == p \in Beginnings \/ q \in DOMAIN FirstOf => q \in DOMAIN FirstOf /\ FirstOf[q] = p

(* The pieces of a socket are in order, they go on where read_line is, and  *)
(* the client will go on where they end.                                    *)
InOrder(s) == \A i \in 1..Len(s), j \in 1..Len(s) : j = i + 1 => Follows(s[i], s[j])

Left(s) == IF s[Len(s)] \in Beginnings THEN s[Len(s)] ELSE "nothing"

FramedAt(c) ==
  /\ InOrder(inbox[c])
  /\ inbox[c] # <<>> /\ partial[c] # "nothing" => Follows(partial[c], Head(inbox[c]))
  /\ link[c] \notin {"shut", "closed"} =>
       /\ inbox[c] # <<>> => half[c] = Left(inbox[c])
       /\ inbox[c] = <<>> /\ partial[c] # "nothing" => half[c] = partial[c]

Framed == \A c \in Clients : FramedAt(c)

(* Nothing is written before the hello is answered, so there is room. *)
FirstAnswer == \A c \in Clients : conn[c] \in {"none", "greeting"} => outbox[c] = 0

(* WaitersAreQueued *)
Queued == \A c \in Callers : Count(queue, {c}) = IF slot[c] = "waiting" THEN 1 ELSE 0

(* Only a thread that is in a call waits. *)
CallersWait == /\ \A c \in Clients : slot[c] = "waiting" => conn[c] = "calling"
               /\ slot["engine"] = "waiting" => engine = "calling"

(* The actor is told to stop, and stops, after the last connection. *)
StopsLast ==
  /\ Count(queue, {"Shutdown"}) > 0 \/ actor = "stopped" => main \in {"returned", "exited"} /\ Joined
  /\ main \in {"stopEngine", "stopActor", "exited"} => Joined

Lines == Answered /\ FirstAnswer

ActorInv == Queued /\ CallersWait /\ StopsLast /\ ActorOutlivesConnections

DaemonInv == TypeOK /\ Lines /\ ActorInv

LEMMA CallersAre ==
  /\ "Shutdown" \notin Callers /\ "engine" \in Callers /\ "engine" \notin Clients
  /\ \A c \in Clients : c \in Callers /\ c # "engine"
BY DaemonAssumption DEF Callers

LEMMA InitInv == Init => DaemonInv
<1> SUFFICES ASSUME Init PROVE DaemonInv
  OBVIOUS
<1>1. \A T : Count(<<>>, T) = 0
  BY CountEmpty
<1>2. TypeOK
  <2>1. /\ \A S : <<>> \in Seq(S)
        /\ Len(<<>>) = 0
    BY EmptySeq
  <2>2. /\ \A c \in Clients : Len(inbox[c]) <= InboxSize
        /\ outbox \in [Clients -> 0..OutboxSize]
    BY <2>1, DaemonAssumption DEF Init
  <2> QED BY <2>1, <2>2 DEF Init, TypeOK
<1>3. Answered /\ FirstAnswer
  BY <1>1 DEF Init, Answered, FirstAnswer, Held, Served
<1>4. Queued /\ CallersWait
  BY <1>1, CallersAre DEF Init, Queued, CallersWait
<1>5. StopsLast
  <2>1. Count(queue, {"Shutdown"}) = 0
    BY <1>1 DEF Init
  <2> QED BY <2>1 DEF Init, StopsLast
<1>6. ActorOutlivesConnections
  BY CallersAre DEF Init, ActorOutlivesConnections
<1> QED BY <1>2, <1>3, <1>4, <1>5, <1>6 DEF DaemonInv, Lines, ActorInv

-----------------------------------------------------------------------------
(* What the steps share. *)

(* Taking one piece out of a socket. *)
LEMMA ReadPiece ==
  ASSUME TypeOK, NEW c \in Clients, inbox[c] # <<>>,
         inbox' = [inbox EXCEPT ![c] = Tail(@)]
  PROVE  /\ inbox' \in [Clients -> Seq(Pieces)]
         /\ \A d \in Clients : Len(inbox'[d]) <= InboxSize
         /\ \A d \in Clients \ {c} : inbox'[d] = inbox[d]
         /\ Count(inbox[c], Due) =
              Count(inbox'[c], Due) + (IF Head(inbox[c]) \in Due THEN 1 ELSE 0)
         /\ Count(inbox[c], Due) \in Nat /\ Count(inbox'[c], Due) \in Nat
         /\ Head(inbox[c]) \in Pieces
<1>1. /\ inbox \in [Clients -> Seq(Pieces)] /\ inbox[c] \in Seq(Pieces)
      /\ \A d \in Clients : Len(inbox[d]) <= InboxSize
  BY DEF TypeOK
<1>2. /\ Count(inbox[c], Due) =
           Count(Tail(inbox[c]), Due) + (IF Head(inbox[c]) \in Due THEN 1 ELSE 0)
      /\ Head(inbox[c]) \in Pieces /\ Tail(inbox[c]) \in Seq(Pieces)
      /\ Count(inbox[c], Due) \in Nat /\ Count(Tail(inbox[c]), Due) \in Nat
      /\ Len(Tail(inbox[c])) = Len(inbox[c]) - 1 /\ Len(inbox[c]) \in Nat
  BY <1>1, CountTail
<1>3. inbox'[c] = Tail(inbox[c]) /\ \A d \in Clients \ {c} : inbox'[d] = inbox[d]
  BY <1>1
<1>4. \A d \in Clients : Len(inbox'[d]) <= InboxSize
  <2> TAKE d \in Clients
  <2>1. CASE d = c
    BY <2>1, <1>1, <1>2, <1>3, DaemonAssumption
  <2>2. CASE d # c
    BY <2>2, <1>1, <1>3
  <2> QED BY <2>1, <2>2
<1>5. inbox' \in [Clients -> Seq(Pieces)]
  BY <1>1, <1>2
<1> QED BY <1>2, <1>3, <1>4, <1>5

(* A step that leaves actor, queue and slots alone, and moves no connection *)
(* and no caller out of a call it waits in, keeps what is said of them.     *)
LEMMA ActorUntouched ==
  ASSUME DaemonInv, UNCHANGED <<actor, queue, slot>>,
         \A c \in Clients : conn[c] = "calling" => conn'[c] = "calling",
         engine = "calling" => engine' = "calling",
         Joined => Joined',
         main \in {"returned", "exited"} => main' \in {"returned", "exited"},
         main' \in {"stopEngine", "stopActor", "exited"} => Joined'
  PROVE  ActorInv'
BY DEF DaemonInv, Lines, ActorInv, Queued, CallersWait, StopsLast, ActorOutlivesConnections

(* A call to the actor, by a caller that does not wait already. *)
LEMMA Called ==
  ASSUME TypeOK, Queued, NEW c \in Callers, slot[c] # "waiting", CallActor(c)
  PROVE  /\ queue' \in Seq(Callers \cup {"Shutdown"})
         /\ slot' \in [Callers -> {"none", "waiting", "replied", "crashed"}]
         /\ Queued'
         /\ Count(queue', {"Shutdown"}) = Count(queue, {"Shutdown"})
         /\ \A d \in Callers \ {c} : slot'[d] = slot[d]
         /\ slot'[c] = IF actor = "running" THEN "waiting" ELSE "crashed"
<1>1. /\ queue \in Seq(Callers \cup {"Shutdown"})
      /\ slot \in [Callers -> {"none", "waiting", "replied", "crashed"}]
  BY DEF TypeOK
<1>2. CASE actor = "running"
  <2>1. queue' = Append(queue, c) /\ slot' = [slot EXCEPT ![c] = "waiting"]
    BY <1>2 DEF CallActor
  <2>2. \A T : Count(queue', T) = Count(queue, T) + (IF c \in T THEN 1 ELSE 0)
    BY <1>1, <2>1, CountAppend
  <2>3. \A T : Count(queue, T) \in Nat
    BY <1>1, PlacesFinite
  <2>4. queue' \in Seq(Callers \cup {"Shutdown"})
    BY <1>1, <2>1, AppendProperties
  <2>5. Count(queue', {"Shutdown"}) = Count(queue, {"Shutdown"})
    BY <2>2, <2>3, CallersAre
  <2>6. Queued'
    <3> SUFFICES ASSUME NEW d \in Callers
                 PROVE  Count(queue', {d}) = IF slot'[d] = "waiting" THEN 1 ELSE 0
      BY DEF Queued
    <3>1. Count(queue, {d}) = IF slot[d] = "waiting" THEN 1 ELSE 0
      BY DEF Queued
    <3>2. Count(queue', {d}) = Count(queue, {d}) + (IF c = d THEN 1 ELSE 0)
      <4>1. c \in {d} <=> c = d
        OBVIOUS
      <4> QED BY <2>2, <4>1
    <3> QED BY <1>1, <2>1, <3>1, <3>2
  <2> QED BY <1>1, <1>2, <2>1, <2>4, <2>5, <2>6
<1>3. CASE actor # "running"
  <2>1. queue' = queue /\ slot' = [slot EXCEPT ![c] = "crashed"]
    BY <1>3 DEF CallActor
  <2> QED BY <1>1, <1>3, <2>1 DEF Queued
<1> QED BY <1>2, <1>3

(* The end of the actor. *)
LEMMA Ended ==
  ASSUME TypeOK, NEW how, ActorEnds(how)
  PROVE  /\ queue' = <<>> /\ queue' \in Seq(Callers \cup {"Shutdown"}) /\ actor' = how
         /\ slot' \in [Callers -> {"none", "waiting", "replied", "crashed"}]
         /\ Queued'
         /\ Count(queue', {"Shutdown"}) = 0
         /\ \A d \in Callers : slot'[d] = IF slot[d] = "waiting" THEN "crashed" ELSE slot[d]
<1>1. /\ queue' = <<>> /\ actor' = how
      /\ \A d \in Callers : slot'[d] = IF slot[d] = "waiting" THEN "crashed" ELSE slot[d]
      /\ slot' \in [Callers -> {"none", "waiting", "replied", "crashed"}]
  BY DEF ActorEnds, QueueDropped, TypeOK
<1>2. \A T : Count(queue', T) = 0
  BY <1>1, CountEmpty
<1>3. Queued'
  BY <1>1, <1>2 DEF Queued
<1>4. queue' \in Seq(Callers \cup {"Shutdown"})
  BY <1>1, EmptySeq
<1> QED BY <1>1, <1>2, <1>3, <1>4

-----------------------------------------------------------------------------
(* The steps. *)

LEMMA ClientSteps ==
  ASSUME DaemonInv, NEW c \in Clients, Client(c) PROVE DaemonInv'
<1>1. TypeOK /\ Answered /\ FirstAnswer
  BY DEF DaemonInv, Lines
<1>2. UNCHANGED <<shutdown, main, conn, partial, cut, actorVars, engineVars>>
  BY DEF Client, Connect, ReadAnswer, Shut, Close, Send
<1>3. ActorInv'
  BY <1>2, ActorUntouched DEF actorVars, engineVars, Joined, DaemonInv, ActorInv, StopsLast
<1>4. CASE Connect(c)
  <2>1. TypeOK'
    BY <1>1, <1>4 DEF TypeOK, Connect, actorVars, engineVars
  <2>2. Lines'
    BY <1>1, <1>4 DEF Lines, Answered, FirstAnswer, Connect
  <2> QED BY <2>1, <2>2, <1>3 DEF DaemonInv
<1>5. CASE ReadAnswer(c)
  <2>1. TypeOK'
    BY <1>1, <1>5, DaemonAssumption DEF TypeOK, ReadAnswer, actorVars, engineVars
  <2>2. Lines'
    <3>1. Answered'
      BY <1>1, <1>5 DEF Answered, ReadAnswer
    <3>2. FirstAnswer'
      BY <1>1, <1>5 DEF FirstAnswer, ReadAnswer, TypeOK
    <3> QED BY <3>1, <3>2 DEF Lines
  <2> QED BY <2>1, <2>2, <1>3 DEF DaemonInv
<1>6. CASE Close(c)
  <2>1. TypeOK'
    BY <1>1, <1>6 DEF TypeOK, Close, actorVars, engineVars
  <2>2. Lines'
    BY <1>1, <1>6 DEF Lines, Answered, FirstAnswer, Close
  <2> QED BY <2>1, <2>2, <1>3 DEF DaemonInv
<1>10. CASE Shut(c)
  <2>1. TypeOK'
    BY <1>1, <1>10 DEF TypeOK, Shut, actorVars, engineVars
  <2>2. Lines'
    BY <1>1, <1>10 DEF Lines, Answered, FirstAnswer, Shut
  <2> QED BY <2>1, <2>2, <1>3 DEF DaemonInv
<1>7. ASSUME NEW piece \in Pieces, Send(c, piece)
      PROVE  DaemonInv'
  <2>1. /\ inbox \in [Clients -> Seq(Pieces)] /\ inbox[c] \in Seq(Pieces)
        /\ \A d \in Clients : Len(inbox[d]) <= InboxSize
        /\ lines \in [Clients -> Nat] /\ owed \in [Clients -> Nat]
        /\ half \in [Clients -> Beginnings \cup {"nothing"}] /\ cut \in [Clients -> Nat]
    BY <1>1 DEF TypeOK
  <2>2. /\ inbox' = [inbox EXCEPT ![c] = Append(inbox[c], piece)]
        /\ Len(inbox[c]) < InboxSize
    BY <1>7 DEF Send
  <2> DEFINE due == IF piece \in Due THEN 1 ELSE 0
  <2>3. /\ Count(Append(inbox[c], piece), Due) = Count(inbox[c], Due) + due
        /\ Append(inbox[c], piece) \in Seq(Pieces)
        /\ Len(Append(inbox[c], piece)) = Len(inbox[c]) + 1 /\ Len(inbox[c]) \in Nat
        /\ Count(inbox[c], Due) \in Nat
    <3> QED BY <2>1, <1>7, CountAppend, AppendProperties, LenProperties, PlacesFinite
  <2>4. owed' = [owed EXCEPT ![c] = owed[c] + due]
    <3>1. owed' = [owed EXCEPT ![c] = IF piece \in Due THEN owed[c] + 1 ELSE owed[c]]
      BY <1>7 DEF Send
    <3>2. (IF piece \in Due THEN owed[c] + 1 ELSE owed[c]) = owed[c] + due
      BY <2>1
    <3> QED BY <3>1, <3>2
  <2>5. due \in {0, 1}
    OBVIOUS
  <2> HIDE DEF due
  <2>6. TypeOK'
    <3>1. inbox' \in [Clients -> Seq(Pieces)]
      BY <2>1, <2>2, <2>3
    <3>2. \A d \in Clients : Len(inbox'[d]) <= InboxSize
      BY <2>1, <2>2, <2>3, DaemonAssumption
    <3>3. owed' \in [Clients -> Nat]
      BY <2>1, <2>4, <2>5
    <3>4. lines' \in [Clients -> Nat] /\ half' \in [Clients -> Beginnings \cup {"nothing"}]
      BY <1>7, <2>1 DEF Send
    <3>5. UNCHANGED <<link, outbox>>
      BY <1>7 DEF Send
    <3> QED BY <3>1, <3>2, <3>3, <3>4, <3>5, <1>1, <1>2 DEF TypeOK, actorVars, engineVars
  <2>7. Answered'
    <3> SUFFICES ASSUME NEW d \in Clients, conn'[d] # "ended"
                 PROVE  owed'[d] = Count(inbox'[d], Due) + Held(partial'[d]) + Served(conn'[d]) + cut'[d]
      BY DEF Answered
    <3>1. owed[d] = Count(inbox[d], Due) + Held(partial[d]) + Served(conn[d]) + cut[d]
      BY <1>1, <1>2 DEF Answered
    <3>2. CASE d = c
      <4>1. owed'[c] = owed[c] + due /\ inbox'[c] = Append(inbox[c], piece)
        BY <2>1, <2>2, <2>4
      <4>2. conn' = conn
        BY <1>2
      <4> DEFINE before == Count(inbox[c], Due)
                 held == Held(partial[c])
                 served == Served(conn[c])
      <4>3. Count(inbox'[c], Due) = before + due
        BY <4>1, <2>3
      <4>4. owed[c] = before + held + served + cut[c]
        BY <3>1, <3>2
      <4>5. before \in Nat /\ due \in Nat /\ held \in Nat /\ served \in Nat /\ cut[c] \in Nat
        BY <2>1, <2>3, <2>5 DEF Held, Served
      <4> HIDE DEF before, held, served
      <4>6. owed'[c] = (before + due) + held + served + cut[c]
        BY <4>1, <4>4, <4>5
      <4> QED BY <4>3, <4>6, <3>2, <1>2 DEF held, served
    <3>3. CASE d # c
      <4>1. owed'[d] = owed[d] /\ inbox'[d] = inbox[d]
        BY <2>1, <2>2, <2>4, <3>3
      <4> QED BY <4>1, <3>1, <1>2
    <3> QED BY <3>2, <3>3
  <2>8. FirstAnswer'
    BY <1>1, <1>7 DEF FirstAnswer, Send
  <2> QED BY <2>6, <2>7, <2>8, <1>3 DEF DaemonInv, Lines
<1> QED BY <1>4, <1>5, <1>6, <1>7, <1>10 DEF Client

(* main, and the signal. *)
LEMMA MainSteps ==
  ASSUME DaemonInv, Main \/ Signal \/ \E c \in Clients : SpawnFails(c)
  PROVE  DaemonInv'
<1>1. TypeOK /\ Answered /\ FirstAnswer /\ ActorInv /\ StopsLast
  BY DEF DaemonInv, Lines, ActorInv
<1>2. CASE Signal
  <2>1. TypeOK'
    BY <1>1, <1>2 DEF TypeOK, Signal, clientVars, actorVars, engineVars
  <2>2. Lines'
    BY <1>1, <1>2 DEF Lines, Answered, FirstAnswer, Signal, clientVars
  <2>3. ActorInv'
    BY <1>1, <1>2, ActorUntouched DEF Signal, actorVars, engineVars, Joined, StopsLast
  <2> QED BY <2>1, <2>2, <2>3 DEF DaemonInv
<1>3. CASE CheckFlag
  <2>1. TypeOK'
    BY <1>1, <1>3 DEF TypeOK, CheckFlag, actorVars, engineVars
  <2>2. Lines'
    BY <1>1, <1>3 DEF Lines, Answered, FirstAnswer, CheckFlag
  <2>3. ActorInv'
    BY <1>1, <1>3, ActorUntouched DEF CheckFlag, actorVars, engineVars, Joined, StopsLast
  <2> QED BY <2>1, <2>2, <2>3 DEF DaemonInv
<1>4. CASE Join
  <2>1. TypeOK'
    BY <1>1, <1>4 DEF TypeOK, Join, clientVars, actorVars, engineVars
  <2>2. Lines'
    BY <1>1, <1>4 DEF Lines, Answered, FirstAnswer, Join, clientVars
  <2>3. ActorInv'
    BY <1>1, <1>4, ActorUntouched DEF Join, actorVars, engineVars, Joined, StopsLast
  <2> QED BY <2>1, <2>2, <2>3 DEF DaemonInv
<1>5. CASE StopEngine
  <2>1. TypeOK'
    BY <1>1, <1>5 DEF TypeOK, StopEngine, clientVars, actorVars
  <2>2. Lines'
    BY <1>1, <1>5 DEF Lines, Answered, FirstAnswer, StopEngine, clientVars
  <2>3. ActorInv'
    BY <1>1, <1>5, ActorUntouched DEF StopEngine, actorVars, Joined, StopsLast
  <2> QED BY <2>1, <2>2, <2>3 DEF DaemonInv
<1>6. CASE StopActor
  <2>1. queue \in Seq(Callers \cup {"Shutdown"})
    BY <1>1 DEF TypeOK
  <2>2. /\ queue' \in Seq(Callers \cup {"Shutdown"})
        /\ \A c \in Callers : Count(queue', {c}) = Count(queue, {c})
    <3>1. CASE actor = "running"
      <4>1. queue' = Append(queue, "Shutdown")
        BY <1>6, <3>1 DEF StopActor
      <4>2. \A c \in Callers : Count(queue', {c}) = Count(queue, {c}) /\ "Shutdown" \notin {c}
        <5> TAKE c \in Callers
        <5>1. "Shutdown" \notin {c}
          BY CallersAre
        <5>2. Count(queue', {c}) = Count(queue, {c}) + (IF "Shutdown" \in {c} THEN 1 ELSE 0)
          BY <2>1, <4>1, CountAppend
        <5>3. Count(queue, {c}) \in Nat
          BY <2>1, PlacesFinite
        <5> QED BY <5>1, <5>2, <5>3
      <4> QED BY <2>1, <4>1, <4>2, AppendProperties
    <3>2. CASE actor # "running"
      BY <1>6, <2>1, <3>2 DEF StopActor
    <3> QED BY <3>1, <3>2
  <2>3. TypeOK'
    BY <1>1, <1>6, <2>2 DEF TypeOK, StopActor, clientVars, engineVars
  <2>4. Lines'
    BY <1>1, <1>6 DEF Lines, Answered, FirstAnswer, StopActor, clientVars
  <2>5. Queued'
    BY <1>1, <1>6, <2>2 DEF ActorInv, Queued, StopActor
  <2>6. StopsLast'
    BY <1>1, <1>6 DEF StopsLast, StopActor, Joined
  <2>7. CallersWait' /\ ActorOutlivesConnections'
    BY <1>1, <1>6 DEF ActorInv, CallersWait, ActorOutlivesConnections, StopActor, engineVars
  <2> QED BY <2>3, <2>4, <2>5, <2>6, <2>7 DEF DaemonInv, ActorInv
<1>7. CASE Exit
  <2>1. \A T : Count(queue', T) = 0
    BY <1>7, CountEmpty DEF Exit
  <2>2. TypeOK'
    <3>1. queue' \in Seq(Callers \cup {"Shutdown"})
      BY <1>7, EmptySeq DEF Exit
    <3> QED BY <1>1, <1>7, <3>1 DEF TypeOK, Exit
  <2>3. Lines'
    BY <1>1, <1>7 DEF Lines, Answered, FirstAnswer, Exit
  <2>4. Queued' /\ CallersWait' /\ ActorOutlivesConnections'
    BY <1>7, <2>1, CallersAre DEF Queued, CallersWait, ActorOutlivesConnections, Exit
  <2>5. StopsLast'
    BY <1>7, <2>1 DEF StopsLast, Exit, Joined
  <2> QED BY <2>2, <2>3, <2>4, <2>5 DEF DaemonInv, ActorInv
<1>8. ASSUME NEW c \in Clients, Accept(c)
      PROVE  DaemonInv'
  <2>1. TypeOK'
    BY <1>1, <1>8 DEF TypeOK, Accept, actorVars, engineVars
  <2>2. Lines'
    <3>1. /\ conn' = [conn EXCEPT ![c] = "greeting"] /\ conn[c] = "none"
          /\ UNCHANGED <<inbox, outbox, owed, partial, cut>>
      BY <1>8 DEF Accept, Waiting
    <3>2. \A d \in Clients : Served(conn'[d]) = Served(conn[d]) /\ (conn'[d] # "ended" => conn[d] # "ended")
      BY <1>1, <3>1 DEF TypeOK, Served
    <3>3. Answered'
      BY <1>1, <3>1, <3>2 DEF Answered
    <3>4. FirstAnswer'
      BY <1>1, <3>1 DEF TypeOK, FirstAnswer
    <3> QED BY <3>3, <3>4 DEF Lines
  <2>3. /\ main' = "serving" /\ main = "serving" /\ UNCHANGED <<actor, queue, slot, engine>>
        /\ conn[c] = "none" /\ \A d \in Clients \ {c} : conn'[d] = conn[d]
    BY <1>1, <1>8 DEF TypeOK, Accept, Waiting, actorVars, engineVars
  <2>4. Queued' /\ CallersWait' /\ ActorOutlivesConnections'
    BY <1>1, <2>3 DEF ActorInv, Queued, CallersWait, ActorOutlivesConnections
  <2>5. StopsLast'
    BY <1>1, <2>3 DEF StopsLast
  <2> QED BY <2>1, <2>2, <2>4, <2>5 DEF DaemonInv, ActorInv
<1>9. ASSUME NEW c \in Clients, SpawnFails(c)
      PROVE  DaemonInv'
  <2>1. TypeOK'
    BY <1>1, <1>9 DEF TypeOK, SpawnFails, clientVars, actorVars, engineVars
  <2>2. Lines'
    BY <1>1, <1>9 DEF Lines, Answered, FirstAnswer, SpawnFails, clientVars
  <2>3. ActorInv'
    BY <1>9, ActorUntouched DEF SpawnFails, Waiting, actorVars, engineVars, Joined
  <2> QED BY <2>1, <2>2, <2>3 DEF DaemonInv
<1> QED BY <1>2, <1>3, <1>4, <1>5, <1>6, <1>7, <1>8, <1>9 DEF Main

(* The actor. *)
LEMMA ActorSteps ==
  ASSUME DaemonInv, Actor \/ ActorDies PROVE DaemonInv'
<1>1. TypeOK /\ Answered /\ FirstAnswer /\ ActorInv /\ StopsLast
  BY DEF DaemonInv, Lines, ActorInv
<1>2. UNCHANGED <<shutdown, main, clientVars, conn, partial, cut, engineVars>>
  BY DEF Actor, ActorServes, ActorStops, ActorDies
<1>3. Lines'
  BY <1>1, <1>2 DEF Lines, Answered, FirstAnswer, clientVars
<1>4. CASE ActorServes
  <2> DEFINE caller == Head(queue)
  <2>1. /\ queue \in Seq(Callers \cup {"Shutdown"}) /\ queue # <<>> /\ queue' = Tail(queue)
        /\ slot \in [Callers -> {"none", "waiting", "replied", "crashed"}]
        /\ slot' = [slot EXCEPT ![caller] = "replied"] /\ caller # "Shutdown" /\ actor' = actor
    BY <1>1, <1>4 DEF ActorServes, TypeOK
  <2>2. /\ \A T : /\ Count(queue, T) = Count(queue', T) + (IF caller \in T THEN 1 ELSE 0)
                  /\ Count(queue, T) \in Nat /\ Count(queue', T) \in Nat
        /\ caller \in Callers /\ queue' \in Seq(Callers \cup {"Shutdown"})
    BY <2>1, CountTail
  <2> HIDE DEF caller
  <2>3. slot[caller] = "waiting"
    <3>1. Count(queue, {caller}) = Count(queue', {caller}) + 1
      BY <2>2
    <3>2. Count(queue, {caller}) = IF slot[caller] = "waiting" THEN 1 ELSE 0
      BY <1>1, <2>2 DEF ActorInv, Queued
    <3> QED BY <2>2, <3>1, <3>2
  <2>4. Queued'
    <3> SUFFICES ASSUME NEW d \in Callers
                 PROVE  Count(queue', {d}) = IF slot'[d] = "waiting" THEN 1 ELSE 0
      BY DEF Queued
    <3>1. Count(queue, {d}) = IF slot[d] = "waiting" THEN 1 ELSE 0
      BY <1>1 DEF ActorInv, Queued
    <3>2. Count(queue, {d}) = Count(queue', {d}) + (IF caller = d THEN 1 ELSE 0)
      <4>1. caller \in {d} <=> caller = d
        OBVIOUS
      <4> QED BY <2>2, <4>1
    <3>3. Count(queue', {d}) \in Nat
      BY <2>2
    <3>4. slot'[d] = IF d = caller THEN "replied" ELSE slot[d]
      BY <2>1, <2>2
    <3> QED BY <2>3, <3>1, <3>2, <3>3, <3>4
  <2>5. TypeOK'
    <3>1. slot' \in [Callers -> {"none", "waiting", "replied", "crashed"}]
      BY <2>1, <2>2
    <3> QED BY <1>1, <1>2, <2>1, <2>2, <3>1 DEF TypeOK, clientVars, engineVars
  <2>6. CallersWait' /\ ActorOutlivesConnections'
    BY <1>1, <1>2, <2>1, <2>2, CallersAre
       DEF ActorInv, CallersWait, ActorOutlivesConnections, engineVars
  <2>7. StopsLast'
    <3>1. Count(queue', {"Shutdown"}) <= Count(queue, {"Shutdown"})
      BY <2>2
    <3>2. Count(queue', {"Shutdown"}) \in Nat /\ Count(queue, {"Shutdown"}) \in Nat
      BY <2>2
    <3> QED BY <1>1, <1>2, <2>1, <3>1, <3>2 DEF StopsLast, Joined
  <2> QED BY <1>3, <2>4, <2>5, <2>6, <2>7 DEF DaemonInv, ActorInv
<1>5. CASE ActorStops
  <2>1. Count(queue, {"Shutdown"}) > 0
    <3>1. queue \in Seq(Callers \cup {"Shutdown"}) /\ queue # <<>> /\ Head(queue) = "Shutdown"
      BY <1>1, <1>5 DEF ActorStops, TypeOK
    <3>2. /\ Count(queue, {"Shutdown"}) = Count(Tail(queue), {"Shutdown"}) + 1
          /\ Count(Tail(queue), {"Shutdown"}) \in Nat
      BY <3>1, CountTail
    <3> QED BY <3>2
  <2>2. main \in {"returned", "exited"} /\ Joined
    BY <1>1, <2>1 DEF StopsLast
  <2>3. ActorEnds("stopped")
    BY <1>5 DEF ActorStops
  <2>4. TypeOK'
    BY <1>1, <1>2, <2>3, Ended DEF TypeOK, clientVars, engineVars
  <2>5. Queued' /\ Count(queue', {"Shutdown"}) = 0
    BY <1>1, <2>3, Ended
  <2>6. CallersWait'
    BY <1>1, <1>2, <2>3, Ended, CallersAre DEF ActorInv, CallersWait
  <2>7. StopsLast'
    BY <1>1, <1>2, <2>2 DEF StopsLast, Joined
  <2>8. ActorOutlivesConnections'
    <3>1. actor = "running"
      BY <1>5 DEF ActorStops
    <3>2. \A c \in Clients : slot[c] \notin {"waiting", "crashed"}
      BY <1>1, <2>2, <3>1 DEF ActorInv, CallersWait, ActorOutlivesConnections, Joined
    <3>3. \A c \in Clients : slot'[c] = slot[c]
      BY <1>1, <2>3, <3>2, Ended, CallersAre
    <3> QED BY <3>2, <3>3 DEF ActorOutlivesConnections
  <2> QED BY <1>3, <2>4, <2>5, <2>6, <2>7, <2>8 DEF DaemonInv, ActorInv
<1>6. CASE ActorDies
  <2>1. ActorEnds("died")
    BY <1>6 DEF ActorDies
  <2>2. TypeOK'
    BY <1>1, <1>2, <2>1, Ended DEF TypeOK, clientVars, engineVars
  <2>3. Queued' /\ Count(queue', {"Shutdown"}) = 0 /\ actor' = "died"
    BY <1>1, <2>1, Ended
  <2>4. CallersWait'
    BY <1>1, <1>2, <2>1, Ended, CallersAre DEF ActorInv, CallersWait
  <2>5. StopsLast'
    BY <1>1, <1>2, <2>3 DEF StopsLast, Joined
  <2>6. ActorOutlivesConnections'
    BY <2>3 DEF ActorOutlivesConnections
  <2> QED BY <1>3, <2>2, <2>3, <2>4, <2>5, <2>6 DEF DaemonInv, ActorInv
<1> QED BY <1>4, <1>5, <1>6 DEF Actor

(* A connection's own steps, which leave the actor alone. *)
LEMMA ConnectionMoves ==
  ASSUME DaemonInv, NEW c \in Clients, conn[c] \in {"greeting", "check", "reading", "writing"},
         \A d \in Clients \ {c} : conn'[d] = conn[d],
         UNCHANGED <<main, actor, queue, slot, engine>>
  PROVE  ActorInv'
<1>1. ~ Joined
  BY DEF Joined
<1>2. main \notin {"stopEngine", "stopActor", "exited"}
  BY <1>1 DEF DaemonInv, ActorInv, StopsLast
<1>3. \A d \in Clients : conn[d] = "calling" => conn'[d] = "calling"
  OBVIOUS
<1> QED BY <1>1, <1>2, <1>3, ActorUntouched

LEMMA ConnectionSteps ==
  ASSUME DaemonInv, Framed, NEW c \in Clients, Connection(c) PROVE DaemonInv'
<1> DEFINE here == Count(inbox[c], Due)
           there == Count(inbox'[c], Due)
<1>1. TypeOK /\ Answered /\ FirstAnswer /\ ActorInv
  BY DEF DaemonInv, Lines
<1>2. /\ conn \in [Clients -> {"none", "greeting", "check", "reading", "calling", "writing", "ended"}]
      /\ owed \in [Clients -> Nat] /\ outbox \in [Clients -> 0..OutboxSize]
      /\ partial \in [Clients -> Beginnings \cup {"nothing"}] /\ cut \in [Clients -> Nat]
      /\ here \in Nat /\ Held(partial[c]) \in Nat
  <2>1. inbox[c] \in Seq(Pieces)
    BY <1>1 DEF TypeOK
  <2> QED BY <1>1, <2>1, PlacesFinite DEF TypeOK, Held
<1>3. conn[c] # "ended" => owed[c] = here + Held(partial[c]) + Served(conn[c]) + cut[c]
  BY <1>1 DEF Answered
<1>4. ASSUME inbox[c] # <<>>, inbox' = [inbox EXCEPT ![c] = Tail(@)]
      PROVE  /\ inbox' \in [Clients -> Seq(Pieces)]
             /\ \A d \in Clients : Len(inbox'[d]) <= InboxSize
             /\ \A d \in Clients \ {c} : inbox'[d] = inbox[d]
             /\ here = there + (IF Head(inbox[c]) \in Due THEN 1 ELSE 0)
             /\ here \in Nat /\ there \in Nat
  BY <1>1, <1>4, ReadPiece
<1> HIDE DEF here, there
<1>5. ASSUME \A d \in Clients \ {c} : /\ conn'[d] = conn[d] /\ owed'[d] = owed[d]
                                     /\ inbox'[d] = inbox[d] /\ outbox'[d] = outbox[d]
                                     /\ partial'[d] = partial[d] /\ cut'[d] = cut[d],
             conn'[c] # "ended" =>
               owed'[c] = there + Held(partial'[c]) + Served(conn'[c]) + cut'[c],
             conn'[c] \in {"none", "greeting"} => outbox'[c] = 0
      PROVE  Lines'
  <2>1. Answered'
    <3> SUFFICES ASSUME NEW d \in Clients, conn'[d] # "ended"
                 PROVE  owed'[d] = Count(inbox'[d], Due) + Held(partial'[d]) + Served(conn'[d]) + cut'[d]
      BY DEF Answered
    <3>1. CASE d = c
      BY <3>1, <1>5 DEF there
    <3>2. CASE d # c
      BY <3>2, <1>1, <1>5 DEF Answered
    <3> QED BY <3>1, <3>2
  <2>2. FirstAnswer'
    BY <1>1, <1>5 DEF FirstAnswer
  <2> QED BY <2>1, <2>2 DEF Lines
<1>12. ASSUME inbox[c] # <<>>, partial[c] # "nothing"
       PROVE  \/ Head(inbox[c]) = "rest" /\ partial[c] = "part"
              \/ Head(inbox[c]) = "newline" /\ partial[c] = "object"
  <2>1. Follows(partial[c], Head(inbox[c])) /\ partial[c] \in Beginnings
    BY <1>2, <1>12 DEF Framed, FramedAt
  <2>2. DOMAIN FirstOf = {"rest", "newline"} /\ FirstOf["rest"] = "part" /\ FirstOf["newline"] = "object"
    BY DEF FirstOf
  <2> QED BY <2>1, <2>2 DEF Follows
<1>13. ASSUME ReadLine(c)
       PROVE  /\ conn[c] \in {"greeting", "reading"}
              /\ inbox[c] # <<>> /\ inbox' = [inbox EXCEPT ![c] = Tail(@)]
              /\ partial' = [partial EXCEPT ![c] = "nothing"] /\ cut' = cut
              /\ there \in Nat /\ owed[c] = there + 1 + cut[c]
              /\ UNCHANGED <<shutdown, main, link, half, lines, engine, engineCmd>>
  <2>1. /\ conn[c] \in {"greeting", "reading"}
        /\ inbox[c] # <<>> /\ inbox' = [inbox EXCEPT ![c] = Tail(@)]
        /\ Head(inbox[c]) \in {"hello", "request", "garbage", "rest", "newline"}
        /\ Head(inbox[c]) = "newline" => partial[c] = "object"
        /\ partial' = [partial EXCEPT ![c] = "nothing"] /\ cut' = cut
        /\ UNCHANGED <<shutdown, main, link, half, lines, engine, engineCmd>>
    BY <1>13 DEF ReadLine, Has, engineVars
  <2>2. here = there + (IF Head(inbox[c]) \in Due THEN 1 ELSE 0) /\ there \in Nat
    BY <1>4, <2>1
  <2>3. owed[c] = here + Held(partial[c]) + cut[c]
    BY <1>2, <1>3, <2>1 DEF Served
  <2>4. CASE Head(inbox[c]) = "newline"
    BY <1>2, <2>1, <2>2, <2>3, <2>4 DEF Due, Held
  <2>5. CASE Head(inbox[c]) # "newline"
    <3>1. partial[c] # "object"
      BY <1>12, <2>1, <2>5
    <3>2. Held(partial[c]) = 0 /\ here = there + 1
      BY <2>1, <2>2, <2>5, <3>1 DEF Due, Held
    <3> QED BY <1>2, <2>1, <2>2, <2>3, <3>2
  <2> QED BY <2>4, <2>5
<1>6. CASE ReadOn(c)
  <2>1. /\ inbox[c] # <<>> /\ inbox' = [inbox EXCEPT ![c] = Tail(@)]
        /\ Head(inbox[c]) \in {"part", "object", "blank", "newline"}
        /\ Head(inbox[c]) = "newline" => partial[c] = "nothing"
        /\ partial' = [partial EXCEPT ![c] = IF Head(inbox[c]) \in Beginnings
                                             THEN Head(inbox[c]) ELSE "nothing"]
        /\ conn[c] \in {"greeting", "reading"} /\ cut' = cut
        /\ UNCHANGED <<main, outbox, owed, conn, actor, queue, slot, engine>>
    BY <1>6 DEF ReadOn, Has, Beginnings, actorVars, engineVars
  <2>2. TypeOK'
    <3>1. partial' \in [Clients -> Beginnings \cup {"nothing"}]
      BY <1>2, <2>1
    <3> QED BY <1>1, <1>4, <1>6, <2>1, <3>1 DEF TypeOK, ReadOn, actorVars, engineVars
  <2>3. partial[c] = "nothing"
    BY <1>12, <2>1
  <2>4. here = there + Held(partial'[c]) /\ Held(partial[c]) = 0 /\ Held(partial'[c]) \in Nat
    <3>1. here = there + (IF Head(inbox[c]) \in Due THEN 1 ELSE 0) /\ there \in Nat
      BY <1>4, <2>1
    <3>2. partial'[c] = IF Head(inbox[c]) \in Beginnings THEN Head(inbox[c]) ELSE "nothing"
      BY <1>2, <2>1
    <3> QED BY <2>1, <2>3, <3>1, <3>2 DEF Due, Held, Beginnings
  <2>5. owed'[c] = there + Held(partial'[c]) + Served(conn'[c]) + cut'[c]
    <3>1. owed[c] = here + 0 + Served(conn[c]) + cut[c]
      BY <1>3, <2>1, <2>4
    <3>2. there \in Nat /\ cut[c] \in Nat /\ Served(conn[c]) \in Nat
      BY <1>2, <1>4, <2>1 DEF Served
    <3> QED BY <2>1, <2>4, <3>1, <3>2
  <2>6. Lines'
    BY <1>1, <1>2, <1>4, <1>5, <2>1, <2>5 DEF FirstAnswer
  <2>7. ActorInv'
    BY <2>1, ConnectionMoves
  <2> QED BY <2>2, <2>6, <2>7 DEF DaemonInv
<1>14. CASE ReadBinary(c)
  <2>1. /\ inbox[c] # <<>> /\ inbox' = [inbox EXCEPT ![c] = Tail(@)]
        /\ conn' = [conn EXCEPT ![c] = "ended"] /\ conn[c] \in {"greeting", "reading"}
        /\ UNCHANGED <<main, outbox, owed, partial, cut, actor, queue, slot, engine>>
    BY <1>14 DEF ReadBinary, Has, actorVars, engineVars
  <2>2. conn'[c] = "ended" /\ \A d \in Clients \ {c} : conn'[d] = conn[d]
    BY <1>2, <2>1
  <2>3. TypeOK'
    <3>1. conn' \in [Clients -> {"none", "greeting", "check", "reading", "calling", "writing", "ended"}]
      BY <1>2, <2>1
    <3> QED BY <1>1, <1>4, <1>14, <2>1, <3>1 DEF TypeOK, ReadBinary, actorVars, engineVars
  <2>4. Lines'
    BY <1>4, <1>5, <2>1, <2>2
  <2>5. ActorInv'
    BY <2>1, <2>2, ConnectionMoves
  <2> QED BY <2>3, <2>4, <2>5 DEF DaemonInv
<1>15. CASE ReadUnended(c)
  <2> DEFINE line == IF partial[c] = "object" THEN "request" ELSE "garbage"
  <2>1. /\ inbox[c] = <<>> /\ inbox' = [inbox EXCEPT ![c] = <<line>>]
        /\ owed' = [owed EXCEPT ![c] = IF partial[c] = "object" THEN owed[c] ELSE owed[c] + 1]
        /\ partial' = [partial EXCEPT ![c] = "nothing"] /\ conn[c] \in {"greeting", "reading"}
        /\ UNCHANGED <<main, outbox, conn, cut, actor, queue, slot, engine>>
    BY <1>15 DEF ReadUnended, EndOfFile, actorVars, engineVars
  <2>2. line \in Pieces /\ line \in Due
    BY DEF Pieces, Due
  <2> HIDE DEF line
  <2>3. /\ inbox \in [Clients -> Seq(Pieces)] /\ <<>> \in Seq(Pieces)
        /\ <<line>> = Append(<<>>, line) /\ Len(<<line>>) = 1 /\ <<line>> \in Seq(Pieces)
        /\ \A d \in Clients : Len(inbox[d]) <= InboxSize
    BY <1>1, <2>2 DEF TypeOK
  <2>4. Count(<<>>, Due) = 0 /\ Count(<<line>>, Due) = 1
    <3>1. Count(<<>>, Due) = 0
      BY CountEmpty
    <3>2. Count(Append(<<>>, line), Due) = Count(<<>>, Due) + (IF line \in Due THEN 1 ELSE 0)
      <4>1. <<>> \in Seq(Pieces) /\ line \in Pieces
        BY <2>2, <2>3
      <4> QED BY <4>1, CountAppend
    <3> QED BY <2>2, <2>3, <3>1, <3>2
  <2>5. here = 0 /\ there = 1
    BY <2>1, <2>3, <2>4 DEF here, there
  <2>6. /\ partial'[c] = "nothing"
        /\ owed'[c] = IF partial[c] = "object" THEN owed[c] ELSE owed[c] + 1
        /\ \A d \in Clients \ {c} : /\ inbox'[d] = inbox[d] /\ owed'[d] = owed[d]
                                     /\ partial'[d] = partial[d]
    BY <1>2, <2>1, <2>3
  <2>7. owed[c] = Held(partial[c]) + Served(conn[c]) + cut[c] /\ Served(conn[c]) \in Nat /\ cut[c] \in Nat
    BY <1>2, <1>3, <2>1, <2>5 DEF Served
  <2>8. owed'[c] = there + Held(partial'[c]) + Served(conn'[c]) + cut'[c]
    BY <1>2, <2>1, <2>5, <2>6, <2>7 DEF Held
  <2>9. TypeOK'
    <3>1. \A d \in Clients : Len(inbox'[d]) <= InboxSize
      BY <2>1, <2>3, <2>6, DaemonAssumption
    <3>2. inbox' \in [Clients -> Seq(Pieces)] /\ partial' \in [Clients -> Beginnings \cup {"nothing"}]
      BY <1>2, <2>1, <2>3
    <3>3. owed' \in [Clients -> Nat]
      BY <1>2, <2>1
    <3> QED BY <1>1, <1>15, <2>1, <3>1, <3>2, <3>3 DEF TypeOK, ReadUnended, actorVars, engineVars
  <2>10. Lines'
    BY <1>1, <1>5, <2>1, <2>6, <2>8 DEF FirstAnswer
  <2>11. ActorInv'
    BY <2>1, ConnectionMoves
  <2> QED BY <2>9, <2>10, <2>11 DEF DaemonInv
<1>7. CASE Greet(c)
  <2>1. /\ conn[c] = "greeting" /\ outbox[c] = 0 /\ ReadLine(c)
        /\ UNCHANGED <<main, actor, queue, slot, engine>>
    BY <1>1, <1>7, <1>13 DEF Greet, FirstAnswer, actorVars
  <2>2. /\ inbox[c] # <<>> /\ inbox' = [inbox EXCEPT ![c] = Tail(@)]
        /\ partial' = [partial EXCEPT ![c] = "nothing"] /\ cut' = cut
        /\ there \in Nat /\ owed[c] = there + 1 + cut[c]
        /\ UNCHANGED <<shutdown, link, half, lines, engineCmd>>
    BY <1>13, <2>1
  <2>3. \/ /\ owed' = [owed EXCEPT ![c] = there + cut[c]] /\ outbox' = [outbox EXCEPT ![c] = 1]
           /\ conn' = [conn EXCEPT ![c] = IF Line(c) = "hello" THEN "check" ELSE "ended"]
        \/ /\ UNCHANGED <<owed, outbox>> /\ conn' = [conn EXCEPT ![c] = "ended"]
    <3>1. CASE Reachable(c)
      <4>1. owed[c] - 1 = there + cut[c] /\ outbox[c] + 1 = 1
        BY <1>2, <2>1, <2>2
      <4>2. /\ owed' = [owed EXCEPT ![c] = owed[c] - 1] /\ outbox' = [outbox EXCEPT ![c] = outbox[c] + 1]
            /\ conn' = [conn EXCEPT ![c] = IF Line(c) = "hello" THEN "check" ELSE "ended"]
        BY <1>7, <3>1 DEF Greet, Answer
      <4> QED BY <4>1, <4>2
    <3>2. CASE ~Reachable(c)
      BY <1>7, <3>2 DEF Greet
    <3> QED BY <3>1, <3>2
  <2>4. \A d \in Clients \ {c} : conn'[d] = conn[d] /\ owed'[d] = owed[d] /\ outbox'[d] = outbox[d]
    <3>1. PICK to : conn' = [conn EXCEPT ![c] = to]
      BY <2>3
    <3>2. \A d \in Clients \ {c} : conn'[d] = conn[d]
      BY <1>2, <3>1
    <3>3. \A d \in Clients \ {c} : owed'[d] = owed[d] /\ outbox'[d] = outbox[d]
      BY <1>2, <2>3
    <3> QED BY <3>2, <3>3
  <2>5. TypeOK'
    <3>1. owed' \in [Clients -> Nat]
      <4>1. there + cut[c] \in Nat
        BY <1>2, <2>2
      <4> QED BY <1>2, <2>3, <4>1
    <3>2. 1 \in 0..OutboxSize
      BY DaemonAssumption
    <3>3. outbox' \in [Clients -> 0..OutboxSize]
      BY <1>2, <2>3, <3>2
    <3>4. conn' \in [Clients -> {"none", "greeting", "check", "reading", "calling", "writing", "ended"}]
      BY <1>2, <2>3
    <3>5. partial' \in [Clients -> Beginnings \cup {"nothing"}]
      BY <1>2, <2>2
    <3> QED BY <1>1, <1>4, <2>1, <2>2, <3>1, <3>3, <3>4, <3>5 DEF TypeOK
  <2>6. Lines'
    <3>1. \A d \in Clients \ {c} : /\ conn'[d] = conn[d] /\ owed'[d] = owed[d]
                                   /\ inbox'[d] = inbox[d] /\ outbox'[d] = outbox[d]
                                   /\ partial'[d] = partial[d] /\ cut'[d] = cut[d]
      BY <1>2, <1>4, <2>2, <2>4
    <3>2. conn'[c] \in {"check", "ended"} /\ (conn'[c] # "ended" => owed'[c] = there + cut'[c])
      BY <1>2, <2>2, <2>3
    <3>3. Held(partial'[c]) = 0 /\ Served(conn'[c]) = 0
      BY <1>2, <2>2, <3>2 DEF Held, Served
    <3>4. conn'[c] # "ended" => owed'[c] = there + Held(partial'[c]) + Served(conn'[c]) + cut'[c]
      BY <1>2, <2>2, <3>2, <3>3
    <3> QED BY <1>5, <3>1, <3>2, <3>4
  <2>7. ActorInv'
    <3> QED BY <2>1, <2>4, ConnectionMoves
  <2> QED BY <2>5, <2>6, <2>7 DEF DaemonInv
<1>8. CASE Dispatch(c)
  <2>1. /\ conn[c] = "reading" /\ ReadLine(c)
        /\ UNCHANGED <<outbox, owed, actor>>
    BY <1>8 DEF Dispatch, AnswerMalformed, actorVars
  <2>2. /\ inbox[c] # <<>> /\ inbox' = [inbox EXCEPT ![c] = Tail(@)]
        /\ partial' = [partial EXCEPT ![c] = "nothing"] /\ cut' = cut
        /\ there \in Nat /\ owed[c] = there + 1 + cut[c]
        /\ UNCHANGED <<shutdown, main, link, half, lines, engine, engineCmd>>
    BY <1>13, <2>1
  <2>3. ASSUME NEW to \in {"writing", "calling"}, conn' = [conn EXCEPT ![c] = to],
               queue' \in Seq(Callers \cup {"Shutdown"}),
               slot' \in [Callers -> {"none", "waiting", "replied", "crashed"}]
        PROVE  TypeOK' /\ Lines'
    <3>1. conn' \in [Clients -> {"none", "greeting", "check", "reading", "calling", "writing", "ended"}]
      BY <1>2, <2>3
    <3>2. TypeOK'
      <4>1. partial' \in [Clients -> Beginnings \cup {"nothing"}]
        BY <1>2, <2>2
      <4> QED BY <1>1, <1>4, <2>1, <2>2, <2>3, <3>1, <4>1 DEF TypeOK
    <3>3. \A d \in Clients \ {c} : /\ conn'[d] = conn[d] /\ owed'[d] = owed[d]
                                   /\ inbox'[d] = inbox[d] /\ outbox'[d] = outbox[d]
                                   /\ partial'[d] = partial[d] /\ cut'[d] = cut[d]
      BY <1>2, <1>4, <2>1, <2>2, <2>3
    <3>4. conn'[c] \in {"writing", "calling"} /\ owed'[c] = there + 1 + cut'[c]
      BY <1>2, <2>1, <2>2, <2>3
    <3>5. Held(partial'[c]) = 0 /\ Served(conn'[c]) = 1
      BY <1>2, <2>2, <3>4 DEF Held, Served
    <3>6. owed'[c] = there + Held(partial'[c]) + Served(conn'[c]) + cut'[c]
      BY <1>2, <2>2, <3>4, <3>5
    <3>7. Lines'
      BY <1>5, <3>3, <3>4, <3>6
    <3> QED BY <3>2, <3>7
  <2>4. CASE conn' = [conn EXCEPT ![c] = "writing"] /\ UNCHANGED actorVars
    <3>1. TypeOK' /\ Lines'
      BY <1>1, <2>3, <2>4 DEF TypeOK, actorVars
    <3>2. ActorInv'
      <4>1. \A d \in Clients \ {c} : conn'[d] = conn[d]
        BY <2>4
      <4> QED BY <2>1, <2>2, <2>4, <4>1, ConnectionMoves DEF actorVars
    <3> QED BY <3>1, <3>2 DEF DaemonInv
  <2>5. CASE conn' = [conn EXCEPT ![c] = "calling"] /\ CallActor(c) /\ UNCHANGED actor
    <3>1. slot[c] # "waiting"
      BY <1>1, <2>1 DEF ActorInv, CallersWait
    <3>2. /\ queue' \in Seq(Callers \cup {"Shutdown"})
          /\ slot' \in [Callers -> {"none", "waiting", "replied", "crashed"}]
          /\ Queued' /\ Count(queue', {"Shutdown"}) = Count(queue, {"Shutdown"})
          /\ \A d \in Callers \ {c} : slot'[d] = slot[d]
          /\ slot'[c] = IF actor = "running" THEN "waiting" ELSE "crashed"
      BY <1>1, <2>5, <3>1, Called, CallersAre DEF ActorInv
    <3>3. TypeOK' /\ Lines'
      BY <2>3, <2>5, <3>2
    <3>4. ~ Joined
      BY <2>1 DEF Joined
    <3>5. /\ actor # "stopped" /\ main \notin {"stopEngine", "stopActor", "exited"}
          /\ ~ (Count(queue, {"Shutdown"}) > 0)
      BY <1>1, <3>4 DEF ActorInv, StopsLast
    <3>6. StopsLast'
      BY <2>1, <2>2, <2>5, <3>2, <3>5 DEF StopsLast
    <3>7. /\ conn'[c] = "calling" /\ \A d \in Clients \ {c} : conn'[d] = conn[d]
      BY <1>2, <2>5
    <3>8. CallersWait'
      BY <1>1, <2>1, <2>2, <3>2, <3>7, CallersAre DEF ActorInv, CallersWait
    <3>9. ActorOutlivesConnections'
      <4>1. actor \in {"running", "died"} /\ actor' = actor
        BY <1>1, <2>5, <3>5 DEF TypeOK
      <4> QED BY <1>1, <3>2, <4>1, CallersAre DEF ActorInv, ActorOutlivesConnections
    <3> QED BY <3>2, <3>3, <3>6, <3>8, <3>9 DEF DaemonInv, ActorInv
  <2> QED BY <1>8, <2>4, <2>5 DEF Dispatch, AnswerMalformed
<1>9. CASE ReadTimesOut(c) \/ ReadEof(c) \/ TopOfLoop(c)
  <2>1. /\ conn[c] \in {"greeting", "reading", "check"}
        /\ UNCHANGED <<shutdown, main, clientVars, actorVars, engineVars>>
        /\ \/ UNCHANGED <<partial, cut>>
           \/ /\ partial' = [partial EXCEPT ![c] = "nothing"]
              /\ cut' = [cut EXCEPT ![c] = IF partial[c] = "object" THEN cut[c] + 1 ELSE cut[c]]
        /\ \E to \in {"check", "reading", "ended"} : conn' = [conn EXCEPT ![c] = to]
    <3>1. CASE ReadTimesOut(c)
      BY <3>1 DEF ReadTimesOut, AfterTimeout
    <3>2. CASE ReadEof(c)
      BY <3>2 DEF ReadEof, EndOfFile
    <3>3. CASE TopOfLoop(c)
      BY <3>3 DEF TopOfLoop
    <3> QED BY <1>9, <3>1, <3>2, <3>3
  <2>2. PICK to \in {"check", "reading", "ended"} : conn' = [conn EXCEPT ![c] = to]
    BY <2>1
  <2>3. conn' \in [Clients -> {"none", "greeting", "check", "reading", "calling", "writing", "ended"}]
    BY <1>2, <2>2
  <2>4. TypeOK'
    <3>1. partial' \in [Clients -> Beginnings \cup {"nothing"}] /\ cut' \in [Clients -> Nat]
      BY <1>2, <2>1
    <3> QED BY <1>1, <2>1, <2>3, <3>1 DEF TypeOK, clientVars, actorVars, engineVars
  <2>5. /\ \A d \in Clients \ {c} : conn'[d] = conn[d] /\ partial'[d] = partial[d] /\ cut'[d] = cut[d]
        /\ conn'[c] \in {"check", "reading", "ended"}
        /\ here = there /\ UNCHANGED <<inbox, owed, outbox>>
    BY <1>2, <2>1, <2>2 DEF here, there, clientVars
  <2>8. Held(partial[c]) + cut[c] = Held(partial'[c]) + cut'[c] /\ Held(partial'[c]) \in Nat /\ cut'[c] \in Nat
    <3>1. CASE UNCHANGED <<partial, cut>>
      BY <1>2, <3>1
    <3>2. CASE /\ partial' = [partial EXCEPT ![c] = "nothing"]
               /\ cut' = [cut EXCEPT ![c] = IF partial[c] = "object" THEN cut[c] + 1 ELSE cut[c]]
      BY <1>2, <3>2 DEF Held
    <3> QED BY <2>1, <3>1, <3>2
  <2>9. Served(conn[c]) = 0 /\ Served(conn'[c]) = 0
    BY <2>1, <2>5 DEF Served
  <2>10. owed'[c] = there + Held(partial'[c]) + Served(conn'[c]) + cut'[c]
    <3>1. owed[c] = here + Held(partial[c]) + Served(conn[c]) + cut[c]
      BY <1>3, <2>1
    <3> QED BY <1>2, <2>5, <2>8, <2>9, <3>1
  <2>6. Lines'
    BY <1>2, <1>5, <2>5, <2>10
  <2>7. ActorInv'
    BY <2>1, <2>5, ConnectionMoves DEF actorVars, engineVars
  <2> QED BY <2>4, <2>6, <2>7 DEF DaemonInv
<1>10. CASE CallReturns(c)
  <2>1. /\ conn[c] = "calling" /\ conn' = [conn EXCEPT ![c] = "writing"]
        /\ slot[c] \in {"replied", "crashed"}
        /\ slot' = [slot EXCEPT ![c] = IF slot[c] = "replied" THEN "none" ELSE slot[c]]
        /\ UNCHANGED <<shutdown, main, clientVars, partial, cut, actor, queue, engineVars>>
    BY <1>10 DEF CallReturns, Returned, Collected
  <2>2. /\ slot' \in [Callers -> {"none", "waiting", "replied", "crashed"}]
        /\ slot'[c] \in {"none", "crashed"} /\ (slot'[c] = "crashed" => slot[c] = "crashed")
        /\ \A d \in Callers \ {c} : slot'[d] = slot[d]
    BY <1>1, <2>1, CallersAre DEF TypeOK
  <2>3. /\ conn' \in [Clients -> {"none", "greeting", "check", "reading", "calling", "writing", "ended"}]
        /\ conn'[c] = "writing" /\ \A d \in Clients \ {c} : conn'[d] = conn[d]
    BY <1>2, <2>1
  <2>4. TypeOK'
    BY <1>1, <2>1, <2>2, <2>3 DEF TypeOK, clientVars, engineVars
  <2>5. Lines'
    <3>1. here = there /\ UNCHANGED <<inbox, owed, outbox, partial, cut>>
      BY <2>1 DEF here, there, clientVars
    <3>2. Served(conn[c]) = Served(conn'[c])
      BY <2>1, <2>3 DEF Served
    <3> QED BY <1>3, <1>5, <2>1, <2>3, <3>1, <3>2
  <2>6. Queued'
    <3>1. \A d \in Callers : (slot'[d] = "waiting" <=> slot[d] = "waiting")
      BY <2>1, <2>2
    <3> QED BY <1>1, <2>1, <3>1 DEF ActorInv, Queued
  <2>7. CallersWait' /\ ActorOutlivesConnections'
    BY <1>1, <2>1, <2>2, <2>3, CallersAre
       DEF ActorInv, CallersWait, ActorOutlivesConnections, engineVars
  <2>8. StopsLast'
    <3>1. ~ Joined
      BY <2>1 DEF Joined
    <3> QED BY <1>1, <2>1, <3>1 DEF ActorInv, StopsLast
  <2> QED BY <2>4, <2>5, <2>6, <2>7, <2>8 DEF DaemonInv, ActorInv
<1>11. CASE Write(c)
  <2>1. /\ conn[c] = "writing"
        /\ UNCHANGED <<shutdown, main, link, inbox, half, lines, partial, cut, actorVars, engineVars>>
        /\ \/ /\ owed' = [owed EXCEPT ![c] = owed[c] - 1] /\ outbox' = [outbox EXCEPT ![c] = outbox[c] + 1]
              /\ outbox[c] < OutboxSize /\ conn' = [conn EXCEPT ![c] = "check"]
           \/ UNCHANGED <<owed, outbox>> /\ conn' = [conn EXCEPT ![c] = "ended"]
    BY <1>11 DEF Write, Answer, HasRoom
  <2>2. /\ owed[c] = here + Held(partial[c]) + 1 + cut[c] /\ here = there /\ inbox' = inbox
        /\ owed[c] - 1 = here + Held(partial[c]) + cut[c] /\ owed[c] - 1 \in Nat
    <3>1. owed[c] = here + Held(partial[c]) + 1 + cut[c] /\ here = there /\ inbox' = inbox
      BY <1>3, <2>1 DEF here, there, Served
    <3> QED BY <1>2, <3>1
  <2>3. TypeOK'
    <3>1. owed' \in [Clients -> Nat]
      BY <1>2, <2>1, <2>2
    <3>2. outbox' \in [Clients -> 0..OutboxSize]
      BY <1>2, <2>1, DaemonAssumption
    <3>3. conn' \in [Clients -> {"none", "greeting", "check", "reading", "calling", "writing", "ended"}]
      BY <1>2, <2>1
    <3> QED BY <1>1, <2>1, <3>1, <3>2, <3>3 DEF TypeOK, actorVars, engineVars
  <2>4. /\ \A d \in Clients \ {c} : /\ conn'[d] = conn[d] /\ owed'[d] = owed[d]
                                   /\ inbox'[d] = inbox[d] /\ outbox'[d] = outbox[d]
        /\ conn'[c] \in {"check", "ended"}
        /\ conn'[c] # "ended" => owed'[c] = there + Held(partial'[c]) + cut'[c]
    BY <1>2, <2>1, <2>2
  <2>5. Lines'
    <3>1. Served(conn'[c]) = 0 /\ UNCHANGED <<partial, cut>>
      BY <2>1, <2>4 DEF Served
    <3>2. conn'[c] # "ended" => owed'[c] = there + Held(partial'[c]) + Served(conn'[c]) + cut'[c]
      BY <1>2, <2>2, <2>4, <3>1
    <3> QED BY <1>5, <2>4, <3>1, <3>2
  <2>6. ActorInv'
    BY <2>1, <2>4, ConnectionMoves DEF actorVars, engineVars
  <2> QED BY <2>3, <2>5, <2>6 DEF DaemonInv
<1> QED BY <1>6, <1>7, <1>8, <1>9, <1>10, <1>11, <1>14, <1>15 DEF Connection

(* The engine's thread. *)
LEMMA EngineSteps == ASSUME DaemonInv, Engine PROVE DaemonInv'
<1>1. TypeOK /\ Answered /\ FirstAnswer /\ ActorInv
  BY DEF DaemonInv, Lines
<1>2. UNCHANGED <<shutdown, main, clientVars, conn, partial, cut, actor, engineCmd>>
  BY DEF Engine, EngineStops, EngineTicks, EngineReturns, actorVars
<1>3. Lines'
  BY <1>1, <1>2 DEF Lines, Answered, FirstAnswer, clientVars
<1>4. CASE EngineStops
  <2>1. TypeOK'
    BY <1>1, <1>2, <1>4 DEF TypeOK, EngineStops, clientVars, actorVars
  <2>2. ActorInv'
    BY <1>1, <1>2, <1>4, ActorUntouched DEF EngineStops, actorVars, Joined, ActorInv, StopsLast
  <2> QED BY <2>1, <2>2, <1>3 DEF DaemonInv
<1>5. ASSUME CallActor("engine"), slot["engine"] # "waiting", engine' = "calling"
      PROVE  DaemonInv'
  <2>1. /\ queue' \in Seq(Callers \cup {"Shutdown"})
        /\ slot' \in [Callers -> {"none", "waiting", "replied", "crashed"}]
        /\ Queued' /\ Count(queue', {"Shutdown"}) = Count(queue, {"Shutdown"})
        /\ \A d \in Callers \ {"engine"} : slot'[d] = slot[d]
    BY <1>1, <1>5, Called, CallersAre DEF ActorInv
  <2>2. TypeOK'
    BY <1>1, <1>2, <1>5, <2>1 DEF TypeOK, clientVars
  <2>3. CallersWait' /\ ActorOutlivesConnections'
    BY <1>1, <1>2, <1>5, <2>1, CallersAre DEF ActorInv, CallersWait, ActorOutlivesConnections
  <2>4. StopsLast'
    BY <1>1, <1>2, <2>1 DEF ActorInv, StopsLast, Joined
  <2> QED BY <2>1, <2>2, <2>3, <2>4, <1>3 DEF DaemonInv, ActorInv
<1>6. CASE EngineTicks
  <2>1. slot["engine"] # "waiting"
    BY <1>1, <1>6 DEF ActorInv, CallersWait, EngineTicks
  <2> QED BY <1>5, <1>6, <2>1 DEF EngineTicks
<1>7. CASE EngineReturns
  <2>1. slot["engine"] \in {"replied", "crashed"} /\ engine = "calling"
    BY <1>7 DEF EngineReturns, Returned
  <2>2. CASE CallActor("engine") /\ UNCHANGED engine
    BY <1>5, <2>1, <2>2
  <2>3. CASE engine' = "idle" /\ slot' = Collected("engine") /\ UNCHANGED queue
    <3>1. slot' = [slot EXCEPT !["engine"] = IF slot["engine"] = "replied" THEN "none" ELSE slot["engine"]]
      BY <2>3 DEF Collected
    <3>2. /\ slot' \in [Callers -> {"none", "waiting", "replied", "crashed"}]
          /\ slot'["engine"] \in {"none", "crashed"}
          /\ \A d \in Callers \ {"engine"} : slot'[d] = slot[d]
      BY <1>1, <2>1, <3>1, CallersAre DEF TypeOK
    <3>3. TypeOK'
      BY <1>1, <1>2, <2>3, <3>2 DEF TypeOK, clientVars
    <3>4. Queued'
      <4>1. \A d \in Callers : (slot'[d] = "waiting" <=> slot[d] = "waiting")
        BY <2>1, <3>2
      <4> QED BY <1>1, <2>3, <4>1 DEF ActorInv, Queued
    <3>5. CallersWait' /\ ActorOutlivesConnections'
      BY <1>1, <1>2, <3>2, CallersAre DEF ActorInv, CallersWait, ActorOutlivesConnections
    <3>6. StopsLast'
      BY <1>1, <1>2, <2>3 DEF ActorInv, StopsLast, Joined
    <3> QED BY <1>3, <3>3, <3>4, <3>5, <3>6 DEF DaemonInv, ActorInv
  <2> QED BY <1>7, <2>2, <2>3 DEF EngineReturns
<1> QED BY <1>4, <1>6, <1>7 DEF Engine

(* The pieces stay in order. *)
LEMMA InOrderAppend ==
  ASSUME NEW s \in Seq(Pieces), NEW p \in Pieces, InOrder(s), s # <<>> => Follows(s[Len(s)], p)
  PROVE  InOrder(Append(s, p)) /\ Append(s, p)[Len(Append(s, p))] = p
<1>1. /\ Len(s) \in Nat /\ Len(Append(s, p)) = Len(s) + 1
      /\ \A i \in 1..Len(s) : Append(s, p)[i] = s[i]
      /\ Append(s, p)[Len(s) + 1] = p
  BY AppendProperties, LenProperties
<1>2. ASSUME NEW i \in 1..(Len(s) + 1), i + 1 \in 1..(Len(s) + 1)
      PROVE  Follows(Append(s, p)[i], Append(s, p)[i + 1])
  <2>1. CASE i = Len(s)
    <3>1. s # <<>>
      BY <1>1, <2>1
    <3> QED BY <1>1, <2>1, <3>1
  <2>2. CASE i # Len(s)
    <3>1. i \in 1..Len(s) /\ i + 1 \in 1..Len(s)
      BY <1>1, <1>2, <2>2
    <3> QED BY <1>1, <3>1 DEF InOrder
  <2> QED BY <2>1, <2>2
<1> QED BY <1>1, <1>2 DEF InOrder

LEMMA InOrderTail ==
  ASSUME NEW s \in Seq(Pieces), s # <<>>, InOrder(s)
  PROVE  /\ InOrder(Tail(s)) /\ Head(s) = s[1]
         /\ Tail(s) # <<>> => /\ Follows(Head(s), Head(Tail(s)))
                             /\ Tail(s)[Len(Tail(s))] = s[Len(s)]
         /\ Tail(s) = <<>> => Len(s) = 1
<1>1. /\ Len(s) \in Nat /\ Len(s) # 0 /\ Tail(s) \in Seq(Pieces) /\ Len(Tail(s)) = Len(s) - 1
      /\ \A i \in 1..(Len(s) - 1) : Tail(s)[i] = s[i + 1]
      /\ Head(s) = s[1]
  BY HeadTailProperties, LenProperties, EmptySeq
<1>2. InOrder(Tail(s))
  <2> SUFFICES ASSUME NEW i \in 1..(Len(s) - 1), i + 1 \in 1..(Len(s) - 1)
               PROVE  Follows(Tail(s)[i], Tail(s)[i + 1])
    BY <1>1 DEF InOrder
  <2>1. i + 1 \in 1..Len(s) /\ (i + 1) + 1 \in 1..Len(s)
    BY <1>1
  <2> QED BY <1>1, <2>1 DEF InOrder
<1>3. ASSUME Tail(s) # <<>>
      PROVE  Follows(Head(s), Head(Tail(s))) /\ Tail(s)[Len(Tail(s))] = s[Len(s)]
  <2>1. Len(Tail(s)) # 0 /\ Head(Tail(s)) = Tail(s)[1]
    BY <1>1, <1>3, EmptySeq, HeadTailProperties
  <2>2. /\ 1 \in 1..(Len(s) - 1) /\ 1 + 1 \in 1..Len(s) /\ 1 \in 1..Len(s)
        /\ Len(s) - 1 \in 1..(Len(s) - 1) /\ (Len(s) - 1) + 1 = Len(s)
    BY <1>1, <2>1
  <2> QED BY <1>1, <2>1, <2>2 DEF InOrder
<1> QED BY <1>1, <1>2, <1>3

LEMMA NextFramed == ASSUME TypeOK, Framed, [Next]_vars PROVE Framed'
<1> SUFFICES ASSUME NEW c \in Clients PROVE FramedAt(c)'
  BY DEF Framed
<1>1. /\ inbox \in [Clients -> Seq(Pieces)] /\ inbox[c] \in Seq(Pieces) /\ FramedAt(c)
      /\ half \in [Clients -> Beginnings \cup {"nothing"}]
      /\ partial \in [Clients -> Beginnings \cup {"nothing"}]
      /\ "nothing" \notin Beginnings
      /\ link \in [Clients -> {"none", "backlog", "open", "shut", "closed"}]
  BY DEF TypeOK, Framed, Beginnings
<1>2. ASSUME inbox'[c] = inbox[c], partial'[c] = partial[c], half'[c] = half[c],
             link'[c] \notin {"shut", "closed"} => link[c] \notin {"shut", "closed"}
      PROVE  FramedAt(c)'
  BY <1>1, <1>2 DEF FramedAt
<1>3. ASSUME NEW piece \in Pieces, Send(c, piece)
      PROVE  FramedAt(c)'
  <2>1. /\ inbox'[c] = Append(inbox[c], piece) /\ partial' = partial /\ link' = link
        /\ half[c] = IF piece \in DOMAIN FirstOf THEN FirstOf[piece] ELSE "nothing"
        /\ half'[c] = IF piece \in Beginnings THEN piece ELSE "nothing"
        /\ link[c] \notin {"shut", "closed"}
    BY <1>1, <1>3 DEF Send
  <2>2. FirstOf \in [{"rest", "newline"} -> Beginnings] /\ {"rest", "newline"} \cap Beginnings = {}
    BY DEF FirstOf, Beginnings
  <2>3. inbox[c] # <<>> => Follows(inbox[c][Len(inbox[c])], piece)
    BY <1>1, <2>1, <2>2 DEF FramedAt, Left, Follows
  <2>4. InOrder(inbox'[c]) /\ inbox'[c][Len(inbox'[c])] = piece
    BY <1>1, <2>1, <2>3, InOrderAppend DEF FramedAt
  <2>5. inbox'[c] # <<>> /\ Head(inbox'[c]) = IF inbox[c] = <<>> THEN piece ELSE Head(inbox[c])
    <3>1. /\ Len(inbox[c]) \in Nat /\ Len(inbox'[c]) = Len(inbox[c]) + 1
          /\ inbox'[c] \in Seq(Pieces) /\ inbox'[c] # <<>>
          /\ \A i \in 1..Len(inbox[c]) : inbox'[c][i] = inbox[c][i]
          /\ inbox'[c][Len(inbox[c]) + 1] = piece
      BY <1>1, <2>1, AppendProperties, LenProperties
    <3>2. Head(inbox'[c]) = inbox'[c][1]
      BY <3>1, HeadTailProperties
    <3>3. CASE inbox[c] = <<>>
      BY <3>1, <3>2, <3>3
    <3>4. CASE inbox[c] # <<>>
      <4>1. Head(inbox[c]) = inbox[c][1] /\ Len(inbox[c]) # 0
        BY <1>1, <3>4, HeadTailProperties, EmptySeq
      <4> QED BY <3>1, <3>2, <3>4, <4>1
    <3> QED BY <3>1, <3>3, <3>4
  <2>6. inbox[c] = <<>> /\ partial[c] # "nothing" => Follows(partial[c], piece)
    BY <1>1, <2>1, <2>2 DEF FramedAt, Follows
  <2> QED BY <1>1, <2>1, <2>4, <2>5, <2>6 DEF FramedAt, Left
<1>4. ASSUME inbox[c] # <<>>, inbox'[c] = Tail(inbox[c]), half' = half, link' = link,
             partial'[c] = IF Head(inbox[c]) \in Beginnings THEN Head(inbox[c]) ELSE "nothing"
      PROVE  FramedAt(c)'
  <2>1. /\ InOrder(inbox'[c]) /\ Head(inbox[c]) = inbox[c][1]
        /\ inbox'[c] # <<>> => /\ Follows(Head(inbox[c]), Head(inbox'[c]))
                              /\ inbox'[c][Len(inbox'[c])] = inbox[c][Len(inbox[c])]
        /\ inbox'[c] = <<>> => Len(inbox[c]) = 1
    BY <1>1, <1>4, InOrderTail DEF FramedAt
  <2> QED BY <1>1, <1>4, <2>1 DEF FramedAt, Left
<1>5. ASSUME inbox'[c] = <<>>, partial'[c] = "nothing"
      PROVE  FramedAt(c)'
  <2>1. Len(inbox'[c]) = 0
    BY <1>5
  <2>2. InOrder(inbox'[c])
    BY <2>1 DEF InOrder
  <2> QED BY <1>1, <1>5, <2>2 DEF FramedAt
<1>6. ASSUME NEW x, inbox'[c] = <<x>>, partial'[c] = "nothing", link'[c] \in {"shut", "closed"}
      PROVE  FramedAt(c)'
  <2>1. Len(inbox'[c]) = 1
    BY <1>6
  <2>2. InOrder(inbox'[c])
    BY <2>1 DEF InOrder
  <2> QED BY <1>1, <1>6, <2>2 DEF FramedAt
<1>7. CASE UNCHANGED vars
  BY <1>2, <1>7 DEF vars, clientVars
<1>8. CASE Main \/ Actor \/ Engine \/ Signal \/ ActorDies \/ \E d \in Clients : SpawnFails(d)
  <2>1. UNCHANGED <<inbox, partial, half>>
    BY <1>8 DEF Main, CheckFlag, Join, StopEngine, StopActor, Exit, Accept, Actor, ActorServes,
                ActorStops, Engine, EngineStops, EngineTicks, EngineReturns, Signal, ActorDies,
                SpawnFails, clientVars
  <2>2. link'[c] \notin {"shut", "closed"} => link[c] \notin {"shut", "closed"}
    <3>1. CASE CheckFlag
      BY <1>1, <3>1 DEF CheckFlag
    <3>2. CASE \E d \in Clients : Accept(d)
      BY <1>1, <3>2 DEF Accept
    <3>3. CASE Exit
      BY <3>3 DEF Exit
    <3>4. CASE UNCHANGED link
      BY <3>4
    <3> QED BY <1>8, <3>1, <3>2, <3>3, <3>4
            DEF Main, Join, StopEngine, StopActor, Actor, ActorServes, ActorStops, Engine,
                EngineStops, EngineTicks, EngineReturns, Signal, ActorDies, SpawnFails, clientVars
  <2> QED BY <1>2, <2>1, <2>2
<1>9. ASSUME NEW d \in Clients, Connect(d) \/ ReadAnswer(d) \/ Shut(d) \/ Close(d)
      PROVE  FramedAt(c)'
  <2>1. UNCHANGED <<inbox, partial, half>>
    BY <1>9 DEF Connect, ReadAnswer, Shut, Close
  <2>2. link'[c] \notin {"shut", "closed"} => link[c] \notin {"shut", "closed"}
    BY <1>1, <1>9 DEF Connect, ReadAnswer, Shut, Close
  <2> QED BY <1>2, <2>1, <2>2
<1>10. ASSUME NEW d \in Clients, d # c, Connection(d) \/ \E piece \in Pieces : Send(d, piece)
       PROVE  FramedAt(c)'
  <2>1. inbox'[c] = inbox[c] /\ partial'[c] = partial[c] /\ half'[c] = half[c] /\ link' = link
    BY <1>1, <1>10 DEF Connection, Send, ReadOn, ReadBinary, Greet, Dispatch, ReadLine, ReadTimesOut, ReadEof,
                ReadUnended, TopOfLoop, CallReturns, Write, clientVars
  <2> QED BY <1>2, <2>1
<1>11. CASE Connection(c)
  <2>1. inbox[c] # <<>> /\ partial[c] # "nothing" => Head(inbox[c]) \in {"rest", "newline"}
    <3>1. DOMAIN FirstOf = {"rest", "newline"}
      BY DEF FirstOf
    <3> QED BY <1>1, <3>1 DEF FramedAt, Follows
  <2>2. CASE ReadOn(c)
    BY <1>1, <1>4, <2>2 DEF ReadOn, Has
  <2>3. CASE Greet(c) \/ Dispatch(c)
    <3>1. ReadLine(c)
      BY <2>3 DEF Greet, Dispatch
    <3> QED BY <1>1, <1>4, <3>1 DEF ReadLine, Has, Beginnings
  <2>4. CASE ReadBinary(c)
    BY <1>1, <1>4, <2>1, <2>4 DEF ReadBinary, Has, Beginnings
  <2>5. CASE ReadTimesOut(c)
    BY <1>1, <1>5, <2>5 DEF ReadTimesOut, clientVars
  <2>6. CASE ReadUnended(c)
    BY <1>1, <1>6, <2>6 DEF ReadUnended, EndOfFile
  <2>7. CASE ReadEof(c) \/ TopOfLoop(c) \/ CallReturns(c) \/ Write(c)
    <3>1. UNCHANGED <<inbox, partial, half, link>>
      BY <2>7 DEF ReadEof, TopOfLoop, CallReturns, Write, clientVars
    <3> QED BY <1>2, <3>1
  <2> QED BY <1>11, <2>2, <2>3, <2>4, <2>5, <2>6, <2>7 DEF Connection
<1> QED BY <1>3, <1>7, <1>8, <1>9, <1>10, <1>11 DEF Next, Client

LEMMA NextInv == DaemonInv /\ Framed /\ [Next]_vars => DaemonInv' /\ Framed'
<1> SUFFICES ASSUME DaemonInv, Framed, [Next]_vars PROVE DaemonInv' /\ Framed'
  OBVIOUS
<1>1. ASSUME UNCHANGED vars PROVE DaemonInv'
  <2>1. TypeOK'
    BY <1>1 DEF vars, clientVars, actorVars, engineVars, DaemonInv, TypeOK
  <2>2. Lines'
    BY <1>1 DEF vars, clientVars, DaemonInv, Lines, Answered, FirstAnswer
  <2>3. ActorInv'
    BY <1>1 DEF vars, actorVars, engineVars, DaemonInv, ActorInv, Queued, CallersWait, StopsLast,
                Joined, ActorOutlivesConnections
  <2> QED BY <2>1, <2>2, <2>3 DEF DaemonInv
<1>2. ASSUME Next PROVE DaemonInv'
  <2>1. CASE Main \/ Signal \/ \E c \in Clients : SpawnFails(c)
    BY <2>1, MainSteps
  <2>2. CASE Actor \/ ActorDies
    BY <2>2, ActorSteps
  <2>3. CASE Engine
    BY <2>3, EngineSteps
  <2>4. ASSUME NEW c \in Clients, Connection(c) \/ Client(c)
        PROVE  DaemonInv'
    BY <2>4, ConnectionSteps, ClientSteps
  <2> QED BY <1>2, <2>1, <2>2, <2>3, <2>4 DEF Next
<1>3. Framed'
  BY NextFramed DEF DaemonInv
<1> QED BY <1>1, <1>2, <1>3

LEMMA InitFramed == Init => Framed
<1> SUFFICES ASSUME Init, NEW c \in Clients PROVE FramedAt(c)
  BY DEF Framed
<1>1. inbox[c] = <<>> /\ partial[c] = "nothing" /\ Len(<<>>) = 0
  BY DEF Init
<1> QED BY <1>1 DEF FramedAt, InOrder

THEOREM Invariance == Spec => []DaemonInv
<1>1. Spec => [](DaemonInv /\ Framed)
  BY InitInv, InitFramed, NextInv, PTL DEF Spec
<1> QED BY <1>1, PTL

(* The threads' variables keep their types; no socket overflows and no      *)
(* answer is written that no line asked for (owed stays a natural number).  *)
THEOREM TypeCorrect == Spec => []TypeOK
<1>1. DaemonInv => TypeOK
  BY DEF DaemonInv
<1> QED BY <1>1, Invariance, PTL

(* No connection sees ActorCrashed unless the actor's thread died: at the   *)
(* end of run_with_shutdown main stops it after the last connection.        *)
THEOREM ActorOutlives == Spec => []ActorOutlivesConnections
<1>1. DaemonInv => ActorOutlivesConnections
  BY DEF DaemonInv, ActorInv
<1> QED BY <1>1, Invariance, PTL

(* An answer is due for each line or piece in the socket that asks for one, *)
(* for the object read_line holds, for the line being served and for the    *)
(* objects a timeout cut off, and for nothing else (handle_connection,      *)
(* read_request).                                                           *)
THEOREM OnlyCutLost == Spec => []OnlyCutObjectsLost
<1>1. DaemonInv => OnlyCutObjectsLost
  <2> SUFFICES ASSUME DaemonInv, NEW c \in Clients, conn[c] # "ended"
               PROVE  owed[c] = ToAnswer(c) + cut[c]
    BY DEF OnlyCutObjectsLost, Lives
  <2>1. {i \in 1..Len(inbox[c]) : inbox[c][i] \in Due} = Places(inbox[c], Due)
    BY DEF Places
  <2> QED BY <2>1 DEF DaemonInv, Lines, Answered, Count, Held, Served, ToAnswer
<1> QED BY <1>1, Invariance, PTL

(* A waiting caller has exactly one request in the actor's queue, and the   *)
(* queue's end is the end of its wait (actor.rs, send_and_recv).            *)
THEOREM WaitersQueued == Spec => []WaitersAreQueued
<1>1. DaemonInv => WaitersAreQueued
  <2> SUFFICES ASSUME DaemonInv, NEW c \in Callers
               PROVE  Cardinality({i \in 1..Len(queue) : queue[i] = c}) =
                        IF slot[c] = "waiting" THEN 1 ELSE 0
    BY DEF WaitersAreQueued
  <2>1. {i \in 1..Len(queue) : queue[i] = c} = Places(queue, {c})
    BY DEF Places
  <2> QED BY <2>1 DEF DaemonInv, ActorInv, Queued, Count
<1> QED BY <1>1, Invariance, PTL
=============================================================================
