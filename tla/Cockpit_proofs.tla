---------------------------- MODULE Cockpit_proofs ----------------------------
(***************************************************************************)
(* Theorems about the cockpit and what libxl is given for a guest: for     *)
(* every set of names and every bound, what the cockpit's commands act on, *)
(* and how often they make a domain (Cockpit); then, for every size of     *)
(* plan, the configuration a domain is created from (GuestConfig) and the  *)
(* manifests that lead to it (GuestPlan).                                  *)
(***************************************************************************)
EXTENDS Cockpit, GuestConfig, FiniteSetTheorems, SequenceTheorems, TLAPS

------------------------------------------------------------- (* the types *)

Ops      == {"create", "start", "shutdown", "destroy"}
Commands == [op : Ops \cup {"instance"}, d : Nat, n : Nat]
Requests == [op : Ops, d : Nat, name : Names, n : Nat, heard : BOOLEAN]
AllCalls == [op : Ops \cup {"list", "none"}, d : Nat, name : Names, n : Nat, try : {1, 2}]
Answers  == {NoAnswer} \cup [k : {"err"}] \cup [k : {"ok"}, d : Nat]

Guests == [name : Names \cup {"Domain-0"}, st : {"paused", "running"}]
Views  == UNION {[S -> Guests] : S \in SUBSET Nat}

Messages == [k : {"ready"}] \cup [k : {"event"}, n : Nat] \cup [k : {"snapshot"}, v : Views]

HostOK == /\ doms \in Views /\ next \in Nat \ {0}
          /\ \A d \in DOMAIN doms : d < next
          /\ made \in SUBSET (Nat \X Nat)
          /\ \A q \in made : 0 < q[2] /\ q[2] < next

QueuesOK == /\ cmds \in Seq(Commands) /\ inbox \in Seq(Requests) /\ msgs \in Seq(Messages)
            /\ call \in AllCalls /\ answer \in Answers
            /\ cmd \in [op : Ops \cup {"instance", "none"}, d : Nat, n : Nat]

ScreenOK == /\ snap \in Views /\ serial \in Nat
            /\ mode \in [k : {"normal", "kill"}, d : Nat]
            /\ mode.k = "kill" => mode.d # Dom0

---------------------------------------------------------- (* the invariant *)

Targeted(r) ==
    r.op \in {"start", "shutdown", "destroy"} =>
        /\ r.d # Dom0
        /\ \/ [op |-> r.op, d |-> r.d, n |-> r.n] \in chosen
           \/ r.op = "start" /\ <<r.n, r.d>> \in made

TargetsOK == \A r \in Underway : Targeted(r)

(* A call is made for the command at hand.                                  *)
CallOK == /\ call.op \notin {"list", "none"} => call.n = cmd.n
          /\ pc \in {"send", "await"} => call.op # "none"

(* One request at most is heard: the one the worker waits for. The answer   *)
(* on the connection is the answer to it, and the domain it names was made  *)
(* for the command at hand.                                                 *)
Heard(i) == inbox[i].heard

HeardOK == /\ \A i \in 1..Len(inbox) : Heard(i) =>
                 /\ pc = "await" /\ linked /\ answer.k = "none"
                 /\ inbox[i].op = call.op /\ inbox[i].n = call.n
           /\ \A i, j \in 1..Len(inbox) : Heard(i) /\ Heard(j) => i = j
           /\ answer.k # "none" => pc = "await"
           /\ answer.k = "ok" /\ call.op = "create" => <<call.n, answer.d>> \in made

(* Commands are numbered in the order they are given; those that wait come  *)
(* after all that were sent on or have made a domain.                       *)
Creates == {r \in Elements(inbox) \cup {call} : r.op = "create"}

NumbersOK == /\ \A i \in 1..Len(cmds) : cmds[i].n <= serial
             /\ \A i, j \in 1..Len(cmds) : i < j => cmds[i].n < cmds[j].n
             /\ \A r \in Creates : /\ r.n <= serial
                                   /\ \A i \in 1..Len(cmds) : r.n < cmds[i].n
             /\ \A q \in made : /\ q[1] <= serial
                                /\ \A i \in 1..Len(cmds) : q[1] < cmds[i].n

(* A command creates under one name, and what it made goes by that name.    *)
NamesOK == /\ \A r, s \in Creates : r.n = s.n => r.name = s.name
           /\ \A r \in Creates, q \in made :
                q[1] = r.n /\ q[2] \in DOMAIN doms => doms[q[2]].name = r.name

CockpitInv == /\ HostOK /\ QueuesOK /\ ScreenOK
              /\ TargetsOK /\ CallOK /\ HeardOK /\ NumbersOK /\ NamesOK

----------------------------------------------------- (* lists and views *)

LEMMA Taken ==
  ASSUME NEW S, NEW q \in Seq(S), q # Empty
  PROVE  /\ Head(q) = q[1] /\ Head(q) \in S /\ Head(q) \in Elements(q) /\ 1 \in 1..Len(q)
         /\ Tail(q) \in Seq(S) /\ Len(Tail(q)) = Len(q) - 1 /\ Len(q) \in Nat
         /\ \A i \in 1..Len(Tail(q)) : /\ i + 1 \in 1..Len(q) /\ i + 1 > 1
                                       /\ Tail(q)[i] = q[i + 1]
         /\ Elements(Tail(q)) \subseteq Elements(q)
<1>1. /\ Len(q) \in Nat /\ Len(q) >= 1 /\ DOMAIN q = 1..Len(q)
      /\ Head(q) = q[1] /\ Head(q) \in S
      /\ Tail(q) \in Seq(S) /\ Len(Tail(q)) = Len(q) - 1
      /\ \A i \in 1..Len(q) - 1 : Tail(q)[i] = q[i + 1]
  BY HeadTailProperties, EmptySeq, LenProperties DEF Empty
<1>2. DOMAIN Tail(q) = 1..Len(q) - 1
  BY <1>1, LenProperties
<1>3. \A i \in 1..Len(q) - 1 : i + 1 \in 1..Len(q) /\ i + 1 > 1
  BY <1>1
<1>4. 1 \in 1..Len(q)
  BY <1>1
<1> QED BY <1>1, <1>2, <1>3, <1>4 DEF Elements

LEMMA Appended ==
  ASSUME NEW S, NEW q \in Seq(S), NEW x \in S
  PROVE  /\ Append(q, x) \in Seq(S) /\ Len(Append(q, x)) = Len(q) + 1 /\ Len(q) \in Nat
         /\ \A i \in 1..Len(q) : Append(q, x)[i] = q[i]
         /\ Append(q, x)[Len(q) + 1] = x
         /\ Elements(Append(q, x)) = Elements(q) \cup {x}
<1>1. /\ Append(q, x) \in Seq(S) /\ Len(Append(q, x)) = Len(q) + 1 /\ Len(q) \in Nat
      /\ \A i \in 1..Len(q) : Append(q, x)[i] = q[i]
      /\ Append(q, x)[Len(q) + 1] = x
  BY AppendProperties, LenProperties
<1>2. DOMAIN q = 1..Len(q) /\ DOMAIN Append(q, x) = 1..Len(q) + 1
  BY <1>1, LenProperties
<1> DEFINE n == Len(q)
           all == Append(q, x)
<1> HIDE DEF n, all
<1>3. 1..n + 1 = 1..n \cup {n + 1}
  BY <1>1 DEF n
<1>4. {all[i] : i \in 1..n + 1} = {q[i] : i \in 1..n} \cup {x}
  BY <1>1, <1>3 DEF n, all
<1> QED BY <1>1, <1>2, <1>4 DEF Elements, n, all

LEMMA NothingIn == Empty = <<>> /\ Len(Empty) = 0 /\ Elements(Empty) = {} /\ \A S : Empty \in Seq(S)
  BY DEF Empty, Elements

LEMMA ViewIs == \A v : v \in Views <=> DOMAIN v \in SUBSET Nat /\ v \in [DOMAIN v -> Guests]
<1> TAKE v
<1>1. ASSUME v \in Views PROVE DOMAIN v \in SUBSET Nat /\ v \in [DOMAIN v -> Guests]
  <2>1. PICK S \in SUBSET Nat : v \in [S -> Guests]
    BY <1>1 DEF Views
  <2>2. DOMAIN v = S
    BY <2>1
  <2> QED BY <2>1, <2>2
<1> QED BY <1>1 DEF Views

LEMMA EmptyView == Empty \in Views
<1>1. Empty \in [{} -> Guests] /\ {} \in SUBSET Nat
  BY DEF Empty
<1> QED BY <1>1 DEF Views

LEMMA ViewWithout ==
  ASSUME NEW v \in Views, NEW d \in Nat
  PROVE  /\ Without(v, d) \in Views /\ DOMAIN Without(v, d) = DOMAIN v \ {d}
         /\ \A e \in DOMAIN v \ {d} : Without(v, d)[e] = v[e]
<1>1. DOMAIN v \in SUBSET Nat /\ v \in [DOMAIN v -> Guests]
  BY ViewIs
<1>2. Without(v, d) \in [DOMAIN v \ {d} -> Guests] /\ DOMAIN v \ {d} \in SUBSET Nat
  BY <1>1 DEF Without
<1>3. Without(v, d) \in Views
  BY <1>2 DEF Views
<1> QED BY <1>2, <1>3 DEF Without

LEMMA ViewWith ==
  ASSUME NEW v \in Views, NEW d \in Nat, NEW g \in Guests
  PROVE  /\ Added(v, d, g) \in Views /\ DOMAIN Added(v, d, g) = DOMAIN v \cup {d}
         /\ Added(v, d, g)[d] = g
         /\ \A e \in DOMAIN v : e # d => Added(v, d, g)[e] = v[e]
<1>1. DOMAIN v \in SUBSET Nat /\ v \in [DOMAIN v -> Guests]
  BY ViewIs
<1>2. Added(v, d, g) \in [DOMAIN v \cup {d} -> Guests] /\ DOMAIN v \cup {d} \in SUBSET Nat
  BY <1>1 DEF Added
<1>3. Added(v, d, g) \in Views
  BY <1>2 DEF Views
<1> QED BY <1>2, <1>3 DEF Added

LEMMA ViewRunning ==
  ASSUME NEW v \in Views, NEW d \in DOMAIN v
  PROVE  /\ [v EXCEPT ![d].st = "running"] \in Views
         /\ DOMAIN [v EXCEPT ![d].st = "running"] = DOMAIN v
         /\ \A e \in DOMAIN v : [v EXCEPT ![d].st = "running"][e].name = v[e].name
<1>1. DOMAIN v \in SUBSET Nat /\ v \in [DOMAIN v -> Guests]
  BY ViewIs
<1>2. v[d] \in Guests /\ [v[d] EXCEPT !.st = "running"] \in Guests
      /\ [v[d] EXCEPT !.st = "running"].name = v[d].name
  BY <1>1 DEF Guests
<1>3. /\ [v EXCEPT ![d].st = "running"] \in [DOMAIN v -> Guests]
      /\ \A e \in DOMAIN v : [v EXCEPT ![d].st = "running"][e].name = v[e].name
  BY <1>1, <1>2
<1>4. [v EXCEPT ![d].st = "running"] \in Views
  BY <1>1, <1>3 DEF Views
<1> QED BY <1>3, <1>4

------------------------------------------------------- (* what steps do *)

(* A step that neither gives, moves nor carries out a command.              *)
Quiet == /\ UNCHANGED <<libxl, inbox, cmds, call, cmd, given, linked, answer>>
         /\ pc' = pc \/ (pc \notin {"send", "await"} /\ pc' \notin {"send", "await"})

(* The process comes to its end, as the user leaves or the console does.    *)
Over == ProcessEnds /\ UNCHANGED <<libxl, given>>

(* A step that gives command c.                                             *)
Orders(c) == /\ c \in Commands /\ c.n = serial + 1
             /\ cmds' = Append(cmds, c) /\ serial' = serial + 1
             /\ chosen \subseteq chosen'
             /\ c.op \in {"start", "shutdown", "destroy"} => c.d # Dom0 /\ c \in chosen'
             /\ UNCHANGED <<libxl, inbox, call, cmd, linked, answer, pc>>

LEMMA Ordered ==
  ASSUME ScreenOK, NEW op \in Ops \cup {"instance"}, NEW d \in Nat, NEW shown,
         Gives([op |-> op, d |-> d], shown),
         op \in {"start", "shutdown", "destroy"} => d # Dom0 /\ shown = [op |-> op, d |-> d],
         UNCHANGED <<libxl, inbox, call, cmd, linked, answer, pc>>
  PROVE  \E c \in Commands : Orders(c)
<1> DEFINE c == [op |-> op, d |-> d, n |-> serial + 1]
<1>1. c \in Commands /\ c.n = serial + 1 /\ c.op = op /\ c.d = d
  BY DEF ScreenOK, Commands
<1>2. cmds' = Append(cmds, c) /\ serial' = serial + 1 /\ chosen \subseteq chosen'
  BY DEF Gives
<1>3. c.op \in {"start", "shutdown", "destroy"} => c.d # Dom0 /\ c \in chosen'
  BY DEF Gives
<1> HIDE DEF c
<1> QED BY <1>1, <1>2, <1>3 DEF Orders

LEMMA Steppers ==
  ASSUME CockpitInv, Next
  PROVE  \/ Serve \/ Cut \/ Crash \/ Over \/ PickDaemon \/ SendRequest \/ Receive \/ Reconnect
         \/ GiveUp \/ Poll \/ List \/ Dispatch \/ DispatchInstance \/ DispatchDirect \/ Reject
         \/ (\E d \in DOMAIN doms : GuestEnds(d)) \/ (\E name \in Names : OtherCreates(name))
         \/ (\E c \in Commands : Orders(c)) \/ Quiet
<1> USE DEF libxl, daemon, wire, worker, screen, given
<1>1. ScreenOK
  BY DEF CockpitInv
<1>2. CASE PickDirect \/ Announce \/ PollDirect
  BY <1>1, <1>2 DEF PickDirect, Announce, PollDirect, Due, Quiet, Send
<1>3. CASE Apply
  BY <1>1, <1>3 DEF Apply, Quiet
<1>4. CASE Relaunch \/ Restart
  BY <1>1, <1>4 DEF Relaunch, Restart, Quiet
<1>5. CASE AutostartDue
  <2>1. CASE UNCHANGED <<cmds, given>>
    BY <1>1, <1>5, <2>1 DEF AutostartDue, AutostartGoesOn, Quiet
  <2>2. CASE Gives([op |-> "create", d |-> Dom0], [op |-> "autostart", d |-> Dom0])
    <3>1. UNCHANGED <<libxl, inbox, call, cmd, linked, answer, pc>>
      BY <1>5 DEF AutostartDue, AutostartGoesOn
    <3> QED BY <1>1, <2>2, <3>1, Ordered DEF Ops, Dom0
  <2> QED BY <1>5, <2>1, <2>2 DEF AutostartDue
<1>6. ASSUME Keyed PROVE UNCHANGED <<libxl, inbox, call, cmd, linked, answer, pc>>
  BY <1>6 DEF Keyed
<1>7. CASE KeyMove \/ KeyOther \/ \E d \in DOMAIN snap : KeyKill(d) \/ KeyAttach(d)
  BY <1>1, <1>7 DEF KeyMove, KeyOther, KeyKill, KeyAttach, UserLeaves, Keyed, Quiet
<1>8. CASE KeyYes
  <2>1. mode.d \in Nat /\ mode.d # Dom0
    BY <1>1, <1>8 DEF KeyYes, ScreenOK
  <2>2. Gives([op |-> "destroy", d |-> mode.d], [op |-> "destroy", d |-> mode.d])
    BY <1>8 DEF KeyYes, Confirmed
  <2> QED BY <1>1, <1>6, <1>8, <2>1, <2>2, Ordered DEF KeyYes, Ops
<1>9. CASE KeyCreate
  <2>1. PICK op \in {"create", "instance"} : Gives([op |-> op, d |-> Dom0], [op |-> op, d |-> Dom0])
    BY <1>9 DEF KeyCreate
  <2> QED BY <1>1, <1>6, <1>9, <2>1, Ordered DEF KeyCreate, Ops, Dom0
<1>10. ASSUME NEW d \in DOMAIN snap, KeyStart(d) \/ KeyShutdown(d)
       PROVE  \E c \in Commands : Orders(c)
  <2>1. d \in Nat /\ d # Dom0
    BY <1>1, <1>10, ViewIs DEF ScreenOK, KeyStart, KeyShutdown, IsDom0
  <2>2. CASE KeyStart(d)
    BY <1>1, <1>6, <2>1, <2>2, Ordered DEF KeyStart, Ops
  <2>3. CASE KeyShutdown(d)
    BY <1>1, <1>6, <2>1, <2>3, Ordered DEF KeyShutdown, Ops
  <2> QED BY <1>10, <2>2, <2>3
<1>11. CASE KeyQuit \/ ConsoleEnds
  BY <1>11 DEF KeyQuit, UserLeaves, ConsoleEnds, Over
<1> QED BY <1>2, <1>3, <1>4, <1>5, <1>7, <1>8, <1>9, <1>10, <1>11 DEF Next, Worker, Keys, World

-------------------------------------------------------- (* the guests *)

(* What a step does to the guests and to the record of what was made: the   *)
(* types stay, guests keep their names, a new one has a new domid, and a    *)
(* recorded one was made for command n under the name the request gave it.  *)
GoesOn == /\ HostOK' /\ made \subseteq made'
          /\ \A d \in DOMAIN doms' : (d \in DOMAIN doms /\ doms'[d].name = doms[d].name) \/ d >= next

MadeFor(n, name) == /\ \A p \in made' \ made : p = <<n, next>> /\ ~NameTaken(name)
                    /\ next \in DOMAIN doms' => doms'[next].name = name

LEMMA Joins ==
  ASSUME HostOK, NEW name \in Names, NEW st \in {"paused", "running"},
         doms' = Added(doms, next, [name |-> name, st |-> st]), next' = next + 1,
         \/ made' = made
         \/ \E n \in Nat : made' = made \cup {<<n, next>>}
  PROVE  GoesOn /\ doms'[next].name = name
<1> DEFINE g == [name |-> name, st |-> st]
<1>1. g \in Guests /\ g.name = name
  BY DEF Guests
<1>2. doms \in Views /\ next \in Nat /\ next > 0
  BY DEF HostOK
<1>3. doms' = Added(doms, next, g)
  OBVIOUS
<1> HIDE DEF g
<1>4. /\ doms' \in Views /\ DOMAIN doms' = DOMAIN doms \cup {next} /\ doms'[next] = g
      /\ \A e \in DOMAIN doms : e # next => doms'[e] = doms[e]
  <2> DEFINE after == Added(doms, next, g)
  <2>1. /\ after \in Views /\ DOMAIN after = DOMAIN doms \cup {next} /\ after[next] = g
        /\ \A e \in DOMAIN doms : e # next => after[e] = doms[e]
    BY <1>1, <1>2, ViewWith
  <2> QED BY <1>3, <2>1
<1>5. \A d \in DOMAIN doms : d < next /\ d \in Nat
  BY ViewIs DEF HostOK
<1>6. \A q \in made' : q \in Nat \X Nat /\ 0 < q[2] /\ q[2] < next'
  <2>1. \A q \in made : q \in Nat \X Nat /\ 0 < q[2] /\ q[2] < next + 1
    BY <1>2 DEF HostOK
  <2>2. \A n \in Nat : <<n, next>> \in Nat \X Nat /\ 0 < next /\ next < next + 1
    BY <1>2
  <2> QED BY <2>1, <2>2
<1>7. made' \in SUBSET (Nat \X Nat)
  BY <1>6
<1>8. HostOK'
  BY <1>2, <1>4, <1>5, <1>6, <1>7 DEF HostOK
<1>9. \A d \in DOMAIN doms' : (d \in DOMAIN doms /\ doms'[d].name = doms[d].name) \/ d >= next
  BY <1>2, <1>4, <1>5
<1> QED BY <1>1, <1>4, <1>8, <1>9 DEF GoesOn

LEMMA Leaves ==
  ASSUME HostOK, NEW d \in Nat, doms' = Without(doms, d), UNCHANGED <<next, made>>
  PROVE  GoesOn
<1>1. doms \in Views /\ next \in Nat
  BY DEF HostOK
<1>2. /\ doms' \in Views /\ DOMAIN doms' = DOMAIN doms \ {d}
      /\ \A e \in DOMAIN doms \ {d} : doms'[e] = doms[e]
  <2> DEFINE after == Without(doms, d)
  <2>1. /\ after \in Views /\ DOMAIN after = DOMAIN doms \ {d}
        /\ \A e \in DOMAIN doms \ {d} : after[e] = doms[e]
    BY <1>1, ViewWithout
  <2> QED BY <2>1
<1> QED BY <1>2 DEF HostOK, GoesOn

LEMMA Remains == ASSUME HostOK, UNCHANGED libxl PROVE GoesOn
<1>1. doms' = doms /\ next' = next /\ made' = made
  BY DEF libxl
<1> QED BY <1>1 DEF HostOK, GoesOn

LEMMA Does ==
  ASSUME HostOK, NEW r, r.op \in Ops \cup {"list", "none", "instance"},
         r.d \in Nat, r.n \in Nat, r.name \in Names, Done(r)
  PROVE  /\ GoesOn
         /\ r.op = "create" => MadeFor(r.n, r.name) /\ <<r.n, next>> \in made'
         /\ r.op # "create" => made' = made
<1>1. CASE r.op = "create"
  <2>1. ~NameTaken(r.name) /\ Made(r.n, r.name)
    BY <1>1 DEF Done
  <2> QED BY <1>1, <2>1, Joins DEF Made, MadeFor
<1>2. CASE r.op = "start"
  <2>1. r.d \in DOMAIN doms /\ doms' = [doms EXCEPT ![r.d].st = "running"] /\ UNCHANGED <<next, made>>
    BY <1>2 DEF Done
  <2>2. /\ doms' \in Views /\ DOMAIN doms' = DOMAIN doms
        /\ \A e \in DOMAIN doms : doms'[e].name = doms[e].name
    BY <2>1, ViewRunning DEF HostOK
  <2>3. GoesOn
    BY <2>1, <2>2 DEF HostOK, GoesOn
  <2> QED BY <1>2, <2>1, <2>3
<1>3. CASE r.op = "destroy"
  <2>1. doms' = Without(doms, r.d) /\ UNCHANGED <<next, made>>
    BY <1>3 DEF Done
  <2> QED BY <1>3, <2>1, Leaves
<1>4. CASE r.op \notin {"create", "start", "destroy"}
  <2>1. UNCHANGED libxl
    BY <1>4 DEF Done
  <2> QED BY <1>4, <2>1, Remains DEF libxl
<1> QED BY <1>1, <1>2, <1>3, <1>4

LEMMA Asked ==
  ASSUME QueuesOK, cmds # Empty
  PROVE  /\ Head(cmds) \in Commands /\ Head(cmds) = cmds[1] /\ 1 \in 1..Len(cmds)
         /\ Head(cmds) \in Elements(cmds) /\ Tail(cmds) \in Seq(Commands)
         /\ Elements(Tail(cmds)) \subseteq Elements(cmds)
BY Taken DEF QueuesOK

LEMMA Waiting ==
  ASSUME QueuesOK, inbox # Empty
  PROVE  /\ Head(inbox) \in Requests /\ Head(inbox) = inbox[1] /\ 1 \in 1..Len(inbox)
         /\ Head(inbox) \in Elements(inbox) /\ Tail(inbox) \in Seq(Requests)
         /\ Elements(Tail(inbox)) \subseteq Elements(inbox)
BY Taken DEF QueuesOK

(* The guests change as others will, or by a request that is carried out.   *)
ByDaemon == Serve /\ inbox # Empty /\ Head(inbox).op = "create"
                  /\ MadeFor(Head(inbox).n, Head(inbox).name)
Directly == DispatchDirect /\ Take /\ Head(cmds).op = "create"
                           /\ MadeFor(Head(cmds).n, Manifest)

LEMMA HostStep ==
  ASSUME CockpitInv, Next
  PROVE  GoesOn /\ (made' = made \/ ByDaemon \/ Directly)
<1>1. HostOK /\ QueuesOK
  BY DEF CockpitInv
<1>2. ASSUME UNCHANGED libxl PROVE GoesOn /\ made' = made
  BY <1>1, <1>2, Remains DEF libxl
<1>3. CASE Serve
  <2>1. inbox # Empty
    BY <1>3 DEF Serve
  <2>2. Done(Head(inbox)) \/ UNCHANGED libxl
    BY <1>3 DEF Serve, Refused, Breaks
  <2>3. Head(inbox) \in Requests
    BY <1>1, <2>1, Waiting
  <2>4. /\ Head(inbox).op \in Ops /\ Head(inbox).d \in Nat /\ Head(inbox).n \in Nat
        /\ Head(inbox).name \in Names
    BY <2>3 DEF Requests
  <2> QED BY <1>1, <1>2, <1>3, <2>1, <2>2, <2>4, Does DEF ByDaemon
<1>4. CASE DispatchDirect
  <2>1. Take /\ cmds # Empty
    BY <1>4 DEF DispatchDirect, Take
  <2> DEFINE c == Head(cmds)
             r == [op |-> c.op, d |-> c.d, name |-> Manifest, n |-> c.n]
  <2>2. Done(r) \/ UNCHANGED libxl
    BY <1>4 DEF DispatchDirect, Refused, Breaks
  <2>3. c \in Commands
    BY <1>1, <2>1, Asked
  <2>4. /\ r.op \in Ops \cup {"instance"} /\ r.d \in Nat /\ r.n \in Nat /\ r.name = Manifest
        /\ r.op = c.op /\ r.n = c.n /\ Manifest \in Names
    BY <2>3, CockpitAssumption DEF Commands
  <2> HIDE DEF r
  <2>5. ASSUME Done(r) PROVE GoesOn /\ (made' = made \/ Directly)
    BY <1>1, <1>4, <2>1, <2>4, <2>5, Does DEF Directly
  <2> QED BY <1>2, <2>2, <2>5
<1>5. ASSUME NEW d \in DOMAIN doms, GuestEnds(d) PROVE GoesOn /\ made' = made
  <2>1. d \in Nat /\ doms' = Without(doms, d) /\ UNCHANGED <<next, made>>
    BY <1>1, <1>5, ViewIs DEF HostOK, GuestEnds
  <2> QED BY <1>1, <2>1, Leaves
<1>6. ASSUME NEW name \in Names, OtherCreates(name) PROVE GoesOn /\ made' = made
  <2>1. /\ doms' = Added(doms, next, [name |-> name, st |-> "running"])
        /\ next' = next + 1 /\ made' = made
    BY <1>6 DEF OtherCreates
  <2> QED BY <1>1, <2>1, Joins
<1>7. CASE \/ Cut \/ Crash \/ Over \/ PickDaemon \/ SendRequest \/ Receive \/ Reconnect \/ GiveUp
           \/ Poll \/ List \/ Dispatch \/ DispatchInstance \/ Reject
  <2>1. UNCHANGED libxl
    BY <1>7 DEF Cut, Crash, Over, ProcessEnds, PickDaemon, SendRequest, Receive, Reconnect, GiveUp, Poll, List,
       Dispatch, DispatchInstance, Reject
  <2> QED BY <1>2, <2>1
<1>8. CASE Quiet \/ \E c \in Commands : Orders(c)
  BY <1>2, <1>8 DEF Quiet, Orders
<1> QED BY <1>3, <1>4, <1>5, <1>6, <1>7, <1>8, Steppers

-------------------------------------------------- (* calls and commands *)

(* A call ends, or the second call of an instance follows the first.        *)
Ends == cmd' = NoCmd /\ call' = NoCall /\ pc' \in {"idle", "poll"}
GoesOnToStart(a) ==
    /\ a.k = "ok" /\ call.op = "create" /\ cmd' = cmd /\ pc' = "send"
    /\ call' = [op |-> "start", d |-> a.d, name |-> Instance, n |-> cmd.n, try |-> 1]

LEMMA Answered ==
  ASSUME NEW a, After(a)
  PROVE  /\ GoesOnToStart(a) \/ Ends
         /\ msgs' = msgs \/ Report(cmd.n)
BY DEF After, Calls, GoesOnToStart, Ends

LEMMA Failing == ASSUME After([k |-> "err"]) PROVE Ends
<1>1. [k |-> "err"].k = "err"
  OBVIOUS
<1> QED BY <1>1, Answered DEF GoesOnToStart

CallsKept == CallOK' /\ call' \in AllCalls
                     /\ cmd' \in [op : Ops \cup {"instance", "none"}, d : Nat, n : Nat]

LEMMA CallStep ==
  ASSUME CockpitInv, Next
  PROVE  CallsKept
<1> USE DEF screen, CallsKept
<1>1. CallOK /\ QueuesOK /\ call \in AllCalls /\ cmd \in [op : Ops \cup {"instance", "none"}, d : Nat, n : Nat]
  BY DEF CockpitInv, QueuesOK
<1>2. ASSUME Ends PROVE CallsKept
  <2>1. /\ NoCall \in AllCalls /\ NoCall.op = "none"
        /\ NoCmd \in [op : Ops \cup {"instance", "none"}, d : Nat, n : Nat]
    BY CockpitAssumption DEF NoCall, NoCmd, AllCalls, Dom0
  <2> QED BY <1>2, <2>1 DEF Ends, CallOK
<1>3. ASSUME NEW op \in Ops \cup {"list"}, NEW d \in Nat, NEW name \in Names, NEW n \in Nat,
             Calls(op, d, name, n), n = cmd'.n \/ op = "list",
             cmd' \in [op : Ops \cup {"instance", "none"}, d : Nat, n : Nat]
      PROVE  CallsKept
  <2>1. call' \in AllCalls /\ call'.op = op /\ call'.n = n /\ op # "none"
    BY <1>3 DEF Calls, AllCalls, Ops
  <2> QED BY <1>3, <2>1 DEF CallOK, Calls
<1>4. Dom0 \in Nat /\ 0 \in Nat /\ Manifest \in Names /\ Instance \in Names
  BY CockpitAssumption DEF Dom0
<1>5. CASE Serve \/ Cut \/ Crash
  BY <1>1, <1>5 DEF Serve, Cut, Crash, worker, CallOK
<1>6. CASE PickDaemon \/ SendRequest \/ Reject
  BY <1>1, <1>6 DEF PickDaemon, SendRequest, Reject, worker, CallOK, Take
<1>7. CASE (\E d \in DOMAIN doms : GuestEnds(d)) \/ (\E name \in Names : OtherCreates(name))
  <2>1. UNCHANGED <<call, cmd, pc>>
    BY <1>7 DEF GuestEnds, OtherCreates, worker
  <2> QED BY <1>1, <2>1 DEF CallOK
<1>8. CASE Quiet \/ \E c \in Commands : Orders(c)
  <2>1. CASE Quiet
    BY <1>1, <2>1 DEF Quiet, CallOK
  <2>2. ASSUME NEW c \in Commands, Orders(c) PROVE CallsKept
    <3>1. UNCHANGED <<call, cmd, pc>>
      BY <2>2 DEF Orders
    <3> QED BY <1>1, <3>1 DEF CallOK
  <2> QED BY <1>8, <2>1, <2>2
<1>9. CASE Over
  <2>1. /\ NoCall \in AllCalls /\ NoCall.op = "none"
        /\ NoCmd \in [op : Ops \cup {"instance", "none"}, d : Nat, n : Nat]
    BY <1>4 DEF NoCall, NoCmd, AllCalls
  <2> QED BY <1>9, <2>1 DEF Over, ProcessEnds, CallOK
<1>10. CASE Receive
  <2>1. pc = "await" /\ answer.k # "none"
    BY <1>1, <1>10 DEF Receive, CallOK
  <2>2. ASSUME GoesOnToStart(answer) PROVE CallsKept
    <3>1. answer.d \in Nat /\ cmd.n \in Nat
      BY <1>1, <2>2 DEF QueuesOK, Answers, NoAnswer, GoesOnToStart
    <3> QED BY <1>1, <1>3, <1>4, <2>1, <2>2, <3>1 DEF GoesOnToStart, Calls, Ops
  <2> QED BY <1>2, <1>10, <2>1, <2>2, Answered DEF Receive
<1>11. CASE GiveUp
  BY <1>2, <1>11, Failing DEF GiveUp
<1>12. CASE Reconnect
  <2>1. call' \in AllCalls /\ call'.op = call.op /\ call'.n = call.n /\ cmd' = cmd
    BY <1>1, <1>12 DEF Reconnect, AllCalls
  <2>2. call.op # "none"
    BY <1>1, <1>12 DEF Reconnect, IoError, CallOK
  <2> QED BY <1>1, <1>12, <2>1, <2>2 DEF Reconnect, CallOK
<1>13. CASE Poll
  BY <1>1, <1>3, <1>4, <1>13 DEF Poll, Due, CallOK
<1>14. CASE List
  <2>1. NoCall \in AllCalls /\ NoCall.op = "none"
    BY <1>4 DEF NoCall, AllCalls
  <2> QED BY <1>1, <1>14, <2>1 DEF List, CallOK
<1>15. ASSUME Take PROVE /\ Head(cmds) \in [op : Ops \cup {"instance"}, d : Nat, n : Nat]
                         /\ pc = "idle"
  BY <1>1, <1>15, Asked DEF Take, Commands, CallOK
<1>16. CASE Dispatch
  <2>1. /\ Head(cmds).op \in Ops /\ Head(cmds).d \in Nat /\ Head(cmds).n \in Nat
        /\ cmd' = Head(cmds) /\ cmd'.n = Head(cmds).n
        /\ cmd' \in [op : Ops \cup {"instance", "none"}, d : Nat, n : Nat]
    BY <1>15, <1>16 DEF Dispatch
  <2>2. Calls(Head(cmds).op, Head(cmds).d, Manifest, Head(cmds).n)
    BY <1>16 DEF Dispatch
  <2> QED BY <1>3, <1>4, <2>1, <2>2
<1>17. CASE DispatchInstance
  <2>1. Head(cmds).n \in Nat /\ pc = "idle"
        /\ Head(cmds) \in [op : Ops \cup {"instance", "none"}, d : Nat, n : Nat]
    BY <1>15, <1>17 DEF DispatchInstance
  <2>2. CASE cmd' = Head(cmds) /\ Calls("create", Dom0, Instance, Head(cmds).n)
    BY <1>3, <1>4, <2>1, <2>2 DEF Ops
  <2>3. CASE UNCHANGED <<cmd, call>> /\ pc' = "poll"
    <3>1. pc \notin {"send", "await"} /\ pc' \notin {"send", "await"}
      BY <2>1, <2>3
    <3> QED BY <1>1, <2>1, <2>3, <3>1 DEF CallOK
  <2> QED BY <1>17, <2>2, <2>3 DEF DispatchInstance
<1>18. CASE DispatchDirect
  <2>1. UNCHANGED <<call, cmd>> /\ pc' = "poll" /\ pc = "idle"
    BY <1>15, <1>18 DEF DispatchDirect
  <2>2. pc \notin {"send", "await"} /\ pc' \notin {"send", "await"}
    BY <2>1
  <2> QED BY <1>1, <2>1, <2>2 DEF CallOK
<1> QED BY <1>5, <1>6, <1>7, <1>8, <1>9, <1>10, <1>11, <1>12, <1>13, <1>14, <1>16, <1>17, <1>18, Steppers

------------------------------------------------------------ (* the queues *)

LEMMA CmdsStep ==
  ASSUME CockpitInv, Next
  PROVE  \/ cmds' = cmds /\ UNCHANGED given
         \/ Take /\ UNCHANGED given
         \/ cmds' = Empty /\ UNCHANGED given
         \/ \E c \in Commands : Orders(c)
<1>1. CASE Take
  <2>1. (Dispatch \/ DispatchInstance \/ DispatchDirect \/ Reject) => UNCHANGED given
    BY DEF Dispatch, DispatchInstance, DispatchDirect, Reject
  <2> QED BY <1>1, <2>1, Steppers DEF Serve, Cut, Crash, Over, ProcessEnds, PickDaemon, SendRequest, Receive,
       Reconnect, GiveUp, Poll, List, GuestEnds, OtherCreates, Quiet
<1>2. CASE Serve \/ Cut \/ Crash \/ PickDaemon \/ SendRequest \/ Receive
  BY <1>2 DEF Serve, Cut, Crash, PickDaemon, SendRequest, Receive
<1>3. CASE Reconnect \/ GiveUp \/ Poll \/ List \/ Quiet
  BY <1>3 DEF Reconnect, GiveUp, Poll, List, Quiet
<1>4. CASE (\E d \in DOMAIN doms : GuestEnds(d)) \/ (\E name \in Names : OtherCreates(name))
  BY <1>4 DEF GuestEnds, OtherCreates
<1>5. CASE Over
  BY <1>5 DEF Over, ProcessEnds
<1>6. Dispatch \/ DispatchInstance \/ DispatchDirect \/ Reject => Take
  BY DEF Dispatch, DispatchInstance, DispatchDirect, Reject
<1> QED BY <1>1, <1>2, <1>3, <1>4, <1>5, <1>6, Steppers

(* A request that is sent is the call the worker makes.                     *)
Sent == [op |-> call.op, d |-> call.d, name |-> call.name, n |-> call.n, heard |-> TRUE]
Sends == SendRequest /\ inbox' = Append(inbox, Sent)

LEMMA InboxStep ==
  ASSUME CockpitInv, Next
  PROVE  \/ inbox' = inbox
         \/ inbox # Empty /\ Serve /\ inbox' = Tail(inbox)
         \/ inbox' = Unheard \/ inbox' = Empty
         \/ Sends
<1> USE DEF daemon
<1>1. CASE Serve
  BY <1>1 DEF Serve
<1>2. CASE Cut \/ Crash \/ Over \/ SendRequest
  BY <1>2 DEF Cut, Crash, Over, ProcessEnds, SendRequest, Sends, Sent
<1>3. CASE PickDaemon \/ Receive \/ Reconnect \/ GiveUp \/ Poll \/ List
  BY <1>3 DEF PickDaemon, Receive, Reconnect, GiveUp, Poll, List
<1>4. CASE Dispatch \/ DispatchInstance \/ DispatchDirect \/ Reject
  BY <1>4 DEF Dispatch, DispatchInstance, DispatchDirect, Reject
<1>5. CASE (\E d \in DOMAIN doms : GuestEnds(d)) \/ (\E name \in Names : OtherCreates(name))
  BY <1>5 DEF GuestEnds, OtherCreates
<1>6. CASE Quiet \/ \E c \in Commands : Orders(c)
  BY <1>6 DEF Quiet, Orders
<1> QED BY <1>1, <1>2, <1>3, <1>4, <1>5, <1>6, Steppers

LEMMA SentIs ==
  ASSUME CockpitInv, SendRequest
  PROVE  Sent \in Requests /\ Sent.op = call.op /\ Sent.d = call.d /\ Sent.n = call.n
         /\ Sent.name = call.name /\ Sent.heard = TRUE
<1>1. call \in AllCalls /\ call.op # "none" /\ call.op # "list"
  BY DEF CockpitInv, QueuesOK, CallOK, SendRequest
<1> QED BY <1>1 DEF Sent, Requests, AllCalls

LEMMA NoneHears ==
  ASSUME inbox \in Seq(Requests)
  PROVE  /\ Unheard \in Seq(Requests) /\ Len(Unheard) = Len(inbox)
         /\ \A i \in 1..Len(inbox) : /\ Unheard[i].op = inbox[i].op /\ Unheard[i].d = inbox[i].d
                                     /\ Unheard[i].n = inbox[i].n /\ Unheard[i].name = inbox[i].name
                                     /\ ~Unheard[i].heard
<1>1. DOMAIN inbox = 1..Len(inbox) /\ Len(inbox) \in Nat /\ \A i \in 1..Len(inbox) : inbox[i] \in Requests
  BY LenProperties, ElementOfSeq
<1>2. \A i \in 1..Len(inbox) : /\ Unheard[i] \in Requests
                               /\ Unheard[i].op = inbox[i].op /\ Unheard[i].d = inbox[i].d
                               /\ Unheard[i].n = inbox[i].n /\ Unheard[i].name = inbox[i].name
                               /\ ~Unheard[i].heard
  BY <1>1 DEF Unheard, Requests
<1>3. Unheard \in [1..Len(inbox) -> Requests]
  BY <1>1, <1>2 DEF Unheard
<1>4. Unheard \in Seq(Requests) /\ Len(Unheard) = Len(inbox)
  BY <1>1, <1>3, SeqDef, LenProperties
<1> QED BY <1>2, <1>4

LEMMA AnswerStep ==
  ASSUME CockpitInv, Next
  PROVE  answer' \in Answers
<1>1. answer \in Answers /\ next \in Nat /\ NoAnswer \in Answers
  BY DEF CockpitInv, QueuesOK, HostOK, Answers
<1>2. CASE Serve
  <2>1. \A r : Answer(r) \in Answers
    BY <1>1 DEF Answer, Answers, Dom0
  <2>2. [k |-> "err"] \in Answers
    BY DEF Answers
  <2> QED BY <1>1, <1>2, <2>1, <2>2 DEF Serve
<1>3. CASE Cut \/ Crash \/ Over \/ SendRequest \/ PickDaemon \/ Receive
  BY <1>1, <1>3 DEF Cut, Crash, Over, ProcessEnds, SendRequest, PickDaemon, Receive, Connected, wire
<1>4. CASE Reconnect \/ GiveUp \/ Poll \/ List \/ Dispatch \/ DispatchInstance
  BY <1>1, <1>4 DEF Reconnect, GiveUp, Poll, List, Dispatch, DispatchInstance, Connected, wire
<1>5. CASE DispatchDirect \/ Reject
  BY <1>1, <1>5 DEF DispatchDirect, Reject, wire
<1>6. CASE (\E d \in DOMAIN doms : GuestEnds(d)) \/ (\E name \in Names : OtherCreates(name))
  BY <1>1, <1>6 DEF GuestEnds, OtherCreates, wire
<1>7. CASE Quiet \/ \E c \in Commands : Orders(c)
  BY <1>1, <1>7 DEF Quiet, Orders
<1> QED BY <1>2, <1>3, <1>4, <1>5, <1>6, <1>7, Steppers

(* The screen is told of snapshots, reports and the backend, nothing else.  *)
Told == msgs' = msgs \/ msgs' = Empty \/ (msgs # Empty /\ msgs' = Tail(msgs))
        \/ \E m \in Messages : msgs' = Append(msgs, m)

LEMMA MsgsStep ==
  ASSUME CockpitInv, Next
  PROVE  Told
<1>1. [k |-> "ready"] \in Messages /\ \A n \in Nat : [k |-> "event", n |-> n] \in Messages
  BY DEF Messages
<1>2. \A v \in {doms, Empty} : [k |-> "snapshot", v |-> v] \in Messages
  BY EmptyView DEF Messages, CockpitInv, HostOK
<1>3. cmd.n \in Nat /\ (Take => Head(cmds).n \in Nat)
  BY Asked DEF CockpitInv, QueuesOK, Take, Commands
<1>4. ASSUME NEW n \in Nat, Report(n) PROVE Told
  BY <1>1, <1>4 DEF Report, Send, Told
<1>5. ASSUME Send([k |-> "ready"]) PROVE Told
  BY <1>1, <1>5 DEF Send, Told
<1>6. ASSUME NEW v \in {doms, Empty}, Send([k |-> "snapshot", v |-> v]) PROVE Told
  BY <1>2, <1>6 DEF Send, Told
<1>7. CASE Announce \/ Reconnect
  BY <1>5, <1>7 DEF Announce, Reconnect
<1>8. CASE Receive \/ GiveUp
  <2>1. msgs' = msgs \/ Report(cmd.n)
    BY <1>8, Answered DEF Receive, GiveUp
  <2> QED BY <1>3, <1>4, <2>1 DEF Told
<1>9. CASE List \/ PollDirect
  BY <1>6, <1>9 DEF List, PollDirect, Told
<1>10. CASE DispatchInstance \/ DispatchDirect \/ Reject
  <2>1. Take /\ (msgs' = msgs \/ Report(Head(cmds).n))
    BY <1>10 DEF DispatchInstance, DispatchDirect, Reject
  <2> QED BY <1>3, <1>4, <2>1 DEF Told
<1>11. CASE PickDaemon \/ PickDirect \/ SendRequest \/ Poll \/ Dispatch
  BY <1>11 DEF PickDaemon, PickDirect, SendRequest, Poll, Dispatch, Told
<1>12. CASE Keys
  BY <1>12 DEF Keys, KeyMove, KeyYes, KeyOther, KeyCreate, KeyQuit, ProcessEnds, KeyStart,
     KeyShutdown, KeyKill, KeyAttach, Keyed, Told
<1>13. CASE World \/ Serve \/ Restart
  BY <1>13 DEF World, Cut, Crash, ConsoleEnds, ProcessEnds, Relaunch, GuestEnds,
     OtherCreates, Serve, Restart, Told
<1>14. CASE Apply \/ AutostartDue
  BY <1>14 DEF Apply, AutostartDue, AutostartGoesOn, Told
<1> QED BY <1>7, <1>8, <1>9, <1>10, <1>11, <1>12, <1>13, <1>14 DEF Next, Worker

LEMMA QueuesStep ==
  ASSUME CockpitInv, Next
  PROVE  QueuesOK'
<1>1. QueuesOK
  BY DEF CockpitInv
<1>2. cmds' \in Seq(Commands)
  <2>1. \A c \in Commands : Orders(c) => Append(cmds, c) \in Seq(Commands) /\ cmds' = Append(cmds, c)
    BY <1>1, Appended DEF QueuesOK, Orders
  <2>2. Take => Tail(cmds) \in Seq(Commands) /\ cmds' = Tail(cmds)
    BY <1>1, Asked DEF Take
  <2> QED BY <1>1, <2>1, <2>2, CmdsStep, NothingIn DEF QueuesOK
<1>3. inbox' \in Seq(Requests)
  <2>1. Sends => Append(inbox, Sent) \in Seq(Requests) /\ inbox' = Append(inbox, Sent)
    BY <1>1, SentIs, Appended DEF QueuesOK, Sends
  <2>2. inbox # Empty => Tail(inbox) \in Seq(Requests)
    BY <1>1, Waiting
  <2>3. Unheard \in Seq(Requests)
    BY <1>1, NoneHears DEF QueuesOK
  <2> QED BY <1>1, <2>1, <2>2, <2>3, InboxStep, NothingIn DEF QueuesOK
<1>4. msgs' \in Seq(Messages)
  <2>1. \A m \in Messages : Append(msgs, m) \in Seq(Messages)
    BY <1>1, Appended DEF QueuesOK
  <2>2. msgs # Empty => Tail(msgs) \in Seq(Messages)
    BY <1>1, Taken DEF QueuesOK
  <2> QED BY <1>1, <2>1, <2>2, MsgsStep, NothingIn DEF QueuesOK, Told
<1> QED BY <1>2, <1>3, <1>4, CallStep, AnswerStep DEF QueuesOK, CallsKept

------------------------------------------------------------ (* the screen *)

LEMMA ScreenStep ==
  ASSUME CockpitInv, Next
  PROVE  ScreenOK'
<1> USE DEF screen, given
<1>1. ScreenOK /\ serial \in Nat /\ serial + 1 \in Nat
  BY DEF CockpitInv, ScreenOK
<1>2. Normal \in [k : {"normal", "kill"}, d : Nat] /\ Normal.k = "normal"
  BY DEF Normal, Dom0
<1>3. ASSUME UNCHANGED <<snap, mode>>, serial' \in {serial, serial + 1} PROVE ScreenOK'
  BY <1>1, <1>3 DEF ScreenOK
<1>4. CASE Worker
  <2>1. UNCHANGED <<snap, mode, serial>>
    BY <1>4 DEF Worker, PickDaemon, PickDirect, Announce, SendRequest, Receive, Reconnect, GiveUp,
       Poll, List, PollDirect, Dispatch, DispatchInstance, DispatchDirect, Reject
  <2> QED BY <1>3, <2>1
<1>5. CASE World \/ Serve \/ Restart
  <2>1. CASE Relaunch
    BY <1>1, <1>2, <2>1, EmptyView DEF Relaunch, ScreenOK
  <2>2. ~Relaunch => UNCHANGED <<snap, mode, serial>>
    BY <1>5 DEF World, Serve, Restart, Cut, Crash, ConsoleEnds, GuestEnds, OtherCreates
  <2> QED BY <1>3, <2>1, <2>2
<1>6. CASE Apply
  <2>1. msgs \in Seq(Messages) /\ msgs # Empty /\ UNCHANGED <<mode, serial>>
    BY <1>6 DEF Apply, CockpitInv, QueuesOK
  <2>2. Head(msgs) \in Messages
    BY <2>1, Taken
  <2>3. snap' = snap \/ (Head(msgs).k \notin {"ready", "event"} /\ snap' = Head(msgs).v)
    BY <1>6 DEF Apply
  <2>4. snap' \in Views
    BY <1>1, <2>2, <2>3 DEF Messages, ScreenOK
  <2> QED BY <1>1, <2>1, <2>4 DEF ScreenOK
<1>7. CASE AutostartDue
  <2>1. UNCHANGED <<snap, mode>> /\ serial' \in {serial, serial + 1}
    BY <1>7 DEF AutostartDue, AutostartGoesOn, Gives
  <2> QED BY <1>3, <2>1
<1>8. CASE Keys
  <2>1. KeyQuit \/ (\E d \in DOMAIN snap : KeyAttach(d)) => UNCHANGED <<snap, mode, serial>>
    BY DEF KeyQuit, KeyAttach, UserLeaves
  <2>2. \A d \in DOMAIN snap : KeyStart(d) \/ KeyShutdown(d) =>
           UNCHANGED <<snap, mode>> /\ serial' = serial + 1
    BY DEF KeyStart, KeyShutdown, Keyed, Gives
  <2>3. KeyMove \/ KeyCreate => UNCHANGED <<snap, mode>> /\ serial' \in {serial, serial + 1}
    BY DEF KeyMove, KeyCreate, Keyed, Gives
  <2>4. KeyOther \/ KeyYes => mode' = Normal /\ snap' = snap /\ serial' \in {serial, serial + 1}
    BY DEF KeyOther, KeyYes, Keyed, Gives
  <2>5. ASSUME NEW d \in DOMAIN snap, KeyKill(d) PROVE ScreenOK'
    <3>1. d \in Nat /\ d # Dom0 /\ mode' = [k |-> "kill", d |-> d] /\ UNCHANGED <<snap, serial>>
      BY <1>1, <2>5, ViewIs DEF ScreenOK, KeyKill, IsDom0, Keyed
    <3> QED BY <1>1, <3>1 DEF ScreenOK
  <2>6. KeyOther \/ KeyYes => ScreenOK'
    BY <1>1, <1>2, <2>4 DEF ScreenOK
  <2> QED BY <1>3, <1>8, <2>1, <2>2, <2>3, <2>5, <2>6 DEF Keys
<1> QED BY <1>4, <1>5, <1>6, <1>7, <1>8 DEF Next

----------------------------------------------------------- (* the targets *)

(* Targeted, of a request that is under way after the step.                 *)
Still(r) ==
  r.op \in {"start", "shutdown", "destroy"} =>
      /\ r.d # Dom0
      /\ \/ [op |-> r.op, d |-> r.d, n |-> r.n] \in chosen'
         \/ r.op = "start" /\ <<r.n, r.d>> \in made'

LEMMA TargetsStep ==
  ASSUME CockpitInv, Next
  PROVE  TargetsOK'
<1>1. QueuesOK /\ TargetsOK /\ HeardOK /\ CallOK
  BY DEF CockpitInv
<1>2. made \subseteq made' /\ chosen \subseteq chosen'
  <2>1. made \subseteq made'
    BY HostStep DEF GoesOn
  <2>2. chosen \subseteq chosen'
    BY CmdsStep DEF given, Orders
  <2> QED BY <2>1, <2>2
<1>3. ASSUME NEW s \in Underway, NEW r, r.op = s.op, r.d = s.d, r.n = s.n
      PROVE  Still(r)
  <2>1. Targeted(s)
    BY <1>1 DEF TargetsOK
  <2> QED BY <1>2, <1>3, <2>1 DEF Targeted, Still
<1>4. ASSUME NEW r \in Elements(cmds') PROVE Still(r)
  <2>1. CASE r \in Elements(cmds)
    BY <1>3, <2>1 DEF Underway
  <2>2. ASSUME NEW c \in Commands, Orders(c), r \notin Elements(cmds) PROVE Still(r)
    <3>1. r = c
      BY <1>1, <1>4, <2>2, Appended DEF Orders, QueuesOK
    <3>2. c = [op |-> c.op, d |-> c.d, n |-> c.n]
      BY DEF Commands
    <3> QED BY <2>2, <3>1, <3>2 DEF Orders, Still
  <2>3. Take => r \in Elements(cmds)
    BY <1>1, <1>4, Asked DEF Take
  <2>4. cmds' # Empty
    BY <1>4, NothingIn
  <2> QED BY <1>4, <2>1, <2>2, <2>3, <2>4, CmdsStep
<1>5. ASSUME NEW r \in Elements(inbox') PROVE Still(r)
  <2>1. CASE r \in Elements(inbox)
    BY <1>3, <2>1 DEF Underway
  <2>2. CASE inbox' = Unheard
    <3>1. PICK i \in 1..Len(inbox) : r = Unheard[i]
      BY <1>1, <1>5, <2>2, NoneHears, LenProperties DEF QueuesOK, Elements
    <3>2. inbox[i] \in Elements(inbox)
      BY <1>1, LenProperties DEF QueuesOK, Elements
    <3> QED BY <1>1, <1>3, <3>1, <3>2, NoneHears DEF QueuesOK, Underway
  <2>3. CASE Sends /\ r \notin Elements(inbox)
    <3>1. r = Sent
      BY <1>1, <1>5, <2>3, SentIs, Appended DEF Sends, QueuesOK
    <3>2. call \in Underway
      BY DEF Underway
    <3> QED BY <1>3, <2>3, <3>1, <3>2, SentIs DEF Sends
  <2>4. inbox # Empty /\ inbox' = Tail(inbox) => r \in Elements(inbox)
    BY <1>1, <1>5, Waiting
  <2>5. inbox' # Empty
    BY <1>5, NothingIn
  <2> QED BY <1>5, <2>1, <2>2, <2>3, <2>4, <2>5, InboxStep
<1>6. Still(call')
  <2>1. call \in Underway
    BY DEF Underway
  <2>2. ASSUME call'.op \notin {"start", "shutdown", "destroy"} PROVE Still(call')
    BY <2>2 DEF Still
  <2>3. CASE Receive
    <3>1. ASSUME GoesOnToStart(answer) PROVE Still(call')
      <4>1. /\ call'.op = "start" /\ call'.d = answer.d /\ call'.n = cmd.n
            /\ call.n = cmd.n /\ <<call.n, answer.d>> \in made
        BY <1>1, <3>1 DEF GoesOnToStart, CallOK, HeardOK
      <4>2. answer.d # Dom0
        BY <4>1 DEF CockpitInv, HostOK, Dom0
      <4> QED BY <1>2, <4>1, <4>2 DEF Still
    <3>2. Ends => call'.op = "none"
      BY DEF Ends, NoCall
    <3> QED BY <2>2, <2>3, <3>1, <3>2, Answered DEF Receive
  <2>4. CASE GiveUp \/ List \/ Over \/ Poll
    <3>1. call'.op \in {"none", "list"}
      BY <2>4, Failing DEF GiveUp, List, Over, ProcessEnds, Poll, Ends, NoCall, Calls
    <3> QED BY <2>2, <3>1
  <2>5. CASE Reconnect
    <3>1. call'.op = call.op /\ call'.d = call.d /\ call'.n = call.n
      BY <1>1, <2>5 DEF Reconnect, QueuesOK, AllCalls
    <3> QED BY <1>3, <2>1, <3>1
  <2>6. CASE Dispatch
    <3>1. /\ Head(cmds) \in Underway
          /\ call'.op = Head(cmds).op /\ call'.d = Head(cmds).d /\ call'.n = Head(cmds).n
      BY <1>1, <2>6, Asked DEF Dispatch, Take, Calls, Underway
    <3> QED BY <1>3, <3>1
  <2>7. CASE DispatchInstance
    <3>1. call' = call \/ call'.op = "create"
      BY <2>7 DEF DispatchInstance, Calls
    <3> QED BY <1>3, <2>1, <2>2, <3>1
  <2>8. CASE call' = call
    BY <1>3, <2>1, <2>8
  <2>9. \/ Receive \/ GiveUp \/ List \/ Over \/ Poll \/ Reconnect \/ Dispatch \/ DispatchInstance
        \/ call' = call
    BY Steppers DEF Serve, Cut, Crash, PickDaemon, SendRequest, DispatchDirect, Reject, GuestEnds,
       OtherCreates, Orders, Quiet, worker
  <2> QED BY <2>3, <2>4, <2>5, <2>6, <2>7, <2>8, <2>9
<1>7. TargetsOK' <=> \A r \in Elements(cmds') \cup Elements(inbox') \cup {call'} : Still(r)
  BY DEF TargetsOK, Underway, Elements, Targeted, Still
<1> QED BY <1>4, <1>5, <1>6, <1>7

--------------------------------------------------- (* answers and requests *)

LEMMA HeardStep ==
  ASSUME CockpitInv, Next
  PROVE  HeardOK'
<1>1. HeardOK /\ QueuesOK
  BY DEF CockpitInv
<1>2. ASSUME \A i \in 1..Len(inbox') : ~inbox'[i].heard, answer'.k = "none" PROVE HeardOK'
  BY <1>2 DEF HeardOK, Heard
<1>3. ASSUME pc # "await" \/ ~linked \/ answer.k # "none"
      PROVE  \A i \in 1..Len(inbox) : ~inbox[i].heard
  BY <1>1, <1>3 DEF HeardOK, Heard
<1>4. ASSUME pc # "await", inbox' = inbox, answer' = answer PROVE HeardOK'
  BY <1>1, <1>2, <1>3, <1>4 DEF HeardOK
<1>5. made \subseteq made' /\ NoAnswer.k = "none"
  BY HostStep DEF GoesOn, NoAnswer
<1>6. ASSUME UNCHANGED <<inbox, answer, pc, linked, call>> PROVE HeardOK'
  BY <1>1, <1>5, <1>6 DEF HeardOK, Heard
<1>7. CASE Serve
  <2> DEFINE r == Head(inbox)
  <2>1. inbox # Empty /\ inbox' = Tail(inbox) /\ UNCHANGED <<pc, linked, call>>
    BY <1>7 DEF Serve, worker
  <2>2. r \in Requests /\ r = inbox[1] /\ 1 \in 1..Len(inbox)
    BY <1>1, <2>1, Waiting
  <2>3. /\ Len(inbox') \in Nat
        /\ \A i \in 1..Len(inbox') : /\ i + 1 \in 1..Len(inbox) /\ i + 1 # 1
                                     /\ inbox'[i] = inbox[i + 1]
    BY <1>1, <2>1, Taken DEF QueuesOK
  <2>4. CASE ~r.heard
    <3>1. answer' = answer
      BY <1>7, <2>4 DEF Serve
    <3>2. \A i \in 1..Len(inbox') : inbox'[i].heard =>
             /\ pc' = "await" /\ linked' /\ answer'.k = "none"
             /\ inbox'[i].op = call'.op /\ inbox'[i].n = call'.n
      BY <1>1, <2>1, <2>3, <3>1 DEF HeardOK, Heard
    <3>3. \A i, j \in 1..Len(inbox') : inbox'[i].heard /\ inbox'[j].heard => i = j
      <4> SUFFICES ASSUME NEW i \in 1..Len(inbox'), NEW j \in 1..Len(inbox'),
                          inbox'[i].heard, inbox'[j].heard
                   PROVE  i = j
        OBVIOUS
      <4>1. i + 1 = j + 1
        BY <1>1, <2>3 DEF HeardOK, Heard
      <4> QED BY <2>3, <4>1
    <3> QED BY <1>1, <1>5, <2>1, <3>1, <3>2, <3>3 DEF HeardOK, Heard
  <2>5. CASE r.heard
    <3>1. pc = "await" /\ r.op = call.op /\ r.n = call.n
      BY <1>1, <2>2, <2>5 DEF HeardOK, Heard
    <3>2. \A i \in 1..Len(inbox') : ~inbox'[i].heard
      BY <1>1, <2>2, <2>3, <2>5 DEF HeardOK, Heard
    <3>3. answer'.k = "ok" /\ r.op = "create" => <<r.n, answer'.d>> \in made'
      <4>1. CASE answer' = Answer(r) /\ Done(r)
        <5>1. r.op \in Ops /\ r.d \in Nat /\ r.n \in Nat /\ r.name \in Names
          BY <2>2 DEF Requests
        <5>2. r.op = "create" => <<r.n, next>> \in made'
          BY <4>1, <5>1, Does DEF CockpitInv
        <5>3. r.op = "create" => Answer(r).d = next
          BY DEF Answer
        <5> QED BY <4>1, <5>2, <5>3
      <4>2. CASE answer' = [k |-> "err"]
        BY <4>2
      <4> QED BY <1>7, <2>5, <4>1, <4>2 DEF Serve
    <3> QED BY <2>1, <3>1, <3>2, <3>3 DEF HeardOK, Heard
  <2> QED BY <2>4, <2>5
<1>8. CASE Cut
  <2>1. \A i \in 1..Len(inbox') : ~inbox'[i].heard
    BY <1>1, <1>8, NoneHears DEF Cut, QueuesOK
  <2> QED BY <1>1, <1>8, <2>1 DEF Cut, HeardOK, Heard, libxl, worker
<1>9. CASE Crash
  <2>1. \A i \in 1..Len(inbox') : ~inbox'[i].heard
    BY <1>9, NothingIn DEF Crash
  <2> QED BY <1>1, <1>9, <2>1 DEF Crash, HeardOK, Heard, libxl, worker
<1>10. CASE Over
  <2>1. \A i \in 1..Len(inbox') : ~inbox'[i].heard
    BY <1>1, <1>10, NoneHears DEF Over, ProcessEnds, QueuesOK
  <2> QED BY <1>2, <1>5, <1>10, <2>1 DEF Over, ProcessEnds
<1>11. CASE PickDaemon \/ Receive \/ Reconnect
  <2>1. inbox' = inbox /\ answer' = NoAnswer
    BY <1>11 DEF PickDaemon, Receive, Reconnect, Connected, daemon
  <2>2. pc # "await" \/ ~linked \/ answer.k # "none"
    BY <1>11 DEF PickDaemon, Receive, Reconnect, IoError
  <2> QED BY <1>2, <1>3, <1>5, <2>1, <2>2
<1>12. CASE GiveUp
  <2>1. inbox' = inbox /\ answer' = answer /\ ~linked /\ answer.k = "none"
    BY <1>1, <1>12 DEF GiveUp, IoError, HeardOK, daemon, wire
  <2> QED BY <1>2, <1>3, <2>1
<1>13. CASE SendRequest
  <2>1. /\ inbox' = Append(inbox, Sent) /\ pc' = "await" /\ pc = "send" /\ linked
        /\ UNCHANGED <<linked, answer, call, made>>
    BY <1>13 DEF SendRequest, Sent, wire, libxl
  <2>2. answer.k = "none" /\ \A i \in 1..Len(inbox) : ~inbox[i].heard
    BY <1>1, <1>3, <2>1 DEF HeardOK
  <2>3. /\ Len(inbox') = Len(inbox) + 1 /\ Len(inbox) \in Nat /\ inbox'[Len(inbox) + 1] = Sent
        /\ \A i \in 1..Len(inbox) : inbox'[i] = inbox[i]
    BY <1>1, <1>13, <2>1, SentIs, Appended DEF QueuesOK
  <2>4. \A i \in 1..Len(inbox') : inbox'[i].heard => i = Len(inbox) + 1 /\ inbox'[i] = Sent
    BY <2>2, <2>3
  <2>5. Sent.op = call.op /\ Sent.n = call.n
    BY DEF Sent
  <2> QED BY <2>1, <2>2, <2>4, <2>5 DEF HeardOK, Heard
<1>14. CASE Poll \/ List \/ Dispatch \/ DispatchInstance \/ DispatchDirect \/ Reject
  <2>1. pc # "await" /\ inbox' = inbox /\ answer' = answer
    BY <1>14 DEF Poll, Due, List, Dispatch, DispatchInstance, DispatchDirect, Reject, Take, daemon, wire
  <2> QED BY <1>4, <2>1
<1>15. CASE (\E d \in DOMAIN doms : GuestEnds(d)) \/ (\E name \in Names : OtherCreates(name))
  <2>1. UNCHANGED <<inbox, answer, pc, linked, call>>
    BY <1>15 DEF GuestEnds, OtherCreates, daemon, wire, worker
  <2> QED BY <1>6, <2>1
<1>16. CASE \E c \in Commands : Orders(c)
  <2>1. UNCHANGED <<inbox, answer, pc, linked, call>>
    BY <1>16 DEF Orders
  <2> QED BY <1>6, <2>1
<1>17. CASE Quiet
  <2>1. CASE pc' = pc
    BY <1>6, <1>17, <2>1 DEF Quiet
  <2>2. CASE pc # "await"
    BY <1>4, <1>17, <2>2 DEF Quiet
  <2> QED BY <1>17, <2>1, <2>2 DEF Quiet
<1> QED BY <1>7, <1>8, <1>9, <1>10, <1>11, <1>12, <1>13, <1>14, <1>15, <1>16, <1>17, Steppers

------------------------------------------------------ (* numbers and names *)

Earlier(n) == n <= serial /\ \A i \in 1..Len(cmds) : n < cmds[i].n
StaysBefore(n) == n <= serial' /\ \A i \in 1..Len(cmds') : n < cmds'[i].n

LEMMA StaysEarlier ==
  ASSUME CockpitInv, Next
  PROVE  /\ \A i \in 1..Len(cmds') : cmds'[i].n <= serial'
         /\ \A i, j \in 1..Len(cmds') : i < j => cmds'[i].n < cmds'[j].n
         /\ \A n \in Nat : Earlier(n) => StaysBefore(n)
         /\ Take => StaysBefore(Head(cmds).n)
<1>1. QueuesOK /\ NumbersOK /\ serial \in Nat
  BY DEF CockpitInv, ScreenOK
<1>2. \A i \in 1..Len(cmds) : cmds[i] \in Commands /\ cmds[i].n \in Nat
  <2>1. \A i \in 1..Len(cmds) : cmds[i] \in Commands
    BY <1>1, ElementOfSeq DEF QueuesOK
  <2> QED BY <2>1 DEF Commands
<1>3. CASE cmds' = cmds /\ UNCHANGED given
  <2>1. Take => FALSE
    <3>1. ASSUME Take PROVE Len(Tail(cmds)) = Len(cmds) - 1 /\ Len(cmds) \in Nat
      BY <1>1, <3>1, Taken DEF Take, QueuesOK
    <3> QED BY <1>3, <3>1 DEF Take
  <2> QED BY <1>1, <1>3, <2>1 DEF given, NumbersOK, Earlier, StaysBefore
<1>4. CASE Take /\ UNCHANGED given
  <2>1. serial' = serial /\ cmds' = Tail(cmds) /\ Head(cmds) = cmds[1] /\ 1 \in 1..Len(cmds)
    BY <1>1, <1>4, Asked DEF given, Take
  <2>2. /\ Len(cmds') \in Nat
        /\ \A i \in 1..Len(cmds') : /\ i + 1 \in 1..Len(cmds) /\ i + 1 > 1
                                    /\ cmds'[i] = cmds[i + 1]
    BY <1>1, <1>4, Taken DEF QueuesOK, Take
  <2>3. \A i, j \in 1..Len(cmds') : i < j => i + 1 < j + 1
    BY <2>2
  <2>4. cmds[1].n <= serial /\ \A i \in 1..Len(cmds') : cmds[1].n < cmds'[i].n
    BY <1>1, <2>1, <2>2 DEF NumbersOK
  <2>5. \A n \in Nat : Earlier(n) => StaysBefore(n)
    BY <2>1, <2>2 DEF Earlier, StaysBefore
  <2>6. StaysBefore(Head(cmds).n)
    BY <2>1, <2>4 DEF StaysBefore
  <2>7. \A i \in 1..Len(cmds') : cmds'[i].n <= serial'
    BY <1>1, <2>1, <2>2 DEF NumbersOK
  <2>8. \A i, j \in 1..Len(cmds') : i < j => cmds'[i].n < cmds'[j].n
    BY <1>1, <2>2, <2>3 DEF NumbersOK
  <2> QED BY <2>5, <2>6, <2>7, <2>8
<1>5. CASE cmds' = Empty /\ UNCHANGED given
  <2>1. Take => Head(cmds).n <= serial
    BY <1>1, Asked DEF Take, NumbersOK
  <2>2. \A i : i \notin 1..Len(cmds')
    BY <1>5, NothingIn
  <2>3. \A n : Earlier(n) => StaysBefore(n)
    BY <1>5, <2>2 DEF given, Earlier, StaysBefore
  <2>4. Take => StaysBefore(Head(cmds).n)
    <3> SUFFICES ASSUME Take PROVE Head(cmds).n <= serial' /\ \A i \in 1..Len(cmds') : FALSE
      BY DEF StaysBefore
    <3> QED BY <1>5, <2>1, <2>2 DEF given
  <2> QED BY <2>2, <2>3, <2>4
<1>6. ASSUME NEW c \in Commands, Orders(c)
      PROVE  /\ \A i \in 1..Len(cmds') : cmds'[i].n <= serial'
             /\ \A i, j \in 1..Len(cmds') : i < j => cmds'[i].n < cmds'[j].n
             /\ \A n \in Nat : Earlier(n) => StaysBefore(n)
             /\ ~Take
  <2>1. cmds' = Append(cmds, c) /\ c.n = serial + 1 /\ serial' = serial + 1
    BY <1>6 DEF Orders
  <2>2. /\ Len(cmds') = Len(cmds) + 1 /\ Len(cmds) \in Nat /\ cmds'[Len(cmds) + 1] = c
        /\ \A i \in 1..Len(cmds) : cmds'[i] = cmds[i]
    BY <1>1, <2>1, Appended DEF QueuesOK
  <2>3. \A i \in 1..Len(cmds') : i \in 1..Len(cmds) \/ i = Len(cmds) + 1
    BY <2>2
  <2>4. ~Take
    <3>1. Take => Len(cmds') = Len(cmds) - 1
      BY <1>1, Taken DEF Take, QueuesOK
    <3> QED BY <2>2, <3>1
  <2>5. \A i \in 1..Len(cmds') : cmds'[i].n <= serial'
    BY <1>1, <1>2, <2>1, <2>2, <2>3 DEF NumbersOK
  <2>6. \A i, j \in 1..Len(cmds') : i < j => cmds'[i].n < cmds'[j].n
    <3> SUFFICES ASSUME NEW i \in 1..Len(cmds'), NEW j \in 1..Len(cmds'), i < j
                 PROVE  cmds'[i].n < cmds'[j].n
      OBVIOUS
    <3>1. i \in 1..Len(cmds)
      BY <2>2, <2>3
    <3>2. cmds'[i].n <= serial /\ cmds'[i].n \in Nat
      BY <1>1, <1>2, <2>2, <3>1 DEF NumbersOK
    <3>3. CASE j = Len(cmds) + 1
      BY <1>1, <2>1, <2>2, <3>2, <3>3
    <3>4. CASE j \in 1..Len(cmds)
      BY <1>1, <2>2, <3>1, <3>4 DEF NumbersOK
    <3> QED BY <2>3, <3>3, <3>4
  <2>7. \A n \in Nat : Earlier(n) => StaysBefore(n)
    BY <1>1, <1>2, <2>1, <2>2, <2>3 DEF Earlier, StaysBefore
  <2> QED BY <2>4, <2>5, <2>6, <2>7
<1> QED BY <1>3, <1>4, <1>5, <1>6, CmdsStep

(* A request to create is an old one, or the next command that waits.       *)
Fresher(r) == Take /\ r = call' /\ r.n = Head(cmds).n /\ UNCHANGED <<libxl, inbox>>

LEMMA CreatesStep ==
  ASSUME CockpitInv, Next, NEW r \in Creates'
  PROVE  (\E s \in Creates : s.n = r.n /\ s.name = r.name) \/ Fresher(r)
<1>1. QueuesOK
  BY DEF CockpitInv
<1>2. r.op = "create" /\ (r \in Elements(inbox') \/ r = call')
  BY DEF Creates, Elements
<1>3. \A s \in Elements(inbox) \cup {call} : s.op = "create" => s \in Creates
  BY DEF Creates
<1>4. CASE r \in Elements(inbox')
  <2>1. CASE r \in Elements(inbox)
    BY <1>2, <1>3, <2>1
  <2>2. CASE inbox' = Unheard
    <3>1. PICK i \in 1..Len(inbox) : r = Unheard[i]
      BY <1>1, <1>4, <2>2, NoneHears, LenProperties DEF QueuesOK, Elements
    <3>2. inbox[i] \in Elements(inbox)
      BY <1>1, LenProperties DEF QueuesOK, Elements
    <3>3. inbox[i].op = r.op /\ inbox[i].n = r.n /\ inbox[i].name = r.name
      BY <1>1, <3>1, NoneHears DEF QueuesOK
    <3> QED BY <1>2, <1>3, <3>2, <3>3
  <2>3. CASE Sends /\ r \notin Elements(inbox)
    <3>1. r = Sent
      BY <1>1, <1>4, <2>3, SentIs, Appended DEF Sends, QueuesOK
    <3> QED BY <1>2, <1>3, <2>3, <3>1, SentIs DEF Sends
  <2>4. inbox # Empty /\ inbox' = Tail(inbox) => r \in Elements(inbox)
    BY <1>1, <1>4, Waiting
  <2>5. inbox' # Empty
    BY <1>4, NothingIn
  <2> QED BY <1>4, <2>1, <2>2, <2>3, <2>4, <2>5, InboxStep
<1>5. CASE r = call'
  <2>1. CASE call' = call
    BY <1>2, <1>3, <1>5, <2>1
  <2>2. CASE Receive \/ GiveUp \/ List \/ Over \/ Poll
    <3>1. call'.op \in {"none", "list", "start"}
      BY <2>2, Answered, Failing
         DEF Receive, GiveUp, List, Over, ProcessEnds, Poll, Ends, GoesOnToStart, NoCall, Calls
    <3> QED BY <1>2, <1>5, <3>1
  <2>3. CASE Reconnect
    <3>1. call'.op = call.op /\ call'.n = call.n /\ call'.name = call.name
      BY <1>1, <2>3 DEF Reconnect, QueuesOK, AllCalls
    <3> QED BY <1>2, <1>3, <1>5, <3>1
  <2>4. CASE Dispatch \/ DispatchInstance
    <3>1. Take /\ UNCHANGED <<libxl, inbox>> /\ (call' = call \/ call'.n = Head(cmds).n)
      BY <2>4 DEF Dispatch, DispatchInstance, Calls, daemon
    <3> QED BY <1>5, <2>1, <3>1 DEF Fresher
  <2>5. \/ Receive \/ GiveUp \/ List \/ Over \/ Poll \/ Reconnect \/ Dispatch \/ DispatchInstance
        \/ call' = call
    BY Steppers DEF Serve, Cut, Crash, PickDaemon, SendRequest, DispatchDirect, Reject, GuestEnds,
       OtherCreates, Orders, Quiet, worker
  <2> QED BY <2>1, <2>2, <2>3, <2>4, <2>5
<1> QED BY <1>2, <1>4, <1>5

LEMMA CreatesAre ==
  ASSUME QueuesOK, NEW r \in Creates
  PROVE  r.n \in Nat /\ r.op = "create"
<1>1. r \in Elements(inbox) \/ r = call
  BY DEF Creates
<1>2. \A s \in Elements(inbox) : s \in Requests
  BY LenProperties, ElementOfSeq DEF QueuesOK, Elements
<1> QED BY <1>1, <1>2 DEF QueuesOK, AllCalls, Requests, Creates

(* The number of a domain made in this step is that of a request to create, *)
(* or of the command taken.                                                 *)
LEMMA MadeStep ==
  ASSUME CockpitInv, Next, NEW p \in made' \ made
  PROVE  /\ p[2] = next
         /\ \/ \E s \in Creates : /\ p[1] = s.n /\ ~NameTaken(s.name)
                                  /\ next \in DOMAIN doms' => doms'[next].name = s.name
            \/ Take /\ DispatchDirect /\ p[1] = Head(cmds).n
<1>1. ByDaemon \/ Directly
  BY HostStep
<1>2. CASE ByDaemon
  <2>1. Head(inbox) \in Creates
    BY <1>2, Waiting DEF ByDaemon, Creates, CockpitInv
  <2> QED BY <1>2, <2>1 DEF ByDaemon, MadeFor
<1>3. CASE Directly
  BY <1>3 DEF Directly, MadeFor
<1> QED BY <1>1, <1>2, <1>3

LEMMA NumbersStep ==
  ASSUME CockpitInv, Next
  PROVE  NumbersOK'
<1>1. /\ \A r \in Creates : Earlier(r.n) /\ r.n \in Nat
      /\ \A q \in made : Earlier(q[1]) /\ q[1] \in Nat
  BY CreatesAre DEF CockpitInv, NumbersOK, Earlier, HostOK
<1>2. \A r \in Creates' : StaysBefore(r.n)
  BY <1>1, CreatesStep, StaysEarlier DEF Fresher
<1>3. \A q \in made' : StaysBefore(q[1])
  BY <1>1, MadeStep, StaysEarlier
<1> QED BY <1>2, <1>3, StaysEarlier DEF NumbersOK, Earlier, StaysBefore

LEMMA NamesStep ==
  ASSUME CockpitInv, Next
  PROVE  NamesOK'
<1>1. NamesOK /\ NumbersOK /\ QueuesOK /\ HostOK
  BY DEF CockpitInv
<1>2. Take => /\ \A s \in Creates : s.n < Head(cmds).n /\ s.n \in Nat
              /\ \A q \in made : q[1] < Head(cmds).n /\ q[1] \in Nat
              /\ Head(cmds).n \in Nat
  BY <1>1, Asked, CreatesAre DEF Take, NumbersOK, HostOK, Commands
<1>3. \A r, s \in Creates' : r.n = s.n => r.name = s.name
  BY <1>1, <1>2, CreatesStep DEF NamesOK, Fresher
<1>4. ASSUME NEW r \in Creates', NEW q \in made', q[1] = r.n, q[2] \in DOMAIN doms'
      PROVE  doms'[q[2]].name = r.name
  <2>1. ASSUME q \in made PROVE q[2] \in DOMAIN doms /\ doms'[q[2]].name = doms[q[2]].name
    <3>1. q[2] \in Nat /\ q[2] < next /\ next \in Nat
      BY <1>1, <2>1 DEF HostOK
    <3> QED BY <1>4, <3>1, HostStep DEF GoesOn
  <2>2. CASE Fresher(r)
    <3>1. q \in made /\ q[1] < Head(cmds).n /\ q[1] \in Nat
      BY <1>2, <2>2 DEF Fresher, libxl
    <3> QED BY <1>4, <2>2, <3>1 DEF Fresher
  <2>3. ASSUME NEW s \in Creates, s.n = r.n, s.name = r.name PROVE doms'[q[2]].name = r.name
    <3>1. CASE q \in made
      BY <1>1, <1>4, <2>1, <2>3, <3>1 DEF NamesOK
    <3>2. CASE q \notin made
      <4>1. q[2] = next /\ next \in DOMAIN doms'
        BY <1>4, <3>2, MadeStep
      <4>2. ASSUME NEW t \in Creates, q[1] = t.n, doms'[next].name = t.name
            PROVE  doms'[q[2]].name = r.name
        BY <1>1, <1>4, <2>3, <4>1, <4>2 DEF NamesOK
      <4>3. ~(Take /\ q[1] = Head(cmds).n)
        BY <1>2, <1>4, <2>3
      <4> QED BY <3>2, <4>1, <4>2, <4>3, MadeStep
    <3> QED BY <3>1, <3>2
  <2> QED BY <2>2, <2>3, CreatesStep
<1> QED BY <1>3, <1>4 DEF NamesOK

------------------------------------------------------------ (* the results *)

LEMMA CockpitInit == Init => CockpitInv
<1> SUFFICES ASSUME Init PROVE CockpitInv
  OBVIOUS
<1> USE DEF Fresh
<1>1. /\ cmds = Empty /\ inbox = Empty /\ msgs = Empty /\ call = NoCall /\ cmd = NoCmd
      /\ answer = NoAnswer /\ snap = Empty /\ mode = Normal /\ serial = 0 /\ made = {}
      /\ pc = "pick"
  BY DEF Init
<1>2. HostOK
  <2>1. PICK guests \in SUBSET Names : Hosts(guests)
    BY DEF Init
  <2> DEFINE count == Cardinality(guests)
  <2>2. count \in Nat
    BY CockpitAssumption, FS_Subset, FS_CardinalityType
  <2>3. PICK name \in [1..count -> guests] :
          doms = [d \in 0..count |->
                   IF d = Dom0 THEN [name |-> "Domain-0", st |-> "running"]
                   ELSE [name |-> name[d], st |-> "running"]]
    BY <2>1 DEF Hosts, Bijection, Injection, Surjection
  <2> HIDE DEF count
  <2>4. \A d \in 0..count : d # Dom0 => name[d] \in Names
    BY <2>2, <2>3 DEF Dom0
  <2>5. doms \in [0..count -> Guests] /\ 0..count \in SUBSET Nat
    BY <2>2, <2>3, <2>4 DEF Guests
  <2>6. doms \in Views /\ DOMAIN doms = 0..count
    BY <2>5 DEF Views
  <2>7. next = count + 1
    BY <2>1 DEF Hosts, count
  <2> QED BY <1>1, <2>2, <2>6, <2>7 DEF HostOK
<1>3. QueuesOK
  <2>1. NoCall \in AllCalls /\ NoCmd \in [op : Ops \cup {"instance", "none"}, d : Nat, n : Nat]
    BY CockpitAssumption DEF NoCall, NoCmd, AllCalls, Dom0
  <2> QED BY <1>1, <2>1, NothingIn DEF QueuesOK, Answers
<1>4. ScreenOK
  BY <1>1, EmptyView DEF ScreenOK, Normal, Dom0
<1>5. Underway = {NoCall} /\ NoCall.op = "none" /\ Creates = {} /\ NoAnswer.k = "none"
  BY <1>1, NothingIn DEF Underway, NoCall, Creates, NoAnswer
<1>6. TargetsOK
  BY <1>5 DEF TargetsOK, Targeted
<1>7. CallOK /\ HeardOK /\ NumbersOK /\ NamesOK
  BY <1>1, <1>5, NothingIn DEF CallOK, HeardOK, NumbersOK, NamesOK
<1> QED BY <1>2, <1>3, <1>4, <1>6, <1>7 DEF CockpitInv

LEMMA CockpitStep ==
  ASSUME CockpitInv, [Next]_vars
  PROVE  CockpitInv'
<1>1. CASE Next
  <2>1. HostOK' /\ CallOK'
    BY <1>1, HostStep, CallStep DEF GoesOn, CallsKept
  <2> QED BY <1>1, <2>1, QueuesStep, ScreenStep, TargetsStep, HeardStep, NumbersStep, NamesStep
       DEF CockpitInv
<1>2. CASE UNCHANGED vars
  <2> USE DEF vars, libxl, daemon, wire, worker, screen, given
  <2>1. HostOK' /\ QueuesOK' /\ ScreenOK' /\ CallOK'
    BY <1>2 DEF CockpitInv, HostOK, QueuesOK, ScreenOK, CallOK
  <2>2. Underway' = Underway /\ Creates' = Creates
    BY <1>2 DEF Underway, Creates, Elements
  <2>3. TargetsOK'
    BY <1>2, <2>2 DEF CockpitInv, TargetsOK, Targeted
  <2>4. HeardOK' /\ NumbersOK' /\ NamesOK'
    BY <1>2, <2>2 DEF CockpitInv, HeardOK, Heard, NumbersOK, NamesOK
  <2> QED BY <2>1, <2>3, <2>4 DEF CockpitInv
<1> QED BY <1>1, <1>2

LEMMA CockpitInductive == Spec => []CockpitInv
  BY CockpitInit, CockpitStep, PTL DEF Spec

(* Whatever request is queued, at the daemon or being made -- also one sent *)
(* a second time, and the start that follows the create of an instance --   *)
(* is aimed at what was highlighted or asked about when its key was         *)
(* pressed, or at what the same command made; never at dom0.                *)
THEOREM TargetsAreChosen == Spec => []TargetsChosen
<1>1. CockpitInv => TargetsChosen
  BY DEF CockpitInv, TargetsOK, Targeted, TargetsChosen
<1> QED BY <1>1, CockpitInductive, PTL

(* A command makes a second domain only when the first has ended, although  *)
(* its request may be carried out twice: both go by one name, and libxl     *)
(* refuses a name in use.                                                   *)
THEOREM CommandsCreateOnce == Spec => CreatesOnce
<1> DEFINE Once == \A p \in made' \ made : \A q \in made : q[1] = p[1] => q[2] \notin DOMAIN doms
<1>1. CockpitInv /\ [Next]_vars => [Once]_vars
  <2> SUFFICES ASSUME CockpitInv, Next, NEW p \in made' \ made, NEW q \in made, q[1] = p[1],
                      q[2] \in DOMAIN doms
               PROVE  FALSE
    OBVIOUS
  <2>1. ASSUME NEW s \in Creates, p[1] = s.n, ~NameTaken(s.name) PROVE FALSE
    BY <2>1 DEF CockpitInv, NamesOK, NameTaken
  <2>2. ASSUME Take, p[1] = Head(cmds).n PROVE FALSE
    <3>1. q[1] < Head(cmds).n /\ q[1] \in Nat
      BY <2>2, Asked DEF CockpitInv, NumbersOK, HostOK, Take
    <3> QED BY <2>2, <3>1
  <2> QED BY <2>1, <2>2, MadeStep
<1>2. [][Once]_vars => CreatesOnce
  BY PTL DEF CreatesOnce
<1> QED BY <1>1, <1>2, CockpitInductive, PTL DEF Spec

---------------------------------------- (* the configuration for libxl *)

(* The parts are ten, none of them twice.                                  *)
LEMMA OrderFacts ==
    /\ Len(Order) = Last
    /\ \A j \in 1 .. Last : Order[j] \in Parts
    /\ \A i, j \in 1 .. Last : Order[i] = Order[j] => i = j
  BY DEF Order, Parts, Last

(* An array is open in its own stage only, and filled in order.            *)
OpenOK ==
    /\ open => stage <= Last /\ Order[stage] \in Arrays /\ elem <= Size[Order[stage]]
    /\ open /\ elem = Size[Order[stage]] => field = 1
    /\ ~open => elem = 0 /\ field = 1
    /\ outcome = "built" => ~open /\ stage = Last + 1

(* Every live object belongs to a part begun so far, and dispose reaches   *)
(* it: now, or once the open array is entered up to the element at hand.   *)
Placed(o) ==
    /\ \E j \in 1 .. Last : o.part = Order[j] /\ (j < stage \/ (j = stage /\ open))
    /\ \/ o \in Reached(num)
       \/ open /\ o.part = Order[stage]
    /\ open /\ o.part = Order[stage] =>
          o.field = 0 \/ o.elem < elem \/ (o.elem = elem /\ o.field < field)
    /\ o.elem \in Nat /\ o.field \in Nat

NothingLost ==
    /\ outcome \in {"building", "built"} => \A o \in mem : Placed(o)
    /\ outcome \in {"failed", "dropped"} => mem = {}

BuildInv == BuildTypes /\ OpenOK /\ NothingLost

LEMMA BuildInvInit == ASSUME Size \in [Parts -> Nat], BuildInit PROVE BuildInv
  <1>1. BuildTypes
    <2>1. open \in BOOLEAN
      BY DEF BuildInit
    <2> QED BY <2>1 DEF BuildInit, BuildTypes, Last
  <1>2. OpenOK /\ NothingLost
    BY DEF BuildInit, OpenOK, NothingLost, Last
  <1> QED BY <1>1, <1>2 DEF BuildInv

(* An open array's own part is the current one, and only the current one.  *)
LEMMA BuildInvNext == ASSUME Size \in [Parts -> Nat], BuildInv, [BuildNext]_buildVars PROVE BuildInv'
  <1> USE DEF BuildInv, Building, Part, NextPart, Last
  <1>0. /\ BuildTypes /\ OpenOK /\ NothingLost
        /\ Len(Order) = 10
        /\ \A j \in 1 .. 10 : Order[j] \in Parts
        /\ \A i, j \in 1 .. 10 : Order[i] = Order[j] => i = j
    BY OrderFacts
  <1> USE <1>0
  <1>1. CASE Skip
    <2>1. BuildTypes' /\ OpenOK'
      BY <1>1 DEF Skip, BuildTypes, OpenOK
    <2>2. ASSUME NEW o \in mem PROVE Placed(o)'
      BY <1>1, <2>1 DEF Skip, BuildTypes, NothingLost, Placed, Reached
    <2> QED BY <1>1, <2>1, <2>2 DEF Skip, NothingLost
  <1>2. CASE Direct
    <2>1. BuildTypes' /\ OpenOK' /\ ~open /\ ~open'
      BY <1>2 DEF Direct, BuildTypes, OpenOK
    <2>2. ASSUME NEW o \in mem' PROVE Placed(o)'
      <3>1. CASE o \in mem
        BY <1>2, <2>1, <3>1 DEF Direct, BuildTypes, NothingLost, Placed, Reached
      <3>2. CASE o = Object(Order[stage], 0, 0)
        BY <1>2, <2>1, <3>2 DEF Direct, BuildTypes, Placed, Reached, Object
      <3> QED BY <1>2, <3>1, <3>2 DEF Direct
    <2> QED BY <1>2, <2>1, <2>2 DEF Direct, NothingLost
  <1>3. CASE Calloc
    <2>1. BuildTypes' /\ OpenOK'
      <3>1. Size[Order[stage]] \in Nat
        BY <1>3 DEF Calloc, BuildTypes
      <3> QED BY <1>3, <3>1 DEF Calloc, BuildTypes, OpenOK
    <2>2. ASSUME NEW o \in mem' PROVE Placed(o)'
      <3>1. CASE o \in mem
        <4>1. PICK j \in 1 .. 10 : o.part = Order[j] /\ j < stage
          BY <1>3, <3>1 DEF Calloc, NothingLost, Placed
        <4>2. o.part # Order[stage] /\ Placed(o)
          BY <1>3, <3>1, <4>1 DEF Calloc, BuildTypes, NothingLost
        <4>3. o \in Reached(num) /\ o \in Reached(num)'
          BY <1>3, <3>1, <4>2 DEF Calloc, NothingLost, Placed, Reached
        <4> QED BY <1>3, <4>1, <4>2, <4>3 DEF Calloc, Placed
      <3>2. CASE o = Object(Order[stage], 0, 0)
        BY <1>3, <3>2 DEF Calloc, BuildTypes, Placed, Object
      <3> QED BY <1>3, <3>1, <3>2 DEF Calloc
    <2> QED BY <1>3, <2>1, <2>2 DEF Calloc, NothingLost
  <1>4. CASE Strdup
    <2>1. BuildTypes' /\ OpenOK'
      BY <1>4 DEF Strdup, BuildTypes, OpenOK
    <2>2. ASSUME NEW o \in mem' PROVE Placed(o)'
      <3>1. CASE o \in mem
        BY <1>4, <3>1 DEF Strdup, BuildTypes, NothingLost, Placed, Reached
      <3>2. CASE o = Object(Order[stage], elem, field)
        BY <1>4, <3>2 DEF Strdup, BuildTypes, Placed, Object
      <3> QED BY <1>4, <3>1, <3>2 DEF Strdup
    <2> QED BY <1>4, <2>1, <2>2 DEF Strdup, NothingLost
  <1>5. CASE NextElement
    <2>1. BuildTypes' /\ OpenOK'
      <3>1. Size[Order[stage]] \in Nat
        BY <1>5 DEF NextElement, BuildTypes
      <3> QED BY <1>5, <3>1 DEF NextElement, BuildTypes, OpenOK
    <2>2. ASSUME NEW o \in mem PROVE Placed(o)'
      <3>1. Placed(o)
        BY <1>5 DEF NextElement, NothingLost
      <3>2. o \in Reached(num)' <=> o \in Reached(num)
        BY <1>5 DEF NextElement, Reached
      <3>3. open' = open /\ stage' = stage /\ elem' = elem + 1
        BY <1>5 DEF NextElement
      <3>4. ASSUME o.part = Order[stage] PROVE o.field = 0 \/ o.elem < elem + 1
        BY <1>5, <3>1, <3>4 DEF NextElement, Placed, BuildTypes
      <3> QED BY <3>1, <3>2, <3>3, <3>4 DEF Placed
    <2> QED BY <1>5, <2>1, <2>2 DEF NextElement, NothingLost
  <1>6. CASE Enter
    <2>1. BuildTypes' /\ OpenOK'
      <3>1. Size[Order[stage]] \in Nat
        BY <1>6 DEF Enter, BuildTypes
      <3>2. num' \in [Arrays -> Int]
        BY <1>6, <3>1 DEF Enter, BuildTypes, OpenOK
      <3>3. stage' \in 1 .. 11
        BY <1>6 DEF Enter, BuildTypes
      <3>4. open' = FALSE /\ open' \in BOOLEAN
        BY <1>6 DEF Enter
      <3> QED BY <1>6, <3>2, <3>3, <3>4 DEF Enter, BuildTypes, OpenOK
    <2>2. ASSUME NEW o \in mem PROVE Placed(o)'
      <3>1. Placed(o) /\ open' = FALSE /\ stage' = stage + 1 /\ mem' = mem
        BY <1>6 DEF Enter, NothingLost
      <3>2. CASE o.part # Order[stage]
        <4>1. o \in Reached(num)
          BY <3>1, <3>2 DEF Placed
        <4>2. o \in Reached(num)'
          BY <1>6, <3>2, <4>1 DEF Enter, Reached, BuildTypes
        <4> QED BY <3>1, <3>2, <4>2 DEF Placed, BuildTypes
      <3>3. CASE o.part = Order[stage]
        <4>1. o.field = 0 \/ o.elem < elem
          BY <1>6, <3>1, <3>3 DEF Enter, Placed, OpenOK
        <4>2. num'[o.part] = elem /\ elem # -1 /\ Order[stage] \in Arrays
          BY <1>6, <3>3 DEF Enter, BuildTypes, OpenOK
        <4>3. o \in Reached(num)'
          BY <3>1, <3>3, <4>1, <4>2 DEF Reached
        <4>4. stage \in 1 .. 10 /\ stage < stage'
          BY <1>6, <3>1 DEF Enter, BuildTypes
        <4> QED BY <3>1, <3>3, <4>3, <4>4 DEF Placed
      <3> QED BY <3>2, <3>3
    <2> QED BY <1>6, <2>1, <2>2 DEF Enter, NothingLost
  <1>7. CASE AllocFails
    <2>1. \A o \in mem : o \in Reached(num)
      BY <1>7 DEF AllocFails, NothingLost, Placed
    <2> QED BY <1>7, <2>1 DEF AllocFails, BuildTypes, OpenOK, NothingLost
  <1>8. CASE StrdupFails
    <2>1. ASSUME NEW o \in mem PROVE o \in Reached(Partial)
      <3>1. Placed(o) /\ open /\ Order[stage] \in Arrays
        BY <1>8 DEF StrdupFails, NothingLost, OpenOK
      <3>2. CASE o.part # Order[stage]
        BY <3>1, <3>2 DEF Placed, Reached, Partial, BuildTypes
      <3>3. CASE o.part = Order[stage]
        <4>1. o.field = 0 \/ o.elem < elem + 1
          BY <3>1, <3>3 DEF Placed, BuildTypes
        <4>2. Partial[o.part] = elem + 1 /\ elem + 1 # -1
          BY <3>1, <3>3 DEF Partial, BuildTypes
        <4> QED BY <4>1, <4>2 DEF Reached
      <3> QED BY <3>2, <3>3
    <2>2. mem' = {}
      BY <1>8, <2>1 DEF StrdupFails
    <2>3. num' \in [Arrays -> Int]
      BY <1>8 DEF StrdupFails, Partial, BuildTypes, OpenOK
    <2> QED BY <1>8, <2>2, <2>3 DEF StrdupFails, BuildTypes, OpenOK, NothingLost
  <1>9. CASE Built
    BY <1>9 DEF Built, BuildTypes, OpenOK, NothingLost, Placed, Reached
  <1>10. CASE Drop
    <2>1. \A o \in mem : o \in Reached(num)
      BY <1>10 DEF Drop, OpenOK, NothingLost, Placed
    <2> QED BY <1>10, <2>1 DEF Drop, BuildTypes, OpenOK, NothingLost
  <1>11. CASE UNCHANGED buildVars
    BY <1>11 DEF buildVars, BuildTypes, OpenOK, NothingLost, Placed, Reached
  <1> QED BY <1>1, <1>2, <1>3, <1>4, <1>5, <1>6, <1>7, <1>8, <1>9, <1>10, <1>11 DEF BuildNext

(* Whichever of the allocations fails, and after every domain creation,    *)
(* nothing that was allocated for the configuration is left: each early    *)
(* return enters what it holds before it disposes.                         *)
THEOREM NoLeak == ASSUME Size \in [Parts -> Nat] PROVE BuildSpec => []NothingLeaks
  <1>1. BuildInit => BuildInv
    BY BuildInvInit
  <1>2. BuildInv /\ [BuildNext]_buildVars => BuildInv'
    BY BuildInvNext
  <1>3. BuildInv => NothingLeaks
    BY DEF BuildInv, NothingLost, NothingLeaks
  <1> QED BY <1>1, <1>2, <1>3, PTL DEF BuildSpec

(* The array at hand is filled in order.                                   *)
Filled ==
    /\ Object(Order[stage], 0, 0) \in mem
    /\ \A e \in 0 .. elem - 1, f \in 1 .. Strings(Order[stage]) :
          Object(Order[stage], e, f) \in mem
    /\ \A f \in 1 .. field - 1 : Object(Order[stage], elem, f) \in mem

WholeSoFar == outcome \in {"building", "built"} => Whole(stage) /\ (open => Filled)

LEMMA WholeNext ==
    ASSUME Size \in [Parts -> Nat], BuildInv, WholeSoFar, [BuildNext]_buildVars
    PROVE  WholeSoFar'
  <1> USE DEF Building, Part, NextPart, Last
  <1>0. /\ BuildTypes /\ OpenOK
        /\ Len(Order) = 10
        /\ \A j \in 1 .. 10 : Order[j] \in Parts
        /\ \A i, j \in 1 .. 10 : Order[i] = Order[j] => i = j
    BY OrderFacts DEF BuildInv
  <1> USE <1>0
  <1>1. CASE Skip
    <2>1. ASSUME NEW j \in 1 .. 10, j < stage' PROVE Stored(Order[j])'
      <3>1. CASE j = stage
        BY <1>1, <3>1 DEF Skip, Stored
      <3>2. CASE j < stage
        BY <1>1, <3>2 DEF Skip, WholeSoFar, Whole, Stored
      <3> QED BY <1>1, <2>1, <3>1, <3>2 DEF Skip, BuildTypes
    <2>2. Whole(stage)'
      BY <2>1 DEF Whole
    <2>3. open' = FALSE
      BY <1>1 DEF Skip, BuildTypes
    <2> QED BY <2>2, <2>3 DEF WholeSoFar
  <1>2. CASE Direct
    <2>1. ASSUME NEW j \in 1 .. 10, j < stage' PROVE Stored(Order[j])'
      <3>1. CASE j = stage
        BY <1>2, <3>1 DEF Direct, Stored
      <3>2. CASE j < stage
        BY <1>2, <3>2 DEF Direct, WholeSoFar, Whole, Stored
      <3> QED BY <1>2, <2>1, <3>1, <3>2 DEF Direct, BuildTypes
    <2>2. Whole(stage)'
      BY <2>1 DEF Whole
    <2>3. open' = FALSE
      BY <1>2 DEF Direct, BuildTypes, OpenOK
    <2> QED BY <2>2, <2>3 DEF WholeSoFar
  <1>3. CASE Calloc
    <2>1. Filled'
      BY <1>3 DEF Calloc, Filled, OpenOK
    <2>2. ASSUME NEW j \in 1 .. 10, j < stage PROVE Stored(Order[j])'
      BY <1>3, <2>2 DEF Calloc, WholeSoFar, Whole, Stored
    <2> QED BY <1>3, <2>1, <2>2 DEF Calloc, WholeSoFar, Whole
  <1>4. CASE Strdup
    <2>1. Filled
      BY <1>4 DEF Strdup, WholeSoFar
    <2>2. Filled'
      <3>1. \A f \in 1 .. field' - 1 : f = field \/ f \in 1 .. field - 1
        BY <1>4 DEF Strdup, BuildTypes
      <3> QED BY <1>4, <2>1, <3>1 DEF Strdup, Filled
    <2>3. ASSUME NEW j \in 1 .. 10, j < stage PROVE Stored(Order[j])'
      BY <1>4, <2>3 DEF Strdup, WholeSoFar, Whole, Stored
    <2> QED BY <1>4, <2>2, <2>3 DEF Strdup, WholeSoFar, Whole
  <1>5. CASE NextElement
    <2>1. Filled
      BY <1>5 DEF NextElement, WholeSoFar
    <2>2. Filled'
      <3>1. Strings(Order[stage]) \in Nat
        BY DEF Strings
      <3>2. \A f \in 1 .. Strings(Order[stage]) : f \in 1 .. field - 1
        BY <1>5, <3>1 DEF NextElement, BuildTypes
      <3>3. \A e \in 0 .. elem' - 1 : e = elem \/ e \in 0 .. elem - 1
        BY <1>5 DEF NextElement, BuildTypes
      <3> QED BY <1>5, <2>1, <3>2, <3>3 DEF NextElement, Filled
    <2>3. ASSUME NEW j \in 1 .. 10, j < stage PROVE Stored(Order[j])'
      BY <1>5, <2>3 DEF NextElement, WholeSoFar, Whole, Stored
    <2> QED BY <1>5, <2>2, <2>3 DEF NextElement, WholeSoFar, Whole
  <1>6. CASE Enter
    <2>1. Filled /\ Order[stage] \in Arrays
      BY <1>6 DEF Enter, WholeSoFar, OpenOK
    <2>2. ASSUME NEW j \in 1 .. 10, j < stage' PROVE Stored(Order[j])'
      <3>1. CASE j = stage
        <4>1. num'[Order[j]] = Size[Order[j]]
          BY <1>6, <2>1, <3>1 DEF Enter, BuildTypes
        <4> QED BY <1>6, <2>1, <3>1, <4>1 DEF Enter, Stored, Filled
      <3>2. CASE j < stage
        <4>1. Order[j] # Order[stage]
          BY <1>6, <3>2 DEF Enter, BuildTypes
        <4>2. Order[j] \in Arrays => num'[Order[j]] = num[Order[j]]
          BY <1>6, <4>1 DEF Enter, BuildTypes
        <4>3. Stored(Order[j]) /\ mem' = mem
          BY <1>6, <3>2 DEF Enter, WholeSoFar, Whole
        <4> QED BY <4>2, <4>3 DEF Stored
      <3> QED BY <1>6, <2>2, <3>1, <3>2 DEF Enter, BuildTypes
    <2>3. Whole(stage)'
      BY <2>2 DEF Whole
    <2>4. open' = FALSE
      BY <1>6 DEF Enter
    <2> QED BY <2>3, <2>4 DEF WholeSoFar
  <1>7. CASE AllocFails \/ StrdupFails \/ Drop
    BY <1>7 DEF AllocFails, StrdupFails, Drop, WholeSoFar
  <1>8. CASE Built
    <2>1. Whole(stage) /\ ~open
      <3>1. ~(stage <= Last)
        BY <1>8 DEF Built, BuildTypes
      <3>2. ~open
        BY <3>1 DEF OpenOK
      <3>3. outcome = "building"
        BY <1>8 DEF Built
      <3> QED BY <3>2, <3>3 DEF WholeSoFar
    <2>2. Whole(stage)'
      BY <1>8, <2>1 DEF Built, Whole, Stored
    <2> QED BY <1>8, <2>1, <2>2 DEF Built, WholeSoFar
  <1>9. CASE UNCHANGED buildVars
    BY <1>9 DEF buildVars, WholeSoFar, Whole, Stored, Filled
  <1> QED BY <1>1, <1>2, <1>3, <1>4, <1>5, <1>6, <1>7, <1>8, <1>9 DEF BuildNext

(* The configuration that libxl_domain_create_new is given holds every     *)
(* disk, NIC, display and PCI device of the plan, with all their strings.  *)
THEOREM WholePlanHanded == ASSUME Size \in [Parts -> Nat] PROVE BuildSpec => []HandedWhole
  <1>1. BuildInit => BuildInv /\ WholeSoFar
    <2>1. BuildInit => Whole(stage) /\ open = FALSE
      BY OrderFacts DEF BuildInit, Whole, Last
    <2> QED BY <2>1, BuildInvInit DEF WholeSoFar
  <1>2. BuildInv /\ WholeSoFar /\ [BuildNext]_buildVars => (BuildInv /\ WholeSoFar)'
    BY BuildInvNext, WholeNext
  <1>3. BuildInv /\ WholeSoFar => HandedWhole
    BY OrderFacts DEF BuildInv, OpenOK, WholeSoFar, HandedWhole
  <1> QED BY <1>1, <1>2, <1>3, PTL DEF BuildSpec

(* The manifest that a lift writes for the user's desktop passes the       *)
(* checks of the Xen backend, whatever the host's disk and GPU; with a     *)
(* hardware TPM asked for it never does, for no backend offers one.        *)
THEOREM DesktopIsValid ==
    ASSUME NEW disk, NEW gpu, NEW display, NEW tpm, NEW auto
    PROVE  ValidateAgainst(Desktop(disk, gpu, display, tpm, auto), XenCaps) =
               IF tpm = "hardware-passthrough" THEN {"hardware_tpm"} ELSE {}
  <1> DEFINE d == Desktop(disk, gpu, display, tpm, auto)
  <1>1. /\ d.resources.memory_minimum = 4096 /\ d.resources.memory_idle = 8192
        /\ d.resources.memory_active = 16384
        /\ d.resources.vcpus_minimum = 1 /\ d.resources.vcpus_idle = 4
        /\ d.resources.vcpus_active = 4
    BY DEF Desktop, DesktopMb, DesktopVcpus
  <1>2. /\ d.tpm = tpm /\ d.attestation_required = FALSE
        /\ d.suspend_after_idle = Nothing /\ d.usb.routes = << >>
    BY DEF Desktop
  <1>3. /\ XenCaps.hardware_tpm = FALSE /\ XenCaps.swtpm = TRUE
        /\ XenCaps.pci_at_boot = TRUE
    BY DEF XenCaps
  <1> HIDE DEF d
  <1>4. Disordered(d.resources) = {}
    BY <1>1 DEF Disordered
  <1>5. Unsupported(d, XenCaps) = IF tpm = "hardware-passthrough" THEN {"hardware_tpm"} ELSE {}
    BY <1>2, <1>3 DEF Unsupported
  <1> QED BY <1>4, <1>5 DEF ValidateAgainst, d

(* The visible-debug manifest does what its name says: the plan made of it *)
(* has a framebuffer of its own and takes no device from the host; the     *)
(* other one takes the GPU, and the audio goes with it.                    *)
THEOREM VisibleDesktop ==
    ASSUME NEW disk, NEW gpu, NEW tpm, NEW auto, NEW linux, NEW bridges, gpu # Nothing
    PROVE  LET debug == Desktop(disk, gpu, "paravirt_only", tpm, auto)
               daily == Desktop(disk, gpu, "passthrough_if_available", tpm, auto)
               Planned(p) == Plan(p, SelectMode(p, linux), bridges)
           IN  /\ Planned(debug).display # "none" /\ Planned(debug).pci = << >>
               /\ debug.audio = "paravirt"
               /\ Planned(daily).display = "none" /\ Planned(daily).pci = <<gpu>>
               /\ daily.audio = "passthrough"
  <1> DEFINE debug == Desktop(disk, gpu, "paravirt_only", tpm, auto)
             daily == Desktop(disk, gpu, "passthrough_if_available", tpm, auto)
             Planned(p) == Plan(p, SelectMode(p, linux), bridges)
  <1>1. debug.gpu.mode = "paravirt" /\ debug.audio = "paravirt"
    BY DEF Desktop, DesktopGpu
  <1>2. daily.gpu.mode = "passthrough" /\ daily.gpu.device = gpu /\ daily.audio = "passthrough"
    BY DEF Desktop, DesktopGpu
  <1> HIDE DEF debug, daily
  <1>3. ASSUME NEW p
        PROVE  /\ Planned(p).display = PickDisplay(p, SelectMode(p, linux))
               /\ Planned(p).pci = IF p.gpu.mode = "passthrough" THEN <<p.gpu.device>> ELSE << >>
    BY DEF Plan
  <1>4. Planned(debug).display # "none" /\ Planned(debug).pci = << >>
    <2>1. PickDisplay(debug, SelectMode(debug, linux)) # "none"
      BY <1>1 DEF PickDisplay
    <2> QED BY <1>1, <1>3, <2>1
  <1>5. Planned(daily).display = "none" /\ Planned(daily).pci = <<gpu>>
    <2>1. PickDisplay(daily, SelectMode(daily, linux)) = "none"
      BY <1>2 DEF PickDisplay
    <2> QED BY <1>2, <1>3, <2>1
  <1> QED BY <1>1, <1>2, <1>4, <1>5 DEF debug, daily

(* Dom0's own manifest passes for a guest: the checks accept it, and so    *)
(* does the plan, which gives a guest /dev/ram0 for a disk. Nothing tells  *)
(* it from a desktop's when it is read from the default path.              *)
THEOREM Dom0ManifestIsAccepted ==
    ASSUME NEW bdfs
    PROVE  ValidateAgainst(Dom0Manifest, XenCaps) = {} /\ ~PlanRefused(Dom0Manifest, bdfs)
  <1> DEFINE d == Dom0Manifest
  <1>1. /\ d.resources.memory_minimum = 768 /\ d.resources.memory_idle = 1024
        /\ d.resources.memory_active = 2048
        /\ d.resources.vcpus_minimum = 1 /\ d.resources.vcpus_idle = 1
        /\ d.resources.vcpus_active = 2
    BY DEF Dom0Manifest
  <1>2. /\ d.tpm = "none" /\ d.attestation_required = FALSE /\ d.gpu.mode = "none"
        /\ d.suspend_after_idle = Nothing /\ d.usb.routes = << >> /\ d.extra_disks = << >>
        /\ d.root.source = [prefix |-> "", path |-> "/dev/ram0"]
    BY DEF Dom0Manifest
  <1> HIDE DEF d
  <1>3. Disordered(d.resources) = {}
    BY <1>1 DEF Disordered
  <1>4. Unsupported(d, XenCaps) = {}
    BY <1>2 DEF Unsupported
  <1>5. ~PlanRefused(d, bdfs)
    <2>1. ASSUME NEW x PROVE \A i \in 1 .. Len(<<x>> \o << >>) : (<<x>> \o << >>)[i] = x
      OBVIOUS
    <2>2. \A i \in 1 .. Len(Disks(d)) : Disks(d)[i] = d.root
      BY <1>2, <2>1 DEF Disks
    <2>3. At(d.root) # Nothing
      <3>1. "path" \in DOMAIN d.root.source /\ "path" \notin DOMAIN Nothing
        BY <1>2 DEF Nothing
      <3> QED BY <3>1 DEF At
    <2> QED BY <1>2, <2>2, <2>3 DEF PlanRefused
  <1> QED BY <1>3, <1>4, <1>5 DEF ValidateAgainst, d

================================================================================
