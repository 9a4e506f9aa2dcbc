------------------------------- MODULE Cockpit -------------------------------
(***************************************************************************)
(* The active cockpit: the thread that draws and reads keys, the worker    *)
(* thread it sends commands to, the connection of the worker to            *)
(* orchestratord, and the domains of the host                              *)
(* (cockpit/src/lib.rs, cockpit/src/daemon_client.rs).                     *)
(*                                                                         *)
(* The two threads share nothing but two channels: commands one way,       *)
(* snapshots and events the other.  What the user sees is therefore always *)
(* somewhat old, the worker's list older still, and a call whose answer is *)
(* lost with the connection is made a second time, although the daemon may *)
(* have carried out the first.  Other clients of the host create and end   *)
(* guests at any moment.                                                   *)
(*                                                                         *)
(* Memory targets (BalloonPrompt), the overlays that hold no domain, the   *)
(* drawing and the wording of events are left out.                         *)
(***************************************************************************)
EXTENDS Naturals, Sequences, FiniteSets, Functions

CONSTANTS
    Names,      \* the names of guests
    Manifest,   \* the name in the cockpit's own manifest
    Instance,   \* the name typed into the form of [n]
    MaxDomid,   \* bound: domids handed out
    MaxSerial,  \* bound: commands after which no key is pressed
    MaxWaiting, \* bound: messages waiting in a channel
    MaxUpsets   \* bound: what others do to the guests, and what goes wrong

ASSUME CockpitAssumption ==
    /\ Manifest \in Names /\ Instance \in Names /\ IsFiniteSet(Names)
    /\ {MaxDomid, MaxSerial, MaxWaiting, MaxUpsets} \subseteq Nat

VARIABLES
    doms,      \* libxl: domid -> name and state of a domain
    next,      \* libxl: the next domid; none is used twice
    registry,  \* the instances whose disk and manifest exist
    up,        \* orchestratord is running
    inbox,     \* the requests its actor has yet to serve
    linked,    \* the worker's connection holds
    answer,    \* the answer lying on that connection, if any
    strategy,  \* "none", "daemon", "direct" or "rejecting"
    pc,        \* where the worker stands
    cmd,       \* the command it carries out
    call,      \* the call it makes
    cmds,      \* channel: commands to the worker
    msgs,      \* channel: snapshots and reports to the screen
    snap,      \* the snapshot on the screen
    sel,       \* the index of the highlighted row
    mode,      \* the overlay, with the domain it was opened for
    ready,     \* backend_name is set
    autostart, \* "off", "armed", "fired" or "skipped"
    quit,      \* the user has left
    serial,    \* history: commands given
    chosen,    \* history: what the user chose, command by command
    made,      \* history: the domains each command made
    reported,  \* history: the commands the screen has reported on
    upsets     \* bookkeeping for MaxUpsets

libxl  == <<doms, next, made>>
daemon == <<up, inbox>>
wire   == <<linked, answer>>
worker == <<strategy, pc, cmd, call, registry>>
screen == <<snap, sel, mode, ready, autostart, quit, reported>>
given  == <<serial, chosen>>
vars == <<libxl, daemon, wire, worker, cmds, msgs, screen, given, upsets>>

Dom0 == 0
Empty == <<>>        \* the function and the list with nothing in it
Normal == [k |-> "normal", d |-> Dom0]
NoAnswer == [k |-> "none"]
NoCmd == [op |-> "none", d |-> Dom0, n |-> 0]
NoCall == [op |-> "none", d |-> Dom0, name |-> Manifest, n |-> 0, try |-> 1]

Upset == upsets < MaxUpsets /\ upsets' = upsets + 1
Without(f, d) == [e \in DOMAIN f \ {d} |-> f[e]]
Added(f, d, v) == [e \in DOMAIN f \cup {d} |-> IF e = d THEN v ELSE f[e]]

NeverTaken(name) == FALSE \* mutant: a second domain of a name is let in
NameTaken(name) == \E d \in DOMAIN doms : doms[d].name = name

-----------------------------------------------------------------------------
(* libxl, behind the daemon's actor or opened by the worker itself         *)

Made(n, name) ==
    /\ doms' = Added(doms, next, [name |-> name, st |-> "paused"])
    /\ next' = next + 1
    /\ made' = made \cup {<<n, next>>}

\* The operation of request r succeeds.  A created domain is left paused, a
\* shutdown is only asked for, and libxl refuses a name that is in use.
Done(r) ==
    CASE r.op = "create" -> ~NameTaken(r.name) /\ next <= MaxDomid /\ Made(r.n, r.name)
      [] r.op = "start" -> /\ r.d \in DOMAIN doms
                           /\ doms' = [doms EXCEPT ![r.d].st = "running"]
                           /\ UNCHANGED <<next, made>>
      [] r.op = "destroy" -> /\ r.d \in DOMAIN doms
                             /\ doms' = Without(doms, r.d)
                             /\ UNCHANGED <<next, made>>
      [] r.op = "shutdown" -> r.d \in DOMAIN doms /\ UNCHANGED libxl
      [] OTHER -> UNCHANGED libxl

\* It fails because of what it asks for (no domid is left beyond the bound), or
\* for another reason.
Refused(r) ==
    /\ CASE r.op = "create" -> NameTaken(r.name) \/ next > MaxDomid
         [] r.op \in {"start", "destroy", "shutdown"} -> r.d \notin DOMAIN doms
         [] OTHER -> FALSE
    /\ UNCHANGED <<libxl, upsets>>
Breaks == Upset /\ UNCHANGED libxl

\* create answers with the new domid.
Answer(r) == [k |-> "ok", d |-> IF r.op = "create" THEN next ELSE Dom0]

\* backend.list: a call that fails reads as a host without domains.
Lists(v) == (v = doms /\ UNCHANGED upsets) \/ (v = Empty /\ Upset)

\* A guest ends, or another client ends or makes one.
GuestEnds(d) ==
    /\ Upset /\ d \in DOMAIN doms \ {Dom0}
    /\ doms' = Without(doms, d)
    /\ UNCHANGED <<next, made, daemon, wire, worker, cmds, msgs, screen, given>>

OtherCreates(name) ==
    /\ Upset /\ ~NameTaken(name) /\ next <= MaxDomid
    /\ doms' = Added(doms, next, [name |-> name, st |-> "running"])
    /\ next' = next + 1
    /\ UNCHANGED <<made, daemon, wire, worker, cmds, msgs, screen, given>>

-----------------------------------------------------------------------------
(* orchestratord as the worker meets it                                    *)

\* The actor serves its oldest request; the answer goes to the connection
\* the request came on, if that one still holds.
Serve ==
    /\ up /\ inbox # Empty
    /\ LET r == Head(inbox)
           Replies(a) == answer' = IF r.heard THEN a ELSE answer
       IN  \/ Done(r) /\ Replies(Answer(r)) /\ UNCHANGED upsets
           \/ Refused(r) /\ Replies([k |-> "err"])
           \/ Breaks /\ Replies([k |-> "err"])
    /\ inbox' = Tail(inbox)
    /\ UNCHANGED <<up, linked, worker, cmds, msgs, screen, given>>

Unheard == [i \in DOMAIN inbox |-> [inbox[i] EXCEPT !.heard = FALSE]]

\* The connection is lost; what waits at the actor is still carried out.
Cut ==
    /\ Upset /\ linked /\ linked' = FALSE
    /\ inbox' = Unheard
    /\ UNCHANGED <<libxl, up, answer, worker, cmds, msgs, screen, given>>

\* The daemon dies with its queue; the service manager starts it again.
Crash ==
    /\ Upset /\ up /\ up' = FALSE
    /\ inbox' = Empty /\ linked' = FALSE
    /\ UNCHANGED <<libxl, answer, worker, cmds, msgs, screen, given>>

Restart ==
    /\ ~up /\ up' = TRUE
    /\ UNCHANGED <<libxl, inbox, wire, worker, cmds, msgs, screen, given, upsets>>

-----------------------------------------------------------------------------
(* The worker                                                              *)

\* Once the user has left nobody takes messages any more.
Send(m) == IF quit THEN UNCHANGED msgs
           ELSE Len(msgs) < MaxWaiting /\ msgs' = Append(msgs, m)
Report(n) == Send([k |-> "event", n |-> n])
Connected == linked' = TRUE /\ answer' = NoAnswer

\* pick_worker_strategy: ten seconds for a daemon with a usable backend, then
\* libxl in this process, for good.
PickDaemon ==
    /\ pc = "pick" /\ up
    /\ strategy' = "daemon" /\ pc' = "announce" /\ Connected
    /\ UNCHANGED <<libxl, daemon, cmd, call, registry, cmds, msgs, screen, given, upsets>>

PickDirect ==
    /\ pc = "pick" /\ ~up
    /\ \/ strategy' = "direct" /\ pc' = "announce" /\ UNCHANGED upsets
       \/ strategy' = "rejecting" /\ pc' = "idle" /\ Upset
    /\ UNCHANGED <<libxl, daemon, wire, cmd, call, registry, cmds, msgs, screen, given>>

\* BackendReady is sent whether or not host.info answers.
Announce ==
    /\ pc = "announce" /\ Send([k |-> "ready"]) /\ pc' = "poll"
    /\ UNCHANGED <<libxl, daemon, wire, strategy, cmd, call, registry,
                   cmds, screen, given, upsets>>

Calls(op, d, name, n) ==
    /\ call' = [op |-> op, d |-> d, name |-> name, n |-> n, try |-> 1]
    /\ pc' = "send"

\* DaemonClient::call writes the request; a dead connection is an I/O error.
SendRequest ==
    /\ pc = "send" /\ linked /\ call.op # "list"
    /\ inbox' = Append(inbox, [op |-> call.op, d |-> call.d, name |-> call.name,
                               n |-> call.n, heard |-> TRUE])
    /\ pc' = "await"
    /\ UNCHANGED <<libxl, up, wire, strategy, cmd, call, registry,
                   cmds, msgs, screen, given, upsets>>

\* mutant: a call that fails for good is forgotten
AfterSilence(a) ==
    /\ IF call.op = "list" THEN pc' = "idle" ELSE pc' = "poll"
    /\ IF a.k = "err" THEN UNCHANGED msgs ELSE Report(cmd.n)
    /\ cmd' = NoCmd /\ call' = NoCall

\* What follows an answer, or the failure of both attempts (err).
\* create_instance_then_start goes on to start what it created.
After(a) ==
    IF cmd.op = "instance" /\ call.op = "create" /\ a.k = "ok"
    THEN Calls("start", a.d, Instance, cmd.n) /\ UNCHANGED <<cmd, msgs>>
    ELSE /\ IF call.op = "list" THEN pc' = "idle" /\ UNCHANGED msgs
                                ELSE pc' = "poll" /\ Report(cmd.n)
         /\ cmd' = NoCmd /\ call' = NoCall

Receive ==
    /\ pc = "await" /\ answer.k # "none"
    /\ After(answer)
    /\ answer' = NoAnswer
    /\ UNCHANGED <<libxl, daemon, linked, strategy, registry, cmds, screen, given, upsets>>

IoError == /\ pc = "send" \/ (pc = "await" /\ answer.k = "none")
           /\ ~linked

\* mutant: the second attempt uses the connection there is
SameLine ==
    /\ IoError /\ call.try = 1 /\ up /\ call' = [call EXCEPT !.try = 2] /\ pc' = "send"
    /\ UNCHANGED <<libxl, daemon, wire, strategy, cmd, registry, cmds, msgs, screen, given, upsets>>

\* An I/O error of the first attempt: a new connection, announced, and the
\* same request once more.
Reconnect ==
    /\ IoError /\ call.try = 1 /\ up
    /\ Connected /\ Send([k |-> "ready"])
    /\ call' = [call EXCEPT !.try = 2]
    /\ pc' = "send"
    /\ UNCHANGED <<libxl, daemon, strategy, cmd, registry, cmds, screen, given, upsets>>

\* Nobody listens, or the handshake takes more than five seconds; or it was
\* the second attempt.  The old connection is kept, broken as it is.
GiveUp ==
    /\ IoError
    /\ \/ call.try = 2 /\ UNCHANGED upsets
       \/ call.try = 1 /\ ~up /\ UNCHANGED upsets
       \/ call.try = 1 /\ up /\ Upset
    /\ After([k |-> "err"])
    /\ UNCHANGED <<libxl, daemon, wire, strategy, registry, cmds, screen, given>>

\* A poll is due after every command, and otherwise every second, until the
\* worker finds Shutdown behind the last command.
Due == pc = "poll" \/ (pc = "idle" /\ cmds = Empty /\ ~quit)

\* push_snapshot_daemon.  A list changes nothing: the actor's queue before it,
\* the list itself and the snapshot sent are one step, which may come late.
Poll ==
    /\ strategy = "daemon" /\ Due /\ Calls("list", Dom0, Manifest, 0)
    /\ UNCHANGED <<libxl, daemon, wire, strategy, cmd, registry, cmds, msgs, screen, given, upsets>>

List ==
    /\ pc = "send" /\ linked /\ call.op = "list" /\ up /\ inbox = Empty
    /\ \/ \E v \in {doms, Empty} : Lists(v) /\ Send([k |-> "snapshot", v |-> v])
       \/ Upset /\ UNCHANGED msgs \* an error for an answer leaves the screen as it is
    /\ pc' = "idle" /\ call' = NoCall
    /\ UNCHANGED <<libxl, daemon, wire, strategy, cmd, registry, cmds, screen, given>>

\* push_snapshot: the same of libxl in this process.
PollDirect ==
    /\ strategy = "direct" /\ Due
    /\ \E v \in {doms, Empty} : Lists(v) /\ Send([k |-> "snapshot", v |-> v])
    /\ pc' = "idle"
    /\ UNCHANGED <<libxl, daemon, wire, strategy, cmd, call, registry, cmds, screen, given>>

Take == pc = "idle" /\ cmds # Empty /\ cmds' = Tail(cmds)

\* dispatch_daemon
Dispatch ==
    /\ strategy = "daemon" /\ Take
    /\ LET c == Head(cmds)
       IN  /\ cmd' = c
           /\ Calls(c.op, c.d, Manifest, c.n)
           /\ c.op # "instance"
    /\ UNCHANGED <<libxl, daemon, wire, strategy, registry, msgs, screen, given, upsets>>

\* The form of [n]: overlay and manifest first, then the daemon.
DispatchInstance ==
    /\ strategy = "daemon" /\ Take /\ Head(cmds).op = "instance"
    /\ LET c == Head(cmds)
       IN  \/ /\ Instance \notin registry
              /\ registry' = registry \cup {Instance}
              /\ cmd' = c /\ Calls("create", Dom0, Instance, c.n)
              /\ UNCHANGED <<msgs, upsets>>
           \/ /\ \/ Instance \in registry /\ UNCHANGED upsets
                 \/ Instance \notin registry /\ Upset
              /\ Report(c.n) /\ pc' = "poll"
              /\ UNCHANGED <<registry, cmd, call>>
    /\ UNCHANGED <<libxl, daemon, wire, strategy, screen, given>>

\* dispatch: the operation itself, in this thread; no instances.
DispatchDirect ==
    /\ strategy = "direct" /\ Take /\ Report(Head(cmds).n) /\ pc' = "poll"
    /\ LET c == Head(cmds)
           r == [op |-> c.op, d |-> c.d, name |-> Manifest, n |-> c.n]
       IN  \/ r.op # "instance" /\ Done(r) /\ UNCHANGED upsets
           \/ r.op # "instance" /\ Refused(r)
           \/ r.op # "instance" /\ Breaks
           \/ r.op = "instance" /\ UNCHANGED <<libxl, upsets>>
    /\ UNCHANGED <<daemon, wire, strategy, cmd, call, registry, screen, given>>

\* Without a backend every command is answered with an error.
Reject ==
    /\ strategy = "rejecting" /\ Take /\ Report(Head(cmds).n)
    /\ UNCHANGED <<libxl, daemon, wire, worker, screen, given, upsets>>

-----------------------------------------------------------------------------
(* The screen                                                              *)

\* State::apply: the index stays, cut to the length of the new list.
Apply ==
    /\ ~quit /\ msgs # Empty /\ msgs' = Tail(msgs)
    /\ LET m == Head(msgs)
       IN  CASE m.k = "ready" -> ready' = TRUE /\ UNCHANGED <<snap, sel, reported>>
             [] m.k = "event" -> reported' = reported \cup {m.n} /\ UNCHANGED <<snap, sel, ready>>
             [] OTHER -> /\ snap' = m.v
                         /\ LET rows == Cardinality(DOMAIN m.v)
                            IN  sel' = IF sel < rows THEN sel ELSE IF rows = 0 THEN 0 ELSE rows - 1
                         /\ UNCHANGED <<ready, reported>>
    /\ UNCHANGED <<libxl, daemon, wire, worker, cmds, mode, autostart, quit, given, upsets>>

\* The row at the index: lists are in the order of the domids.
Highlighted ==
    CHOOSE d \in DOMAIN snap : Cardinality({e \in DOMAIN snap : e < d}) = sel
Selects(d) == snap # Empty /\ d = Highlighted

\* The n-th command is given; on the screen it looked like `shown`.
Gives(c, shown) ==
    /\ Len(cmds) < MaxWaiting
    /\ serial' = serial + 1
    /\ cmds' = Append(cmds, [op |-> c.op, d |-> c.d, n |-> serial + 1])
    /\ chosen' = chosen \cup {[op |-> shown.op, d |-> shown.d, n |-> serial + 1]}

AutostartGoesOn == UNCHANGED <<libxl, daemon, wire, worker, msgs, snap, sel, mode, ready, quit,
                               reported, upsets>>

\* mutant: a backend that is late costs the user the guest
OneChance ==
    /\ ~quit /\ autostart = "armed" /\ AutostartGoesOn
    /\ IF ready THEN autostart' = "skipped" ELSE autostart' = "off"
    /\ UNCHANGED <<cmds, given>>

\* The countdown is over.  Without a backend it is put off by a second, and a
\* guest of that name in the snapshot makes it a no-op.
AutostartDue ==
    /\ ~quit /\ autostart = "armed" /\ ready /\ AutostartGoesOn
    /\ LET running == \E d \in DOMAIN snap : snap[d].name = Manifest
           c == [op |-> "create", d |-> Dom0]
       IN  IF running THEN autostart' = "skipped" /\ UNCHANGED <<cmds, given>>
           ELSE autostart' = "fired" /\ Gives(c, [c EXCEPT !.op = "autostart"])

Keyed ==
    /\ ~quit /\ serial < MaxSerial + (IF autostart = "fired" THEN 1 ELSE 0)
    /\ UNCHANGED <<libxl, daemon, wire, worker, msgs, snap, ready, autostart, quit, reported, upsets>>

\* The host itself is not for starting, stopping or killing.
IsDom0(d) == d = Dom0

KeyMove ==
    /\ Keyed /\ mode = Normal /\ snap # Empty
    /\ LET rows == Cardinality(DOMAIN snap)
       IN  sel' \in {(sel + 1) % rows, (sel + rows - 1) % rows}
    /\ UNCHANGED <<mode, cmds, given>>

KeyStart(d) ==
    /\ Keyed /\ mode = Normal /\ Selects(d)
    /\ ~IsDom0(d) /\ snap[d].st # "running"
    /\ LET c == [op |-> "start", d |-> d] IN Gives(c, c)
    /\ UNCHANGED <<sel, mode>>

KeyShutdown(d) ==
    /\ Keyed /\ mode = Normal /\ Selects(d) /\ ~IsDom0(d)
    /\ LET c == [op |-> "shutdown", d |-> d] IN Gives(c, c)
    /\ UNCHANGED <<sel, mode>>

KeyKill(d) ==
    /\ Keyed /\ mode = Normal /\ Selects(d) /\ ~IsDom0(d)
    /\ mode' = [k |-> "kill", d |-> d]
    /\ UNCHANGED <<sel, cmds, given>>

\* [y] acts on the domain the question was asked about.
FromTheRow(asked) == IF snap = Empty THEN asked ELSE Highlighted \* mutant: the row as it is now
Confirmed(asked) == asked
KeyYes ==
    /\ Keyed /\ mode.k = "kill"
    /\ Gives([op |-> "destroy", d |-> Confirmed(mode.d)], [op |-> "destroy", d |-> mode.d])
    /\ mode' = Normal
    /\ UNCHANGED sel

\* Any other key, Esc among them, closes the overlay and nothing else.
KeyOther ==
    /\ Keyed /\ mode # Normal /\ mode' = Normal
    /\ UNCHANGED <<sel, cmds, given>>

KeyCreate ==
    /\ Keyed /\ mode = Normal
    /\ \E op \in {"create", "instance"} : LET c == [op |-> op, d |-> Dom0] IN Gives(c, c)
    /\ UNCHANGED <<sel, mode>>

\* The process ends without waiting for the worker: of what is queued only
\* that is carried out which is at the daemon.
ProcessEnds ==
    /\ pc' = "gone" /\ cmd' = NoCmd /\ call' = NoCall /\ cmds' = Empty /\ msgs' = Empty
    /\ linked' = FALSE /\ inbox' = Unheard /\ answer' = NoAnswer

UserLeaves ==
    /\ ~quit /\ mode = Normal /\ quit' = TRUE
    /\ reported' = 1..serial \* nobody waits for them any more
    /\ UNCHANGED <<libxl, up, strategy, registry, snap, sel, mode, ready, autostart,
                   given, upsets>>

\* [q] and Ctrl-c
KeyQuit == UserLeaves /\ ProcessEnds

\* [t] on a guest: the process waits for `xl console`, and the worker meanwhile
\* carries out the commands that came before Shutdown.
KeyAttach(d) ==
    /\ UserLeaves /\ Selects(d) /\ ~IsDom0(d)
    /\ msgs' = Empty
    /\ UNCHANGED <<linked, inbox, answer, pc, cmd, call, cmds>>

\* The console is left, or `xl` was not found: a new process takes the place of
\* this one, however far the worker is.
ConsoleEnds ==
    /\ quit /\ pc # "gone" /\ ProcessEnds
    /\ UNCHANGED <<libxl, up, strategy, registry, screen, given, upsets>>

Fresh ==
    /\ linked = FALSE /\ answer = NoAnswer
    /\ strategy = "none" /\ pc = "pick" /\ cmd = NoCmd /\ call = NoCall
    /\ cmds = Empty /\ msgs = Empty
    /\ snap = Empty /\ sel = 0 /\ mode = Normal /\ ready = FALSE /\ quit = FALSE

\* Back from the console of a guest, or started anew: nothing of the old
\* process is left but what the daemon still has to do.
Relaunch ==
    /\ quit /\ pc = "gone" /\ Upset
    /\ strategy' = "none" /\ pc' = "pick"
    /\ UNCHANGED <<wire, cmd, call, cmds, msgs>>
    /\ snap' = Empty /\ sel' = 0 /\ mode' = Normal /\ ready' = FALSE /\ quit' = FALSE
    /\ autostart' \in {"off", "armed"}
    /\ UNCHANGED <<libxl, daemon, registry, reported, given>>

-----------------------------------------------------------------------------
\* dom0 and the guests others have started before, one domid after the other.
Hosts(guests) ==
    /\ next = Cardinality(guests) + 1
    /\ \E name \in Bijection(1..Cardinality(guests), guests) :
        doms = [d \in 0..Cardinality(guests) |->
                   IF d = Dom0 THEN [name |-> "Domain-0", st |-> "running"]
                   ELSE [name |-> name[d], st |-> "running"]]

Init ==
    /\ \E guests \in SUBSET Names : Hosts(guests)
    /\ registry = {} /\ up \in BOOLEAN /\ inbox = Empty
    /\ Fresh /\ autostart \in {"off", "armed"}
    /\ serial = 0 /\ chosen = {} /\ made = {} /\ reported = {} /\ upsets = 0

Worker ==
    \/ PickDaemon \/ PickDirect \/ Announce \/ SendRequest \/ Receive \/ Reconnect
    \/ GiveUp \/ Poll \/ List \/ PollDirect \/ Dispatch \/ DispatchInstance \/ DispatchDirect \/ Reject

Keys ==
    \/ KeyMove \/ KeyYes \/ KeyOther \/ KeyCreate \/ KeyQuit
    \/ \E d \in DOMAIN snap : KeyStart(d) \/ KeyShutdown(d) \/ KeyKill(d) \/ KeyAttach(d)

World ==
    \/ Cut \/ Crash \/ ConsoleEnds \/ Relaunch
    \/ \E d \in DOMAIN doms : GuestEnds(d)
    \/ \E name \in Names : OtherCreates(name)

Next == Worker \/ Keys \/ World \/ Serve \/ Restart \/ Apply \/ AutostartDue

\* The threads run, the service manager restarts the daemon, and the countdown
\* comes to its end.  No fairness of the user, the guests or of upsets.
Fairness ==
    /\ WF_vars(Worker) /\ WF_vars(Serve) /\ WF_vars(Restart)
    /\ WF_vars(Apply) /\ WF_vars(AutostartDue)

Spec == Init /\ [][Next]_vars /\ Fairness

-----------------------------------------------------------------------------
(* Properties                                                              *)

\* The type of the state: lists of domains are functions on domids handed out, and
\* a connection that is broken, or a process that has ended, waits for nobody.
Domains(v) == /\ DOMAIN v \subseteq 0..MaxDomid
              /\ \A d \in DOMAIN v : v[d].name \in Names \cup {"Domain-0"} /\ v[d].st \in {"paused", "running"}
TypeOK ==
    /\ Domains(doms) /\ Domains(snap) /\ next \in 1..MaxDomid + 1
    /\ registry \subseteq {Instance} /\ {up, linked, ready, quit} \subseteq BOOLEAN
    /\ strategy \in {"none", "daemon", "direct", "rejecting"}
    /\ pc \in {"pick", "announce", "poll", "idle", "send", "await", "gone"}
    /\ answer.k \in {"none", "ok", "err"} /\ call.try \in 1..2
    /\ sel \in Nat /\ (snap # Empty => sel < Cardinality(DOMAIN snap))
    /\ mode.k \in {"normal", "kill"} /\ autostart \in {"off", "armed", "fired", "skipped"}
    /\ reported \subseteq 1..serial /\ upsets \in 0..MaxUpsets
    /\ Len(cmds) <= MaxWaiting /\ Len(msgs) <= MaxWaiting

\* The requests on their way to libxl, wherever they are.
Elements(q) == {q[i] : i \in DOMAIN q}
Underway == Elements(cmds) \cup Elements(inbox) \cup {call}

\* Whatever is started, shut down or killed is the guest that was highlighted
\* or asked about when the key was pressed, or the one the same command has
\* made, and never dom0: lists shift under the highlighted row, a question
\* stays open meanwhile, a request waits, and is sent twice.
TargetsChosen ==
    \A r \in Underway : r.op \in {"start", "shutdown", "destroy"} =>
        /\ r.d # Dom0
        /\ \/ [op |-> r.op, d |-> r.d, n |-> r.n] \in chosen
           \/ r.op = "start" /\ <<r.n, r.d>> \in made

\* A command whose answer is lost is sent again, and may make a second domain
\* only when the first it made has ended.
CreatesOnce ==
    [][\A p \in made' \ made : \A q \in made : q[1] = p[1] => q[2] \notin DOMAIN doms]_vars

\* Every command is reported on, done or failed, while the cockpit is open.
CommandsReported ==
    <>[](quit \/ \A c \in chosen : c.n \in reported)

\* When the host comes to rest the screen shows it as it is, whatever was cut,
\* crashed or failed before.
ViewConverges == <>[](quit \/ strategy = "rejecting" \/ snap = doms)

\* An armed countdown is not lost to a backend that is late: it fires, or finds
\* the guest in the list.
AutostartNotLost ==
    autostart = "armed" ~> autostart \in {"fired", "skipped"} \/ quit \/ strategy = "rejecting"

\* "~5 sec banner -> guest auto-spawns without keypress" (lib.rs:1854): the guest
\* that autostart has made runs in the end, unless it is ended.  It does not: the
\* countdown sends domain.create alone, which leaves the domain paused.
Autostarted(d) ==
    /\ d \in DOMAIN doms
    /\ \E c \in chosen : c.op = "autostart" /\ <<c.n, d>> \in made
AutostartRuns ==
    \A d \in 1..MaxDomid :
        <>[]Autostarted(d) => []<>(d \in DOMAIN doms /\ doms[d].st = "running")

=============================================================================
