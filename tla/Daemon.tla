-------------------------------- MODULE Daemon --------------------------------
(***************************************************************************)
(* The threads of orchestratord and how they end: main (the accept loop    *)
(* and the order of shutdown), one thread per connection, the actor that   *)
(* owns libxl behind a queue, and the engine's tick thread, which is       *)
(* another caller of the actor. Clients send lines over a socket. A line   *)
(* may come in two pieces: a request cut in the middle ("part", "rest") or *)
(* before its newline ("object", "newline"). The read timeout or the end   *)
(* of file may fall between them.                                          *)
(*                                                                         *)
(* What a request asks for is left out: it is answered either by the       *)
(* connection's own thread (ping, the engine and event methods, bad        *)
(* parameters) or by the actor (the host and domain methods). Engine and   *)
(* EventBus model what those calls do.                                     *)
(***************************************************************************)
EXTENDS Integers, Sequences, FiniteSets

CONSTANTS Clients,       \* clients of the Unix socket and of the vsock socket
          MaxLines,      \* bound: lines each client sends, see Keepalives
          InboxSize,     \* bound: pieces a socket holds for the daemon
          OutboxSize,    \* bound: answers a socket holds for its client
          Keepalives,    \* blank lines do not count against MaxLines
          MayDie         \* the actor's thread may die of a panic

ASSUME DaemonAssumption == /\ {"engine", "Shutdown"} \cap Clients = {}
                           /\ MaxLines \in [Clients -> Nat]
                           /\ InboxSize \in Nat \ {0}
                           /\ OutboxSize \in Nat \ {0}
                           /\ Keepalives \in BOOLEAN
                           /\ MayDie \in BOOLEAN

Callers == Clients \cup {"engine"}

(* Pieces that begin a line, and the first piece each second one belongs to. *)
Beginnings == {"part", "object"}
FirstOf    == [rest |-> "part", newline |-> "object"]

(* Pieces an answer is due for: a line that asks for something, or that     *)
(* nobody can parse; "binary" is a line that is not UTF-8.                  *)
Due    == {"hello", "request", "garbage", "binary", "rest", "object"}
Pieces == Due \cup {"part", "newline", "blank"}

VARIABLES shutdown,    \* ShutdownFlag
          main,        \* where the main thread is
          link,        \* per client: its socket, as the client has it
          inbox,       \* per client: pieces of lines the daemon has not read
          outbox,      \* per client: answers the client has not read
          half,        \* per client: the piece of a line it has sent, if it owes the second
          lines,       \* per client: lines it has sent (bounded by MaxLines)
          owed,        \* per client: answers it waits for
          conn,        \* per client: where its connection's thread is
          partial,     \* per client: the piece of a line read_line holds
          cut,         \* per client: objects a timeout cut off from their newline (history)
          actor,       \* the actor's thread
          queue,       \* the actor's request channel
          slot,        \* per caller: the oneshot reply of its latest call
          engine,      \* where the engine's thread is
          engineCmd    \* its command channel holds Shutdown

clientVars == <<link, inbox, outbox, half, lines, owed>>
actorVars  == <<actor, queue, slot>>
engineVars == <<engine, engineCmd>>
vars == <<shutdown, main, clientVars, conn, partial, cut, actorVars, engineVars>>

Init == /\ shutdown = FALSE
        /\ main = "serving"
        /\ link = [c \in Clients |-> "none"]
        /\ inbox = [c \in Clients |-> <<>>]
        /\ outbox = [c \in Clients |-> 0]
        /\ half = [c \in Clients |-> "nothing"]
        /\ lines = [c \in Clients |-> 0]
        /\ owed = [c \in Clients |-> 0]
        /\ conn = [c \in Clients |-> "none"]
        /\ partial = [c \in Clients |-> "nothing"]
        /\ cut = [c \in Clients |-> 0]
        /\ actor = "running"
        /\ queue = <<>>
        /\ slot = [c \in Callers |-> "none"]
        /\ engine = "idle"
        /\ engineCmd = FALSE

-----------------------------------------------------------------------------
(* Clients, and the signal handler. *)

Signal == /\ ~shutdown /\ main # "exited"
          /\ shutdown' = TRUE
          /\ UNCHANGED <<main, clientVars, conn, partial, cut, actorVars, engineVars>>

Connect(c) == /\ link[c] = "none" /\ main = "serving"
              /\ link' = [link EXCEPT ![c] = "backlog"]
              /\ UNCHANGED <<shutdown, main, inbox, outbox, half, lines, owed, conn, partial, cut,
                             actorVars, engineVars>>

(* A client sends a line, whole or piece by piece, without waiting for the  *)
(* answers to earlier ones, until the daemon has closed the connection.     *)
Send(c, piece) ==
  /\ link[c] \in {"backlog", "open"} /\ conn[c] # "ended"
  /\ Len(inbox[c]) < InboxSize
  /\ half[c] = IF piece \in DOMAIN FirstOf THEN FirstOf[piece] ELSE "nothing"
  /\ lines[c] < MaxLines[c] \/ (piece = "blank" /\ Keepalives)
  /\ inbox' = [inbox EXCEPT ![c] = Append(@, piece)]
  /\ half' = [half EXCEPT ![c] = IF piece \in Beginnings THEN piece ELSE "nothing"]
  /\ lines' = [lines EXCEPT ![c] = IF piece \in Beginnings \/ (piece = "blank" /\ Keepalives)
                                   THEN @ ELSE @ + 1]
  /\ owed' = [owed EXCEPT ![c] = IF piece \in Due THEN @ + 1 ELSE @]
  /\ UNCHANGED <<shutdown, main, link, outbox, conn, partial, cut, actorVars, engineVars>>

(* The daemon can write to it: the client may have closed its own writing   *)
(* side ("shut"), as `printf ... | socat` does.                             *)
Reachable(c) == link[c] \in {"open", "shut"}

ReadAnswer(c) == /\ Reachable(c) /\ outbox[c] > 0
                 /\ outbox' = [outbox EXCEPT ![c] = @ - 1]
                 /\ UNCHANGED <<shutdown, main, link, inbox, half, lines, owed, conn, partial, cut,
                                actorVars, engineVars>>

Shut(c) == /\ link[c] = "open" /\ conn[c] # "ended"
           /\ link' = [link EXCEPT ![c] = "shut"]
           /\ UNCHANGED <<shutdown, main, inbox, outbox, half, lines, owed, conn, partial, cut,
                          actorVars, engineVars>>

Close(c) == /\ link[c] \in {"backlog", "open", "shut"}
            /\ link' = [link EXCEPT ![c] = "closed"]
            /\ UNCHANGED <<shutdown, main, inbox, outbox, half, lines, owed, conn, partial, cut,
                           actorVars, engineVars>>

-----------------------------------------------------------------------------
(* main: run_with_shutdown. *)

(* The flag is looked at between accepts: one more client may get its       *)
(* thread after it is raised. Leaving the loop drops the listeners.         *)
CheckFlag == /\ main = "serving" /\ shutdown
             /\ main' = "joining"
             /\ link' = [c \in Clients |-> IF link[c] = "backlog" THEN "closed" ELSE link[c]]
             /\ UNCHANGED <<shutdown, inbox, outbox, half, lines, owed, conn, partial, cut,
                            actorVars, engineVars>>

(* A client that waits gets a connection's thread, even if it has gone.     *)
Waiting(c) == main = "serving" /\ link[c] # "none" /\ conn[c] = "none"

Accept(c) == /\ Waiting(c)
             /\ link' = [link EXCEPT ![c] = IF @ = "backlog" THEN "open" ELSE @]
             /\ conn' = [conn EXCEPT ![c] = "greeting"]
             /\ UNCHANGED <<shutdown, main, inbox, outbox, half, lines, owed, partial, cut,
                            actorVars, engineVars>>

(* thread::Builder::spawn fails: run_with_shutdown returns at once.         *)
SpawnFails(c) == /\ Waiting(c)
                 /\ main' = "returned"
                 /\ UNCHANGED <<shutdown, clientVars, conn, partial, cut, actorVars, engineVars>>

(* Mutant: returns without waiting for the workers. *)
NobodyToJoin == TRUE

Joined == \A c \in Clients : conn[c] \in {"none", "ended"}

Join == /\ main = "joining" /\ Joined
        /\ main' = "stopEngine"
        /\ UNCHANGED <<shutdown, clientVars, conn, partial, cut, actorVars, engineVars>>

(* engine.shutdown() only sends the command. *)
StopEngine == /\ main = "stopEngine"
              /\ main' = "stopActor"
              /\ engineCmd' = TRUE
              /\ UNCHANGED <<shutdown, clientVars, conn, partial, cut, actorVars, engine>>

StopActor == /\ main = "stopActor"
             /\ main' = "returned"
             /\ queue' = IF actor = "running" THEN Append(queue, "Shutdown") ELSE queue
             /\ UNCHANGED <<shutdown, clientVars, conn, partial, cut, actor, slot, engineVars>>

(* The process ends, and with it every thread, channel and socket.          *)
Exit == /\ main = "returned"
        /\ main' = "exited"
        /\ link' = [c \in Clients |-> "closed"]
        /\ conn' = [c \in Clients |-> "ended"]
        /\ actor' = "stopped" /\ queue' = <<>>
        /\ slot' = [c \in Callers |-> "none"]
        /\ engine' = "exited"
        /\ UNCHANGED <<shutdown, inbox, outbox, half, lines, owed, partial, cut, engineCmd>>

-----------------------------------------------------------------------------
(* The actor: ActorHandle::send_and_recv and actor_loop. *)

CallActor(caller) ==
  IF actor = "running"
  THEN /\ queue' = Append(queue, caller)
       /\ slot' = [slot EXCEPT ![caller] = "waiting"]
  ELSE /\ slot' = [slot EXCEPT ![caller] = "crashed"]
       /\ UNCHANGED queue

Returned(caller) == slot[caller] \in {"replied", "crashed"}

(* The caller takes what its channel holds; a crash stays on record.        *)
Collected(caller) == [slot EXCEPT ![caller] = IF @ = "replied" THEN "none" ELSE @]

(* Mutant: the requests still queued are kept, and their senders with them. *)
QueueForgotten == [c \in Callers |-> slot[c]]

(* The queue is dropped, and with it the reply senders it holds.            *)
QueueDropped == [c \in Callers |-> IF slot[c] = "waiting" THEN "crashed" ELSE slot[c]]

ActorEnds(how) == /\ actor' = how
                  /\ queue' = <<>>
                  /\ slot' = QueueDropped

ActorServes == /\ actor = "running" /\ queue # <<>> /\ Head(queue) # "Shutdown"
               /\ slot' = [slot EXCEPT ![Head(queue)] = "replied"]
               /\ queue' = Tail(queue)
               /\ UNCHANGED <<shutdown, main, clientVars, conn, partial, cut, actor, engineVars>>

ActorStops == /\ actor = "running" /\ queue # <<>> /\ Head(queue) = "Shutdown"
              /\ ActorEnds("stopped")
              /\ UNCHANGED <<shutdown, main, clientVars, conn, partial, cut, engineVars>>

ActorDies == /\ MayDie /\ actor = "running"
             /\ ActorEnds("died")
             /\ UNCHANGED <<shutdown, main, clientVars, conn, partial, cut, engineVars>>

-----------------------------------------------------------------------------
(* A connection's thread: handle_connection. It is reading while it is in   *)
(* the handshake ("greeting") and in the request loop ("reading").          *)

Has(c, pieces) == /\ conn[c] \in {"greeting", "reading"}
                  /\ inbox[c] # <<>> /\ Head(inbox[c]) \in pieces

(* read_line goes on after the first piece of a line, read_request after a  *)
(* blank one, and a newline whose object is gone is a blank line. Neither   *)
(* looks at the shutdown flag.                                              *)
ReadOn(c) == /\ Has(c, Beginnings \cup {"blank", "newline"})
             /\ Head(inbox[c]) = "newline" => partial[c] = "nothing"
             /\ partial' = [partial EXCEPT ![c] = IF Head(inbox[c]) \in Beginnings
                                                  THEN Head(inbox[c]) ELSE "nothing"]
             /\ inbox' = [inbox EXCEPT ![c] = Tail(@)]
             /\ UNCHANGED <<shutdown, main, link, outbox, half, lines, owed, conn, cut,
                            actorVars, engineVars>>

(* What a line that has come to its end is: the rest of one alone does not  *)
(* parse, its two pieces together are a request.                            *)
Line(c) == IF Head(inbox[c]) \notin DOMAIN FirstOf THEN Head(inbox[c])
           ELSE IF partial[c] = "nothing" THEN "garbage" ELSE "request"

ReadLine(c) == /\ Has(c, {"hello", "request", "garbage", "rest", "newline"})
               /\ Head(inbox[c]) = "newline" => partial[c] = "object"
               /\ inbox' = [inbox EXCEPT ![c] = Tail(@)]
               /\ partial' = [partial EXCEPT ![c] = "nothing"]
               /\ UNCHANGED <<shutdown, main, link, half, lines, cut, engineVars>>

(* A line that is not UTF-8 is an I/O error of read_line, which ends the    *)
(* connection.                                                              *)
ReadBinary(c) == /\ Has(c, {"binary"})
                 /\ inbox' = [inbox EXCEPT ![c] = Tail(@)]
                 /\ conn' = [conn EXCEPT ![c] = "ended"]
                 /\ UNCHANGED <<shutdown, main, link, outbox, half, lines, owed, partial, cut,
                                actorVars, engineVars>>

Answer(c) == /\ outbox' = [outbox EXCEPT ![c] = @ + 1]
             /\ owed' = [owed EXCEPT ![c] = @ - 1]

(* The first line: the request loop begins after a good hello, any other    *)
(* line is answered and the connection ends.                                *)
Greet(c) == /\ conn[c] = "greeting"
            /\ ReadLine(c)
            /\ \/ Reachable(c) /\ Answer(c)
               \/ ~Reachable(c) /\ UNCHANGED <<outbox, owed>>
            /\ conn' = [conn EXCEPT ![c] = IF Line(c) = "hello" /\ Reachable(c)
                                           THEN "check" ELSE "ended"]
            /\ UNCHANGED actorVars

(* Mutant: a malformed line is skipped. *)
SkipMalformed(c) == /\ conn' = [conn EXCEPT ![c] = "check"]
                    /\ UNCHANGED actorVars

AnswerMalformed(c) == /\ conn' = [conn EXCEPT ![c] = "writing"]
                      /\ UNCHANGED actorVars

(* dispatch: a request is answered on the spot or through the actor.        *)
Dispatch(c) ==
  /\ conn[c] = "reading"
  /\ ReadLine(c)
  /\ \/ Line(c) = "garbage" /\ AnswerMalformed(c)
     \/ Line(c) # "garbage" /\ conn' = [conn EXCEPT ![c] = "writing"] /\ UNCHANGED actorVars
     \/ /\ Line(c) = "request"
        /\ conn' = [conn EXCEPT ![c] = "calling"]
        /\ CallActor(c)
        /\ UNCHANGED actor
  /\ UNCHANGED <<outbox, owed>>

(* Mutant: a timed-out read is tried again at once. *)
ReadAgain(c) == conn[c]

(* A timed-out read goes back to the top of the loop; in the handshake it   *)
(* ends the connection.                                                     *)
AfterTimeout(c) == IF conn[c] = "greeting" THEN "ended" ELSE "check"

(* The timeout also drops what read_line had of a line. Of an object only   *)
(* the newline is still to come.                                            *)
ReadTimesOut(c) ==
  /\ conn[c] \in {"greeting", "reading"}
  /\ inbox[c] = <<>> /\ link[c] = "open"
  /\ conn' = [conn EXCEPT ![c] = AfterTimeout(c)]
  /\ partial' = [partial EXCEPT ![c] = "nothing"]
  /\ cut' = [cut EXCEPT ![c] = IF partial[c] = "object" THEN @ + 1 ELSE @]
  /\ UNCHANGED <<shutdown, main, clientVars, actorVars, engineVars>>

EndOfFile(c) == /\ conn[c] \in {"greeting", "reading"}
                /\ inbox[c] = <<>> /\ link[c] \in {"shut", "closed"}

ReadEof(c) == /\ EndOfFile(c) /\ partial[c] = "nothing"
              /\ conn' = [conn EXCEPT ![c] = "ended"]
              /\ UNCHANGED <<shutdown, main, clientVars, partial, cut, actorVars, engineVars>>

(* The end of file ends a line: read_line returns what it has, as if it had *)
(* come as a line, and the connection ends at the next read.                *)
ReadUnended(c) ==
  /\ EndOfFile(c) /\ partial[c] # "nothing"
  /\ inbox' = [inbox EXCEPT ![c] = <<IF partial[c] = "object" THEN "request" ELSE "garbage">>]
  /\ owed' = [owed EXCEPT ![c] = IF partial[c] = "object" THEN @ ELSE @ + 1]
  /\ partial' = [partial EXCEPT ![c] = "nothing"]
  /\ UNCHANGED <<shutdown, main, link, outbox, half, lines, conn, cut, actorVars, engineVars>>

TopOfLoop(c) == /\ conn[c] = "check"
                /\ conn' = [conn EXCEPT ![c] = IF shutdown THEN "ended" ELSE "reading"]
                /\ UNCHANGED <<shutdown, main, clientVars, partial, cut, actorVars, engineVars>>

CallReturns(c) == /\ conn[c] = "calling" /\ Returned(c)
                  /\ conn' = [conn EXCEPT ![c] = "writing"]
                  /\ slot' = Collected(c)
                  /\ UNCHANGED <<shutdown, main, clientVars, partial, cut, actor, queue, engineVars>>

HasRoom(c) == outbox[c] < OutboxSize

(* write_response waits for room in the socket; a closed one is an error.   *)
Write(c) == /\ conn[c] = "writing"
            /\ \/ /\ Reachable(c) /\ HasRoom(c)
                  /\ Answer(c)
                  /\ conn' = [conn EXCEPT ![c] = "check"]
               \/ /\ ~Reachable(c)
                  /\ conn' = [conn EXCEPT ![c] = "ended"]
                  /\ UNCHANGED <<outbox, owed>>
            /\ UNCHANGED <<shutdown, main, link, inbox, half, lines, partial, cut,
                           actorVars, engineVars>>

-----------------------------------------------------------------------------
(* The engine's thread: engine_loop. *)

(* Between two ticks it looks at its commands, before and after sleeping.   *)
EngineStops == /\ engine = "idle" /\ engineCmd
               /\ engine' = "exited"
               /\ UNCHANGED <<shutdown, main, clientVars, conn, partial, cut, actorVars, engineCmd>>

(* A tick begins with a call, domain_list. *)
EngineTicks == /\ engine = "idle" /\ ~engineCmd
               /\ engine' = "calling"
               /\ CallActor("engine")
               /\ UNCHANGED <<shutdown, main, clientVars, conn, partial, cut, actor, engineCmd>>

(* After an answer the tick makes its next call (domain_balloon) or is over. *)
EngineReturns == /\ engine = "calling" /\ Returned("engine")
                 /\ \/ engine' = "idle" /\ slot' = Collected("engine") /\ UNCHANGED queue
                    \/ CallActor("engine") /\ UNCHANGED engine
                 /\ UNCHANGED <<shutdown, main, clientVars, conn, partial, cut, actor, engineCmd>>

-----------------------------------------------------------------------------
Main == CheckFlag \/ Join \/ StopEngine \/ StopActor \/ Exit \/ \E c \in Clients : Accept(c)

Connection(c) == \/ ReadOn(c) \/ ReadBinary(c) \/ Greet(c) \/ Dispatch(c)
                 \/ ReadTimesOut(c) \/ ReadEof(c) \/ ReadUnended(c)
                 \/ TopOfLoop(c) \/ CallReturns(c) \/ Write(c)

Actor == ActorServes \/ ActorStops

Engine == EngineStops \/ EngineTicks \/ EngineReturns

Client(c) == \/ Connect(c) \/ ReadAnswer(c) \/ Shut(c) \/ Close(c)
             \/ \E piece \in Pieces : Send(c, piece)

Next == \/ Main \/ Actor \/ Engine
        \/ Signal \/ ActorDies
        \/ \E c \in Clients : Connection(c) \/ Client(c) \/ SpawnFails(c)

Spec == Init /\ [][Next]_vars

(* Every thread that can run runs, and a client reads the answers it is     *)
(* sent. Nothing makes a client send, or close, or the signal arrive.       *)
Fairness == /\ WF_vars(CheckFlag) /\ WF_vars(Main) /\ WF_vars(Actor) /\ WF_vars(Engine)
            /\ \A c \in Clients : WF_vars(Connection(c)) /\ WF_vars(ReadAnswer(c))

LiveSpec == Spec /\ Fairness

-----------------------------------------------------------------------------
TypeOK == /\ shutdown \in BOOLEAN
          /\ main \in {"serving", "joining", "stopEngine", "stopActor",
                       "returned", "exited"}
          /\ link \in [Clients -> {"none", "backlog", "open", "shut", "closed"}]
          /\ inbox \in [Clients -> Seq(Pieces)]
          /\ \A c \in Clients : Len(inbox[c]) <= InboxSize
          /\ outbox \in [Clients -> 0..OutboxSize]
          /\ half \in [Clients -> Beginnings \cup {"nothing"}]
          /\ lines \in [Clients -> Nat]
          /\ owed \in [Clients -> Nat]
          /\ conn \in [Clients -> {"none", "greeting", "check", "reading", "calling", "writing", "ended"}]
          /\ partial \in [Clients -> Beginnings \cup {"nothing"}]
          /\ cut \in [Clients -> Nat]
          /\ actor \in {"running", "stopped", "died"}
          /\ queue \in Seq(Callers \cup {"Shutdown"})
          /\ slot \in [Callers -> {"none", "waiting", "replied", "crashed"}]
          /\ engine \in {"idle", "calling", "exited"}
          /\ engineCmd \in BOOLEAN

(* A connection sees ActorCrashed only if the actor's thread died: main     *)
(* stops the actor after the last connection has ended, so no request a     *)
(* shutdown overtakes is answered with -32603 (lib.rs, run_with_shutdown).  *)
ActorOutlivesConnections == \A c \in Clients : slot[c] = "crashed" => actor = "died"

(* The answers a live connection still owes its client: for the pieces in   *)
(* the socket, for the object read_line holds, for the line being served.   *)
ToAnswer(c) == Cardinality({i \in 1..Len(inbox[c]) : inbox[c][i] \in Due})
               + (IF partial[c] = "object" THEN 1 ELSE 0)
               + (IF conn[c] \in {"calling", "writing"} THEN 1 ELSE 0)

Lives(c) == conn[c] \in {"greeting", "check", "reading", "calling", "writing"}

(* While its connection lives, a client waits for no answer that will not   *)
(* come, but for those of requests the read timeout cut off from their      *)
(* newline: whether a line parses, comes in pieces, is ended by the end of  *)
(* file or finds the actor gone, it is answered once (handle_connection,    *)
(* read_request). Clients pair answers with requests by counting            *)
(* (daemon_client.rs, call).                                                *)
OnlyCutObjectsLost == \A c \in Clients : Lives(c) => owed[c] = ToAnswer(c) + cut[c]

(* daemon_client.rs:3-4: "one line-delimited JSON object per request, one   *)
(* per response". A client that owes no rest of a line waits for no answer  *)
(* that will not come.                                                      *)
EveryRequestAnswered ==
  \A c \in Clients : Lives(c) /\ half[c] = "nothing" => owed[c] = ToAnswer(c)

(* A caller that waits for the actor has exactly one request in its queue,  *)
(* the queue dies with the actor: nobody waits for an answer that cannot    *)
(* come (actor.rs, send_and_recv).                                          *)
WaitersAreQueued ==
  \A c \in Callers :
    Cardinality({i \in 1..Len(queue) : queue[i] = c}) =
      IF slot[c] = "waiting" THEN 1 ELSE 0

(* Every call returns, by an answer or by ActorCrashed "rather than         *)
(* hanging" (oneshot.rs), and every request gets written.                   *)
CallsReturn == \A c \in Clients : conn[c] = "calling" ~> conn[c] # "calling"

(* A signal ends the daemon, whatever its clients have in flight.           *)
ShutdownExits == shutdown ~> main = "exited"

(* lib.rs:151-153: the engine is shut down before the actor "so in-flight   *)
(* engine calls don't see crashed".                                         *)
ActorOutlivesTicks == slot["engine"] = "crashed" => actor = "died"

(* lib.rs:316-317: the one-second timeout is there "so shutdown can break   *)
(* idle client sessions promptly instead of hanging in join()". Once        *)
(* shutdown is raised a session does not read for ever.                     *)
SessionsBreak == \A c \in Clients : (shutdown /\ conn[c] = "reading") ~> conn[c] # "reading"
=============================================================================
