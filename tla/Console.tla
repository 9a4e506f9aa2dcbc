-------------------------------- MODULE Console --------------------------------
(***************************************************************************)
(* tty1 of a host that shows the cockpit there: a ThinDom0, where /init    *)
(* starts it in a loop, and a host in the boot mode cockpit, where systemd *)
(* starts it as getty@tty1.  What `run` of the cockpit shows, how it ends, *)
(* and what the host makes of its end.                                     *)
(***************************************************************************)
EXTENDS ThinBoot

VARIABLES
    host,     \* "thin" or "systemd"
    cockpit,  \* the binary: "good", "broken" or "missing"
    backend,  \* the daemon or libxl answers
    lifted,   \* under Xen: "xen"; Xen installed and not booted: "installed"; or "bare"
    override, \* the cockpit's drop-in for getty@tty1 is there
    tty,      \* what is on tty1
    asked,    \* a key's question is on the screen
    manifest, \* the manifest the cockpit was given
    fails     \* COCKPIT_FAILS; more than three count as three

vars == <<boot, host, cockpit, backend, lifted, override, tty, asked, manifest, fails>>
given == <<boot, host, cockpit>>
world == <<backend, lifted, override>>

MAX_FAILS == 3
Landings == {"prelift", "awaiting", "error"}
Screens == Landings \cup {"active", "panic"}
Shells == {"shell", "bash", "getty"}

TypeOK ==
    /\ host \in {"thin", "systemd"} /\ cockpit \in {"good", "broken", "missing"}
    /\ {backend, override, asked} \subseteq BOOLEAN /\ lifted \in {"xen", "installed", "bare"}
    /\ tty \in Screens \cup Shells \cup {"none", "starts", "console", "lift", "blank", "reboot"}
    /\ manifest \in {"guest", "dom0"} /\ fails \in 0..MAX_FAILS

Init ==
    /\ BootInit
    /\ host \in {"thin", "systemd"} /\ cockpit \in {"good", "broken", "missing"}
    /\ backend \in BOOLEAN /\ lifted \in {"xen", "installed", "bare"}
    /\ host = "thin" => lifted = "xen"
    /\ override = (host = "systemd")
    /\ tty = "none" /\ asked = FALSE /\ manifest = "guest" /\ fails = 0

Shows(what) == tty' = what /\ asked' = FALSE
Up == tty = "none" /\ (host = "thin" => pc = "tty1")

-----------------------------------------------------------------------------
(* The host *)

\* The loop of /init, and systemd at boot.
Respawn ==
    /\ Up
    /\ \/ host = "thin" /\ cockpit = "missing" /\ Shows("shell") /\ UNCHANGED manifest
       \/ host = "thin" /\ cockpit # "missing" /\ Shows("starts") /\ manifest' = "guest"
       \/ host = "systemd" /\ Shows("starts") /\ manifest' = "dom0"
    /\ UNCHANGED <<given, world, fails>>

\* mutant: each round of the loop counts anew
CountedAnew(rc) == IF rc = 0 THEN 0 ELSE 1

\* Every end counts, whatever it returned and however long it ran.
Counted(rc) == IF fails < MAX_FAILS THEN fails + 1 ELSE fails

\* systemd never starts it again: `ExecStart=-` makes every end a success, and
\* Restart is on-failure.  Without the drop-in the distribution's unit is in force.
EndsUnder(dropIn, rc) ==
    IF host = "thin"
    THEN /\ fails' = Counted(rc)
         /\ Shows(IF fails' = MAX_FAILS /\ rc # 0 THEN "shell" ELSE "none")
    ELSE Shows(IF dropIn THEN "blank" ELSE "getty") /\ UNCHANGED fails
Ends(rc) == EndsUnder(override, rc)

\* A missing binary does not count, and does not turn up again.
ShellEnds == /\ tty = "shell" /\ Shows("none") /\ fails' = 0
             /\ UNCHANGED <<given, world, manifest>>

BackendTurns == /\ backend' = ~backend
                /\ UNCHANGED <<given, lifted, override, tty, asked, manifest, fails>>

-----------------------------------------------------------------------------
(* The cockpit *)

\* detect_app_mode, once at the start.
Mode == IF backend THEN "active"
        ELSE IF lifted = "xen" THEN "error"
        ELSE IF lifted = "installed" THEN "awaiting" ELSE "prelift"

Starts ==
    /\ tty = "starts"
    /\ \/ cockpit = "good" /\ Shows(Mode) /\ UNCHANGED fails
       \/ cockpit # "good" /\ Ends(127)
    /\ UNCHANGED <<given, world, manifest>>

\* setup_terminal fails.
NoTerminal == /\ tty = "starts" /\ cockpit = "good" /\ Ends(2)
              /\ UNCHANGED <<given, world, manifest>>

\* catch_unwind: the recovery screen, or a clean end if the terminal is gone too.
Panics == /\ tty \in Screens \ {"panic"}
          /\ \/ Shows("panic") /\ UNCHANGED fails
             \/ Ends(0)
          /\ UNCHANGED <<given, world, manifest>>

\* [q] and Ctrl-C.  Only run_active asks whose tty this is.
Quit == /\ tty \in Screens
        /\ IF tty = "active" /\ override THEN Shows("bash") /\ UNCHANGED fails ELSE Ends(0)
        /\ UNCHANGED <<given, world, manifest>>

\* [e] of the page before the lift, [r] of the page after it; the lift is refused
\* without a manifest or with blockers.
Asks == /\ tty \in {"prelift", "awaiting"} /\ ~asked /\ asked' = TRUE
        /\ UNCHANGED <<given, world, tty, manifest, fails>>
Cancel == /\ asked /\ asked' = FALSE /\ UNCHANGED <<given, world, tty, manifest, fails>>
Confirm == /\ asked
           /\ \/ tty = "prelift" /\ Shows("lift") /\ UNCHANGED fails
              \/ tty = "awaiting" /\ Shows("reboot") /\ UNCHANGED fails
              \/ tty = "awaiting" /\ Ends(2)
           /\ UNCHANGED <<given, world, manifest>>

LiftEnds == /\ tty = "lift"
            /\ \/ lifted' = "installed" /\ Ends(0)
               \/ UNCHANGED lifted /\ Ends(2)
            /\ UNCHANGED <<given, backend, override, manifest>>

\* [s]: bash takes the place of the process.
Shell == /\ tty \in {"error", "panic"} /\ Shows("bash")
         /\ UNCHANGED <<given, world, manifest, fails>>
BashEnds == /\ tty = "bash" /\ \E rc \in {0, 1} : Ends(rc)
            /\ UNCHANGED <<given, world, manifest>>

\* [d]: disable_cockpit_boot, then `systemctl reboot` whatever became of it.  After a
\* panic a failing reboot is a clean end.  ThinDom0 has no systemctl.
Disable ==
    /\ tty \in {"error", "panic"}
    /\ override' \in {override, FALSE}
    /\ \/ host = "systemd" /\ Shows("reboot") /\ UNCHANGED fails
       \/ EndsUnder(override', IF tty = "panic" THEN 0 ELSE 2)
    /\ UNCHANGED <<given, backend, lifted, manifest>>

\* The boot mode set from the cockpit itself.
Toggle == /\ tty = "active" /\ host = "systemd" /\ override' = ~override
          /\ UNCHANGED <<given, backend, lifted, tty, asked, manifest, fails>>

\* [t]: `xl console`, and then the cockpit anew, without its --manifest.
Attach == /\ tty = "active"
          /\ \/ Shows("console") /\ UNCHANGED fails
             \/ Ends(0)
          /\ UNCHANGED <<given, world, manifest>>
Detach == /\ tty = "console" /\ Shows("starts") /\ manifest' = "dom0"
          /\ UNCHANGED <<given, world, fails>>

-----------------------------------------------------------------------------
OnTty == UNCHANGED <<host, cockpit, world, tty, asked, manifest, fails>>
InitRuns == host = "thin" /\ BootNext /\ OnTty
Xenstored == host = "thin" /\ XenstoredSettles /\ OnTty
Supervised == Respawn \/ Starts

Users == Quit \/ Asks \/ Cancel \/ Confirm \/ Shell \/ BashEnds \/ Disable \/ Toggle
         \/ Attach \/ Detach \/ ShellEnds

Next == InitRuns \/ Xenstored \/ Supervised \/ BackendTurns \/ NoTerminal \/ Panics \/ LiftEnds \/ Users

\* Processes that can run do; users and failures need not come.
Spec == Init /\ [][Next]_vars /\ WF_vars(InitRuns) /\ WF_vars(Supervised)

-----------------------------------------------------------------------------
(* Properties *)

\* PID 1 gets to tty1 whatever fails on the way: what may stop it is a breakpoint, a
\* driver that takes the machine, or the commands that no `timeout` guards.
Unguarded == {"bootfs", "bind", "xenmods", "xenstore", "dmesg"}
Excused == \/ host = "systemd" \/ machine.breaks \/ machine.kills # 0 \/ machine.hangs \in Unguarded
HandsOff == <>(Excused \/ tty \in Screens \cup Shells)

\* "If cockpit can't start at all (binary missing, libs missing), we drop a busybox shell
\* on tty1 instead so the user sees something", and again after each time it is left.
BrokenCockpitGivesShell ==
    host = "thin" /\ pc = "tty1" /\ cockpit # "good" ~> tty = "shell"

\* "Re-exec the cockpit so we land back in the TUI": on ThinDom0 the cockpit keeps the
\* manifest /init gives it, which the re-exec after [t] forgets.
ManifestKept == host = "thin" /\ tty \in Screens => manifest = "guest"

\* "The user is never stranded" (cockpit/src/lib.rs, after a panic), "[q] exit (systemd
\* will retry up to 3 times in 60s, then stop)": tty1 is never left empty for good.
NeverStranded == tty # "blank"
=============================================================================
