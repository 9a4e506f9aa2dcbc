---------------------------- MODULE Install_proofs ----------------------------
(***************************************************************************)
(* Theorems about the runs of the tool on a host (Install), for every      *)
(* number of releases, of broken steps and of display managers.            *)
(***************************************************************************)
EXTENDS Install, SequenceTheorems, WellFoundedInduction, TLAPS

----------------------------------------------------- (* the inductive invariant *)

(* The run is at one of these steps.                                        *)
AtOne(steps) == Underway /\ Head(run.left) \in steps

(* What may be left of a run of each command.                               *)
InstallLists == {<<"cli", "launcher", "stop", "daemon", "unit", "restart", "override", "snippet", "smoke">>,
                 <<"launcher", "stop", "daemon", "unit", "restart", "override", "snippet", "smoke">>,
                 <<"stop", "daemon", "unit", "restart", "override", "snippet", "smoke">>,
                 <<"daemon", "unit", "restart", "override", "snippet", "smoke">>,
                 <<"unit", "restart", "override", "snippet", "smoke">>,
                 <<"restart", "override", "snippet", "smoke">>,
                 <<"override", "snippet", "smoke">>,
                 <<"snippet", "smoke">>, <<"update-grub", "smoke">>, <<"smoke">>, <<>>}

UpdateSteps == {"cli", "launcher", "stop", "daemon", "unit", "restart", "override",
                "snippet", "update-grub", "smoke"}

CockpitLists == {<<"mask", "override", "record", "reload">>, <<"override", "record", "reload">>,
                 <<"record", "reload">>, <<"override", "reload">>, <<"reload">>, <<>>}

DesktopLists == {<<"unmask", "remove", "forget", "reload">>, <<"remove", "forget", "reload">>,
                 <<"forget", "reload">>, <<"reload">>, <<>>}

RecoverLists == {<<"unmask", "remove", "forget", "reload", "unmask-all">>,
                 <<"remove", "forget", "reload", "unmask-all">>,
                 <<"forget", "reload", "unmask-all">>, <<"reload", "unmask-all">>,
                 <<"unmask-all">>, <<>>}

InLists(left, command) ==
  /\ command = "none" => left = <<>>
  /\ command = "install" => left \in InstallLists
  /\ command = "update" => left \in Seq(UpdateSteps)
  /\ command = "cockpit" => left \in CockpitLists
  /\ command = "desktop" => left \in DesktopLists
  /\ command = "recover" => left \in RecoverLists

LeftOK == InLists(run.left, run.command) /\ (run.broken => run.left = <<>>)

(* What an install that is not broken has done by the step it is at.        *)
InstallOK ==
  run.command = "install" /\ ~run.broken =>
    /\ AtOne({"cli"}) \/ bin["cli"] = run.plan
    /\ AtOne({"cli", "launcher", "stop", "daemon"}) \/ bin["daemon"] = run.plan
    /\ AtOne({"cli", "launcher", "stop", "daemon", "unit"}) \/ unit = run.plan
    /\ AtOne({"cli", "launcher", "stop", "daemon", "unit", "restart"}) \/ daemon = run.plan
    /\ \/ AtOne({"cli", "launcher", "stop", "daemon", "unit", "restart", "override"})
       \/ override \in {Absent, run.plan}

(* What a run that frees the display managers has done by then. Nobody is   *)
(* freed while the cockpit is being set up, and the second run in a row     *)
(* finds no record, and unmasks every display manager.                      *)
FreeOK ==
  /\ run.command = "cockpit" => freed = 0
  /\ freed >= 1 => override = Absent /\ record = NoDM
  /\ freed = 2 => masked = {}
  /\ run.command \in {"desktop", "recover"} =>
       /\ AtOne({"forget", "reload"}) => override = Absent
       /\ AtOne({"reload"}) /\ run.quiet => record = NoDM
       /\ AtOne({"remove", "forget", "reload"}) /\ run.quiet /\ freed >= 1 => masked = {}

InstallInv == TypeOK /\ LeftOK /\ InstallOK /\ FreeOK /\ RecoverFrees

------------------------------------------------------ (* the lists of steps *)

(* The list that two lists make, given item by item.                        *)
LEMMA Joined ==
  ASSUME NEW S, NEW s \in Seq(S), NEW t \in Seq(S), NEW u \in Seq(S),
         Len(u) = Len(s) + Len(t),
         \A i \in 1..Len(s) : u[i] = s[i],
         \A i \in 1..Len(t) : u[Len(s) + i] = t[i]
  PROVE  s \o t = u
<1> DEFINE m == Len(s)
           n == Len(t)
<1>1. /\ s \o t \in Seq(S) /\ Len(s \o t) = m + n /\ m \in Nat /\ n \in Nat
      /\ \A i \in 1..m + n : (s \o t)[i] = IF i <= m THEN s[i] ELSE t[i - m]
  BY ConcatProperties
<1> HIDE DEF m, n
<1>2. ASSUME NEW i \in 1..m + n PROVE (s \o t)[i] = u[i]
  <2>1. CASE i <= m
    <3>1. i \in 1..m
      BY <1>1, <2>1
    <3> QED BY <1>1, <2>1, <3>1 DEF m
  <2>2. CASE ~(i <= m)
    <3>1. i - m \in 1..n /\ m + (i - m) = i
      BY <1>1, <2>2
    <3>2. u[m + (i - m)] = t[i - m]
      BY <3>1 DEF m, n
    <3> QED BY <1>1, <2>2, <3>1, <3>2
  <2> QED BY <2>1, <2>2
<1>3. Len(u) = m + n
  BY DEF m, n
<1> QED BY <1>1, <1>2, <1>3, SeqEqual

LEMMA TwoSteps == <<"update-grub">> \o <<"smoke">> = <<"update-grub", "smoke">>
<1> DEFINE s == <<"update-grub">>
           t == <<"smoke">>
           u == <<"update-grub", "smoke">>
<1>1. /\ s \in Seq(UpdateSteps) /\ t \in Seq(UpdateSteps) /\ u \in Seq(UpdateSteps)
      /\ Len(s) = 1 /\ Len(t) = 1 /\ Len(u) = 2
      /\ s[1] = u[1] /\ t[1] = u[2]
  BY DEF UpdateSteps
<1> HIDE DEF s, t, u
<1>2. s \o t = u
  <2>1. /\ \A i \in 1..Len(s) : i = 1
        /\ \A i \in 1..Len(t) : i = 1 /\ Len(s) + i = 2
        /\ Len(u) = Len(s) + Len(t)
    BY <1>1
  <2>2. \A i \in 1..Len(s) : u[i] = s[i]
    BY <1>1, <2>1
  <2>3. \A i \in 1..Len(t) : u[Len(s) + i] = t[i]
    BY <1>1, <2>1
  <2> QED BY <1>1, <2>1, <2>2, <2>3, Joined
<1> QED BY <1>2 DEF s, t, u

(* The lists that the runs start with.                                      *)
LEMMA InstallStart == InstallSteps(TRUE) \in InstallLists /\ InstallSteps(TRUE) # <<>>
                      /\ Head(InstallSteps(TRUE)) = "cli"
<1> DEFINE a == <<"cli", "launcher">>
           b == DaemonSteps
           c == <<"override", "snippet">>
           d == <<"smoke">>
           ab == <<"cli", "launcher", "stop", "daemon", "unit", "restart">>
           abc == <<"cli", "launcher", "stop", "daemon", "unit", "restart",
                    "override", "snippet">>
           all == <<"cli", "launcher", "stop", "daemon", "unit", "restart",
                    "override", "snippet", "smoke">>
<1>1. /\ a \in Seq(UpdateSteps) /\ b \in Seq(UpdateSteps) /\ Len(a) = 2 /\ Len(b) = 4
      /\ c \in Seq(UpdateSteps) /\ d \in Seq(UpdateSteps) /\ Len(c) = 2 /\ Len(d) = 1
      /\ ab \in Seq(UpdateSteps) /\ Len(ab) = 6
      /\ abc \in Seq(UpdateSteps) /\ Len(abc) = 8
      /\ all \in Seq(UpdateSteps) /\ Len(all) = 9
  BY DEF UpdateSteps, DaemonSteps
<1>2. /\ a[1] = ab[1] /\ a[2] = ab[2]
      /\ b[1] = ab[3] /\ b[2] = ab[4] /\ b[3] = ab[5] /\ b[4] = ab[6]
  BY DEF DaemonSteps
<1>3. /\ ab[1] = abc[1] /\ ab[2] = abc[2] /\ ab[3] = abc[3] /\ ab[4] = abc[4]
      /\ ab[5] = abc[5] /\ ab[6] = abc[6] /\ c[1] = abc[7] /\ c[2] = abc[8]
  OBVIOUS
<1>4. /\ abc[1] = all[1] /\ abc[2] = all[2] /\ abc[3] = all[3] /\ abc[4] = all[4]
      /\ abc[5] = all[5] /\ abc[6] = all[6] /\ abc[7] = all[7] /\ abc[8] = all[8]
      /\ d[1] = all[9]
  OBVIOUS
<1>5. all \in InstallLists /\ all # <<>> /\ Head(all) = "cli"
  BY DEF InstallLists
<1>6. InstallSteps(TRUE) = ((a \o b) \o c) \o d
  BY DEF InstallSteps
<1> HIDE DEF a, b, c, d, ab, abc, all
<1>7. a \o b = ab
  <2>1. \A i \in 1..Len(a) : i = 1 \/ i = 2
    BY <1>1
  <2>2. \A i \in 1..Len(b) : i = 1 \/ i = 2 \/ i = 3 \/ i = 4
    BY <1>1
  <2>3. \A i \in 1..Len(a) : ab[i] = a[i]
    BY <1>2, <2>1
  <2>4. \A i \in 1..Len(b) : ab[Len(a) + i] = b[i]
    BY <1>1, <1>2, <2>2
  <2>5. Len(ab) = Len(a) + Len(b)
    BY <1>1
  <2> QED BY <1>1, <2>3, <2>4, <2>5, Joined
<1>8. ab \o c = abc
  <2>1. \A i \in 1..Len(ab) : i = 1 \/ i = 2 \/ i = 3 \/ i = 4 \/ i = 5 \/ i = 6
    BY <1>1
  <2>2. \A i \in 1..Len(c) : i = 1 \/ i = 2
    BY <1>1
  <2>3. \A i \in 1..Len(ab) : abc[i] = ab[i]
    BY <1>3, <2>1
  <2>4. \A i \in 1..Len(c) : abc[Len(ab) + i] = c[i]
    BY <1>1, <1>3, <2>2
  <2>5. Len(abc) = Len(ab) + Len(c)
    BY <1>1
  <2> QED BY <1>1, <2>3, <2>4, <2>5, Joined
<1>9. abc \o d = all
  <2>1. \A i \in 1..Len(abc) : \/ i = 1 \/ i = 2 \/ i = 3 \/ i = 4
                               \/ i = 5 \/ i = 6 \/ i = 7 \/ i = 8
    BY <1>1
  <2>2. \A i \in 1..Len(d) : i = 1
    BY <1>1
  <2>3. \A i \in 1..Len(abc) : all[i] = abc[i]
    BY <1>4, <2>1
  <2>4. \A i \in 1..Len(d) : all[Len(abc) + i] = d[i]
    BY <1>1, <1>4, <2>2
  <2>5. Len(all) = Len(abc) + Len(d)
    BY <1>1
  <2> QED BY <1>1, <2>3, <2>4, <2>5, Joined
<1> QED BY <1>5, <1>6, <1>7, <1>8, <1>9

LEMMA UpdateStart == ASSUME NEW adjunct \in BOOLEAN
                     PROVE  InstallSteps(adjunct) \in Seq(UpdateSteps)
<1> DEFINE middle == IF adjunct THEN DaemonSteps ELSE <<>>
           smoke  == IF adjunct THEN <<"smoke">> ELSE <<>>
<1>1. /\ <<"cli", "launcher">> \in Seq(UpdateSteps)
      /\ <<"override", "snippet">> \in Seq(UpdateSteps)
  BY DEF UpdateSteps
<1>2. middle \in Seq(UpdateSteps) /\ smoke \in Seq(UpdateSteps)
  <2>1. DaemonSteps \in Seq(UpdateSteps) /\ <<"smoke">> \in Seq(UpdateSteps)
    BY DEF UpdateSteps, DaemonSteps
  <2>2. <<>> \in Seq(UpdateSteps)
    OBVIOUS
  <2> QED BY <2>1, <2>2
<1>3. InstallSteps(adjunct) = ((<<"cli", "launcher">> \o middle) \o <<"override", "snippet">>) \o smoke
  BY DEF InstallSteps
<1> HIDE DEF middle, smoke
<1> QED BY <1>1, <1>2, <1>3, ConcatProperties

(* The step after each step of an install, and of the other runs.           *)
LEMMA InstallTail ==
  ASSUME NEW left \in InstallLists, left # <<>>
  PROVE  /\ Tail(left) \in InstallLists
         /\ Head(left) \in UpdateSteps
         /\ Head(left) = "cli" => Tail(left) # <<>> /\ Head(Tail(left)) = "launcher"
         /\ Head(left) = "launcher" => Tail(left) # <<>> /\ Head(Tail(left)) = "stop"
         /\ Head(left) = "stop" => Tail(left) # <<>> /\ Head(Tail(left)) = "daemon"
         /\ Head(left) = "daemon" => Tail(left) # <<>> /\ Head(Tail(left)) = "unit"
         /\ Head(left) = "unit" => Tail(left) # <<>> /\ Head(Tail(left)) = "restart"
         /\ Head(left) = "restart" => Tail(left) # <<>> /\ Head(Tail(left)) = "override"
         /\ Head(left) = "snippet" => <<"update-grub">> \o Tail(left) \in InstallLists
<1>1. CASE left = <<"cli", "launcher", "stop", "daemon", "unit", "restart", "override", "snippet", "smoke">>
  <2>1. Head(left) = "cli" /\ Tail(left) = <<"launcher", "stop", "daemon", "unit", "restart", "override", "snippet", "smoke">>
    BY <1>1
  <2>2. <<"launcher", "stop", "daemon", "unit", "restart", "override", "snippet", "smoke">> # <<>> /\ Head(<<"launcher", "stop", "daemon", "unit", "restart", "override", "snippet", "smoke">>) = "launcher"
    OBVIOUS
  <2> QED BY <2>1, <2>2 DEF InstallLists, UpdateSteps
<1>2. CASE left = <<"launcher", "stop", "daemon", "unit", "restart", "override", "snippet", "smoke">>
  <2>1. Head(left) = "launcher" /\ Tail(left) = <<"stop", "daemon", "unit", "restart", "override", "snippet", "smoke">>
    BY <1>2
  <2>2. <<"stop", "daemon", "unit", "restart", "override", "snippet", "smoke">> # <<>> /\ Head(<<"stop", "daemon", "unit", "restart", "override", "snippet", "smoke">>) = "stop"
    OBVIOUS
  <2> QED BY <2>1, <2>2 DEF InstallLists, UpdateSteps
<1>3. CASE left = <<"stop", "daemon", "unit", "restart", "override", "snippet", "smoke">>
  <2>1. Head(left) = "stop" /\ Tail(left) = <<"daemon", "unit", "restart", "override", "snippet", "smoke">>
    BY <1>3
  <2>2. <<"daemon", "unit", "restart", "override", "snippet", "smoke">> # <<>> /\ Head(<<"daemon", "unit", "restart", "override", "snippet", "smoke">>) = "daemon"
    OBVIOUS
  <2> QED BY <2>1, <2>2 DEF InstallLists, UpdateSteps
<1>4. CASE left = <<"daemon", "unit", "restart", "override", "snippet", "smoke">>
  <2>1. Head(left) = "daemon" /\ Tail(left) = <<"unit", "restart", "override", "snippet", "smoke">>
    BY <1>4
  <2>2. <<"unit", "restart", "override", "snippet", "smoke">> # <<>> /\ Head(<<"unit", "restart", "override", "snippet", "smoke">>) = "unit"
    OBVIOUS
  <2> QED BY <2>1, <2>2 DEF InstallLists, UpdateSteps
<1>5. CASE left = <<"unit", "restart", "override", "snippet", "smoke">>
  <2>1. Head(left) = "unit" /\ Tail(left) = <<"restart", "override", "snippet", "smoke">>
    BY <1>5
  <2>2. <<"restart", "override", "snippet", "smoke">> # <<>> /\ Head(<<"restart", "override", "snippet", "smoke">>) = "restart"
    OBVIOUS
  <2> QED BY <2>1, <2>2 DEF InstallLists, UpdateSteps
<1>6. CASE left = <<"restart", "override", "snippet", "smoke">>
  <2>1. Head(left) = "restart" /\ Tail(left) = <<"override", "snippet", "smoke">>
    BY <1>6
  <2>2. <<"override", "snippet", "smoke">> # <<>> /\ Head(<<"override", "snippet", "smoke">>) = "override"
    OBVIOUS
  <2> QED BY <2>1, <2>2 DEF InstallLists, UpdateSteps
<1>7. CASE left = <<"override", "snippet", "smoke">>
  <2>1. Head(left) = "override" /\ Tail(left) = <<"snippet", "smoke">>
    BY <1>7
  <2>2. <<"snippet", "smoke">> # <<>> /\ Head(<<"snippet", "smoke">>) = "snippet"
    OBVIOUS
  <2> QED BY <2>1, <2>2 DEF InstallLists, UpdateSteps
<1>8. CASE left = <<"snippet", "smoke">>
  <2>1. Head(left) = "snippet" /\ Tail(left) = <<"smoke">>
    BY <1>8
  <2>2. <<"smoke">> # <<>> /\ Head(<<"smoke">>) = "smoke"
    OBVIOUS
  <2> QED BY <2>1, <2>2, TwoSteps DEF InstallLists, UpdateSteps
<1>9. CASE left = <<"update-grub", "smoke">>
  <2>1. Head(left) = "update-grub" /\ Tail(left) = <<"smoke">>
    BY <1>9
  <2>2. <<"smoke">> # <<>> /\ Head(<<"smoke">>) = "smoke"
    OBVIOUS
  <2> QED BY <2>1, <2>2 DEF InstallLists, UpdateSteps
<1>10. CASE left = <<"smoke">>
  <2>1. Head(left) = "smoke" /\ Tail(left) = <<>>
    BY <1>10
  <2> QED BY <2>1 DEF InstallLists, UpdateSteps
<1> QED BY <1>1, <1>2, <1>3, <1>4, <1>5, <1>6, <1>7, <1>8, <1>9, <1>10 DEF InstallLists

LEMMA CockpitTail ==
  ASSUME NEW left \in CockpitLists, left # <<>>
  PROVE  /\ Tail(left) \in CockpitLists
         /\ Head(left) \in {"mask", "override", "record", "reload"}
<1>1. CASE left = <<"mask", "override", "record", "reload">>
  <2>1. Head(left) = "mask" /\ Tail(left) = <<"override", "record", "reload">>
    BY <1>1
  <2>2. <<"override", "record", "reload">> # <<>> /\ Head(<<"override", "record", "reload">>) = "override"
    OBVIOUS
  <2> QED BY <2>1, <2>2 DEF CockpitLists
<1>2. CASE left = <<"override", "record", "reload">>
  <2>1. Head(left) = "override" /\ Tail(left) = <<"record", "reload">>
    BY <1>2
  <2>2. <<"record", "reload">> # <<>> /\ Head(<<"record", "reload">>) = "record"
    OBVIOUS
  <2> QED BY <2>1, <2>2 DEF CockpitLists
<1>3. CASE left = <<"record", "reload">>
  <2>1. Head(left) = "record" /\ Tail(left) = <<"reload">>
    BY <1>3
  <2>2. <<"reload">> # <<>> /\ Head(<<"reload">>) = "reload"
    OBVIOUS
  <2> QED BY <2>1, <2>2 DEF CockpitLists
<1>4. CASE left = <<"override", "reload">>
  <2>1. Head(left) = "override" /\ Tail(left) = <<"reload">>
    BY <1>4
  <2>2. <<"reload">> # <<>> /\ Head(<<"reload">>) = "reload"
    OBVIOUS
  <2> QED BY <2>1, <2>2 DEF CockpitLists
<1>5. CASE left = <<"reload">>
  <2>1. Head(left) = "reload" /\ Tail(left) = <<>>
    BY <1>5
  <2> QED BY <2>1 DEF CockpitLists
<1> QED BY <1>1, <1>2, <1>3, <1>4, <1>5 DEF CockpitLists

LEMMA DesktopTail ==
  ASSUME NEW left \in DesktopLists, left # <<>>
  PROVE  /\ Tail(left) \in DesktopLists
         /\ Head(left) \in {"unmask", "remove", "forget", "reload"}
         /\ Head(left) = "unmask" => Tail(left) # <<>> /\ Head(Tail(left)) = "remove"
         /\ Head(left) = "remove" => Tail(left) # <<>> /\ Head(Tail(left)) = "forget"
         /\ Head(left) = "forget" => Tail(left) # <<>> /\ Head(Tail(left)) = "reload"
         /\ Head(left) = "reload" => Tail(left) = <<>>
<1>1. CASE left = <<"unmask", "remove", "forget", "reload">>
  <2>1. Head(left) = "unmask" /\ Tail(left) = <<"remove", "forget", "reload">>
    BY <1>1
  <2>2. <<"remove", "forget", "reload">> # <<>> /\ Head(<<"remove", "forget", "reload">>) = "remove"
    OBVIOUS
  <2> QED BY <2>1, <2>2 DEF DesktopLists
<1>2. CASE left = <<"remove", "forget", "reload">>
  <2>1. Head(left) = "remove" /\ Tail(left) = <<"forget", "reload">>
    BY <1>2
  <2>2. <<"forget", "reload">> # <<>> /\ Head(<<"forget", "reload">>) = "forget"
    OBVIOUS
  <2> QED BY <2>1, <2>2 DEF DesktopLists
<1>3. CASE left = <<"forget", "reload">>
  <2>1. Head(left) = "forget" /\ Tail(left) = <<"reload">>
    BY <1>3
  <2>2. <<"reload">> # <<>> /\ Head(<<"reload">>) = "reload"
    OBVIOUS
  <2> QED BY <2>1, <2>2 DEF DesktopLists
<1>4. CASE left = <<"reload">>
  <2>1. Head(left) = "reload" /\ Tail(left) = <<>>
    BY <1>4
  <2> QED BY <2>1 DEF DesktopLists
<1> QED BY <1>1, <1>2, <1>3, <1>4 DEF DesktopLists

LEMMA RecoverTail ==
  ASSUME NEW left \in RecoverLists, left # <<>>
  PROVE  /\ Tail(left) \in RecoverLists
         /\ Head(left) \in {"unmask", "remove", "forget", "reload", "unmask-all"}
         /\ Head(left) = "unmask" => Tail(left) # <<>> /\ Head(Tail(left)) = "remove"
         /\ Head(left) = "remove" => Tail(left) # <<>> /\ Head(Tail(left)) = "forget"
         /\ Head(left) = "forget" => Tail(left) # <<>> /\ Head(Tail(left)) = "reload"
         /\ Head(left) = "reload" => Tail(left) # <<>> /\ Head(Tail(left)) = "unmask-all"
<1>1. CASE left = <<"unmask", "remove", "forget", "reload", "unmask-all">>
  <2>1. Head(left) = "unmask" /\ Tail(left) = <<"remove", "forget", "reload", "unmask-all">>
    BY <1>1
  <2>2. <<"remove", "forget", "reload", "unmask-all">> # <<>> /\ Head(<<"remove", "forget", "reload", "unmask-all">>) = "remove"
    OBVIOUS
  <2> QED BY <2>1, <2>2 DEF RecoverLists
<1>2. CASE left = <<"remove", "forget", "reload", "unmask-all">>
  <2>1. Head(left) = "remove" /\ Tail(left) = <<"forget", "reload", "unmask-all">>
    BY <1>2
  <2>2. <<"forget", "reload", "unmask-all">> # <<>> /\ Head(<<"forget", "reload", "unmask-all">>) = "forget"
    OBVIOUS
  <2> QED BY <2>1, <2>2 DEF RecoverLists
<1>3. CASE left = <<"forget", "reload", "unmask-all">>
  <2>1. Head(left) = "forget" /\ Tail(left) = <<"reload", "unmask-all">>
    BY <1>3
  <2>2. <<"reload", "unmask-all">> # <<>> /\ Head(<<"reload", "unmask-all">>) = "reload"
    OBVIOUS
  <2> QED BY <2>1, <2>2 DEF RecoverLists
<1>4. CASE left = <<"reload", "unmask-all">>
  <2>1. Head(left) = "reload" /\ Tail(left) = <<"unmask-all">>
    BY <1>4
  <2>2. <<"unmask-all">> # <<>> /\ Head(<<"unmask-all">>) = "unmask-all"
    OBVIOUS
  <2> QED BY <2>1, <2>2 DEF RecoverLists
<1>5. CASE left = <<"unmask-all">>
  <2>1. Head(left) = "unmask-all" /\ Tail(left) = <<>>
    BY <1>5
  <2> QED BY <2>1 DEF RecoverLists
<1> QED BY <1>1, <1>2, <1>3, <1>4, <1>5 DEF RecoverLists
(* A list goes on to a list of the same command, and each of its steps is   *)
(* one of the command's.                                                    *)
LEMMA ListGoesOn ==
  ASSUME NEW left, NEW command \in {"none", "install", "update", "cockpit", "desktop", "recover"},
         InLists(left, command), left # <<>>
  PROVE  /\ InLists(Tail(left), command)
         /\ command # "none"
         /\ command \in {"install", "update"} => Head(left) \in UpdateSteps
         /\ command = "cockpit" => Head(left) \in {"mask", "override", "record", "reload"}
         /\ command = "desktop" => Head(left) \in {"unmask", "remove", "forget", "reload"}
         /\ command = "recover"
            => Head(left) \in {"unmask", "remove", "forget", "reload", "unmask-all"}
<1>1. CASE command = "install"
  BY <1>1, InstallTail DEF InLists
<1>2. CASE command = "update"
  BY <1>2, HeadTailProperties DEF InLists
<1>3. CASE command = "cockpit"
  BY <1>3, CockpitTail DEF InLists
<1>4. CASE command = "desktop"
  BY <1>4, DesktopTail DEF InLists
<1>5. CASE command = "recover"
  BY <1>5, RecoverTail DEF InLists
<1> QED BY <1>1, <1>2, <1>3, <1>4, <1>5 DEF InLists

(* The empty list is one of every command.                                  *)
LEMMA ListEnds == ASSUME NEW command PROVE InLists(<<>>, command)
<1>1. <<>> \in Seq(UpdateSteps)
  OBVIOUS
<1> QED BY <1>1 DEF InLists, InstallLists, CockpitLists, DesktopLists, RecoverLists

------------------------------------------------------- (* what a step does *)

(* The effect on the record of the run: a step is taken, and the rest of    *)
(* the record stays, except that it may no longer be quiet.                 *)
SameRun == /\ run'.command = run.command /\ run'.plan = run.plan
           /\ run'.broken = run.broken /\ (run'.quiet => run.quiet)

Takes(step) == At(step) /\ SameRun /\ run'.left = Tail(run.left)

Commands == {"none", "install", "update", "cockpit", "desktop", "recover"}
Runs == [command : Commands, left : Seq(Steps), plan : Whole, broken : BOOLEAN, quiet : BOOLEAN]

LEMMA Goes ==
  ASSUME TypeOK, NEW step, At(step), run' = Step \/ run' = StepLost
  PROVE  Takes(step) /\ (run' = Step => run'.quiet = run.quiet) /\ (run' = StepLost => ~run'.quiet)
<1>1. run \in Runs
  BY DEF TypeOK, Runs, Commands
<1>2. CASE run' = Step
  BY <1>1, <1>2 DEF Step, StepLost, Runs, Takes, SameRun
<1>3. CASE run' = StepLost
  BY <1>1, <1>3 DEF Step, StepLost, Runs, Takes, SameRun
<1> QED BY <1>2, <1>3

(* Which step each action takes.                                            *)
LEMMA Steppers ==
  ASSUME TypeOK
  PROVE  /\ \A b \in {"cli", "daemon"} : Swap(b) => Takes(b)
         /\ Launcher => Takes("launcher")
         /\ StopDaemon => Takes("stop")
         /\ WriteUnit => Takes("unit")
         /\ RestartDaemon => Takes("restart")
         /\ WriteOverride => Takes("override")
         /\ UpdateGrub => Takes("update-grub")
         /\ WriteRecord => Takes("record")
         /\ Unmask => Takes("unmask")
         /\ Remove => Takes("remove")
         /\ Forget => Takes("forget")
         /\ Reload => Takes("reload")
         /\ UnmaskAll => Takes("unmask-all")
  BY Goes DEF Finishing, Losing, Swap, Launcher, StopDaemon, WriteUnit, RestartDaemon, WriteOverride,
     UpdateGrub, WriteRecord, Unmask, Remove, Forget, Reload, UnmaskAll

(* A run that takes a step is not a broken one, and it was at that step.    *)
LEMMA TakesStep ==
  ASSUME InstallInv, NEW step, Takes(step)
  PROVE  /\ Underway /\ run.left # <<>> /\ Head(run.left) = step /\ ~run.broken
         /\ LeftOK'
<1>1. /\ Underway /\ run.left # <<>> /\ Head(run.left) = step /\ ~run.broken
      /\ InLists(run.left, run.command) /\ run.command \in Commands
  BY DEF Takes, At, Underway, InstallInv, LeftOK, TypeOK, Commands
<1>2. InLists(Tail(run.left), run.command)
  BY <1>1, ListGoesOn DEF Commands
<1> QED BY <1>1, <1>2 DEF Takes, SameRun, LeftOK
--------------------------------------------------------------- (* the types *)

(* The display manager that is found is one of those there are: of those    *)
(* that are installed there is a first one.                                 *)
LEMMA DetectedIsOne == Detected \in DMs \cup {NoDM}
<1>1. CASE Installed = {}
  BY <1>1 DEF Detected
<1>2. CASE Installed # {}
  <2> DEFINE Below == {ss \in Nat \X Nat : ss[1] < ss[2]}
  <2>1. IsWellFoundedOn(Below, Nat)
    BY NatLessThanWellFounded DEF OpToRel
  <2>2. Len(KnownDMs) \in Nat
    BY InstallAssumption, LenProperties
  <2>3. Installed \subseteq Nat
    BY <2>2 DEF Installed
  <2>4. PICK i \in Installed : \A j \in Installed : ~(<<j, i>> \in Below)
    <3> HIDE DEF Below
    <3> QED BY <1>2, <2>1, <2>3, WFMin
  <2>5. \A j \in Installed : i <= j
    <3> SUFFICES ASSUME NEW j \in Installed PROVE i <= j
      OBVIOUS
    <3>1. i \in Nat /\ j \in Nat
      BY <2>3
    <3>2. ~(<<j, i>> \in Below) => i <= j
      BY <3>1 DEF Below
    <3> QED BY <2>4, <3>2
  <2>6. (CHOOSE k \in Installed : \A j \in Installed : k <= j) \in Installed
    BY <2>5
  <2> QED BY <1>2, <2>6 DEF Detected, Installed, DMs
<1> QED BY <1>1, <1>2

LEMMA TypesStep ==
  ASSUME InstallInv, Next
  PROVE  TypeOK'
<1>1. /\ TypeOK /\ run \in Runs
      /\ Releases \in Nat /\ Releases >= 1 /\ MaxBreaks \in Nat
      /\ \A i \in Whole : i \in Contents /\ i # Absent /\ i # Torn /\ i \in Nat
      /\ Torn \in Contents /\ Absent \in Contents /\ Torn # Absent
  BY InstallAssumption, SMTT(30) DEF InstallInv, TypeOK, Runs, Commands, Contents, Whole, Absent, Torn
<1>2. ASSUME Underway PROVE Step \in Runs /\ StepLost \in Runs /\ Tail(run.left) \in Seq(Steps)
  <2>1. run.left \in Seq(Steps) /\ Tail(run.left) \in Seq(Steps)
    BY <1>1, <1>2, HeadTailProperties DEF Underway, Runs
  <2> QED BY <1>1, <2>1 DEF Step, StepLost, Runs
<1>3. ASSUME Losing PROVE breaks' \in 0..MaxBreaks
  BY <1>1, <1>3 DEF Losing, TypeOK
<1>4. ASSUME Underway, NEW left \in Seq(Steps)
      PROVE  /\ [run EXCEPT !.left = left] \in Runs
             /\ [run EXCEPT !.left = left, !.quiet = FALSE] \in Runs
             /\ [run EXCEPT !.left = left, !.broken = TRUE] \in Runs
  BY <1>1, <1>4 DEF Runs
<1>5. /\ <<>> \in Seq(Steps) /\ <<"override", "reload">> \in Seq(Steps)
      /\ <<"unmask-all">> \in Seq(Steps) /\ <<"update-grub">> \in Seq(Steps)
  BY DEF Steps
<1>6. ASSUME NEW command \in Commands, NEW steps \in Seq(Steps), NEW plan \in Whole,
             Start(command, steps, plan), freed' \in 0..2
      PROVE  TypeOK'
  <2>1. run' \in Runs
    BY <1>6 DEF Start, Runs
  <2> QED BY <1>1, <1>6, <2>1 DEF Start, TypeOK, Runs, hostVars, binVars, modeVars, grubVars, Commands
<1>7. CASE StartInstall \/ StartUpdate
  <2>1. /\ \A adjunct \in BOOLEAN : InstallSteps(adjunct) \in Seq(UpdateSteps)
        /\ UpdateSteps \subseteq Steps
    BY UpdateStart DEF UpdateSteps, Steps
  <2>2. \A adjunct \in BOOLEAN : InstallSteps(adjunct) \in Seq(Steps)
    BY <2>1
  <2>3. release \in Whole /\ freed \in 0..2
    BY <1>1 DEF TypeOK, Whole
  <2> QED BY <1>6, <1>7, <2>2, <2>3 DEF StartInstall, StartUpdate, Commands
<1>8. CASE StartCockpit \/ StartDesktop \/ StartRecover
  <2>1. /\ <<"mask", "override", "record", "reload">> \in Seq(Steps)
        /\ <<"unmask", "remove", "forget", "reload">> \in Seq(Steps)
        /\ <<"unmask", "remove", "forget", "reload", "unmask-all">> \in Seq(Steps)
    BY DEF Steps
  <2>2. freed \in 0..2 /\ 0 \in 0..2
    BY <1>1 DEF TypeOK
  <2> QED BY <1>6, <1>8, <2>1, <2>2 DEF StartCockpit, StartDesktop, StartRecover, Commands
<1>9. ASSUME NEW b \in {"cli", "daemon"}, Swap(b) PROVE TypeOK'
  <2>1. bin' \in [{"cli", "daemon"} -> Contents]
    BY <1>1, <1>9 DEF Swap, TypeOK, Runs
  <2> QED BY <1>1, <1>2, <1>9, <2>1
          DEF Swap, Finishing, At, TypeOK, Runs, Commands, hostVars, modeVars, grubVars
<1>10. CASE Launcher
  BY <1>1, <1>2, <1>10
     DEF Launcher, Finishing, At, TypeOK, Runs, Commands, hostVars, binVars, modeVars, grubVars
<1>11. CASE StopDaemon
  BY <1>1, <1>2, <1>3, <1>11
     DEF StopDaemon, Finishing, Losing, At, TypeOK, Runs, Commands, hostVars, modeVars, grubVars
<1>12. CASE WriteUnit
  <2>1. unit' \in Contents
    BY <1>1, <1>12 DEF WriteUnit, Runs
  <2> QED BY <1>1, <1>2, <1>12, <2>1
          DEF WriteUnit, Finishing, At, TypeOK, Runs, Commands, hostVars, modeVars, grubVars
<1>13. Started \in Whole \cup {Absent}
  BY DEF Started
<1>14. CASE RestartDaemon
  BY <1>1, <1>2, <1>13, <1>14
     DEF RestartDaemon, Restarted, Finishing, At, TypeOK, Runs, Commands, hostVars, modeVars, grubVars
<1>15. CASE WriteOverride
  <2>1. override' \in Contents
    BY <1>1, <1>15 DEF WriteOverride, Runs
  <2> QED BY <1>1, <1>2, <1>15, <2>1
          DEF WriteOverride, Finishing, At, TypeOK, Runs, Commands, hostVars, binVars, grubVars
<1>16. CASE RefreshSnippet
  <2>1. snippet' \in Contents
    BY <1>1, <1>16 DEF RefreshSnippet, Runs, TypeOK
  <2>2. <<"update-grub">> \o Tail(run.left) \in Seq(Steps)
    BY <1>2, <1>5, <1>16, ConcatProperties DEF RefreshSnippet, At
  <2>3. run' \in Runs
    BY <1>2, <1>4, <1>16, <2>2 DEF RefreshSnippet, At
  <2> QED BY <1>1, <1>16, <2>1, <2>3
          DEF RefreshSnippet, TypeOK, Runs, Commands, hostVars, binVars, modeVars
<1>17. CASE UpdateGrub
  BY <1>1, <1>2, <1>17
     DEF UpdateGrub, Finishing, At, TypeOK, Runs, Commands, hostVars, binVars, modeVars
<1>18. CASE SmokeTest
  <2>1. run' \in Runs
    BY <1>2, <1>4, <1>5, <1>18 DEF SmokeTest, At
  <2> QED BY <1>1, <1>18, <2>1
          DEF SmokeTest, TypeOK, Runs, Commands, hostVars, binVars, modeVars, grubVars
<1>19. CASE Mask
  <2>1. run' \in Runs /\ breaks' = breaks
    BY <1>2, <1>4, <1>5, <1>19 DEF Mask, Finishing, At
  <2>2. masked' \subseteq DMs
    BY <1>1, <1>19, DetectedIsOne DEF Mask, TypeOK
  <2> QED BY <1>1, <1>19, <2>1, <2>2
          DEF Mask, TypeOK, Runs, Commands, hostVars, binVars, grubVars
<1>20. CASE DetectFails
  <2>0. breaks' \in 0..MaxBreaks
    BY <1>1, <1>20 DEF DetectFails, TypeOK
  <2>1. run' \in Runs
    BY <1>4, <1>5, <1>20 DEF DetectFails, At
  <2> QED BY <1>1, <1>20, <2>0, <2>1
          DEF DetectFails, TypeOK, Runs, Commands, hostVars, binVars, modeVars, grubVars
<1>21. CASE WriteRecord
  BY <1>1, <1>2, <1>21, DetectedIsOne
     DEF WriteRecord, Finishing, At, TypeOK, Runs, Commands, hostVars, binVars, grubVars
<1>22. CASE Unmask
  <2>1. masked' \subseteq DMs
    BY <1>1, <1>22 DEF Unmask, TypeOK
  <2>2. run' \in Runs /\ breaks' \in 0..MaxBreaks
    BY <1>1, <1>2, <1>3, <1>22 DEF Unmask, Finishing, Losing, At, TypeOK
  <2> QED BY <1>1, <1>22, <2>1, <2>2
          DEF Unmask, TypeOK, Runs, Commands, hostVars, binVars, grubVars
<1>23. CASE Remove
  BY <1>1, <1>2, <1>23
     DEF Remove, Finishing, At, TypeOK, Runs, Commands, hostVars, binVars, grubVars
<1>24. CASE Forget
  <2>1. run' \in Runs /\ breaks' \in 0..MaxBreaks
    BY <1>1, <1>2, <1>3, <1>24 DEF Forget, Finishing, Losing, At, TypeOK
  <2> QED BY <1>1, <1>24, <2>1
          DEF Forget, Forgotten, TypeOK, Runs, Commands, hostVars, binVars, grubVars
<1>25. CASE Reload
  <2>1. freed' \in 0..2
    BY <1>1, <1>25 DEF Reload, TypeOK
  <2> QED BY <1>1, <1>2, <1>25, <2>1
          DEF Reload, Finishing, At, TypeOK, Runs, Commands, hostVars, binVars, modeVars, grubVars
<1>26. CASE DisableFails
  <2>0. breaks' \in 0..MaxBreaks /\ freed' \in 0..2
    BY <1>1, <1>26 DEF DisableFails, TypeOK
  <2>1. run' \in Runs
    BY <1>4, <1>5, <1>26 DEF DisableFails, At, StillToRecover
  <2> QED BY <1>1, <1>26, <2>0, <2>1
          DEF DisableFails, TypeOK, Runs, Commands, hostVars, binVars, modeVars, grubVars
<1>27. CASE UnmaskAll
  <2>1. masked' \subseteq DMs
    BY <1>1, <1>27 DEF UnmaskAll, TypeOK
  <2>2. run' \in Runs /\ breaks' \in 0..MaxBreaks
    BY <1>1, <1>2, <1>3, <1>27 DEF UnmaskAll, Finishing, Losing, At, TypeOK
  <2> QED BY <1>1, <1>27, <2>1, <2>2
          DEF UnmaskAll, TypeOK, Runs, Commands, hostVars, binVars, grubVars
<1>28. CASE Break
  <2>1. bin' \in [{"cli", "daemon"} -> Contents]
    BY <1>1, <1>28 DEF Break, TypeOK
  <2>2. unit' \in Contents /\ override' \in Contents /\ snippet' \in Contents
    BY <1>1, <1>28 DEF Break, Ruined, TypeOK
  <2>3. record' \in DMs \cup {NoDM, Garbled} /\ enabled' \in BOOLEAN /\ (enabled => enabled')
    BY <1>1, <1>28 DEF Break, TypeOK
  <2>4. run' \in Runs
    BY <1>4, <1>5, <1>28 DEF Break
  <2>6. breaks' \in 0..MaxBreaks /\ freed' \in 0..2
    BY <1>1, <1>28 DEF Break, TypeOK
  <2>5. UNCHANGED <<release, dms, daemon, masked, cmdline>>
    BY <1>28 DEF Break, hostVars
  <2> QED BY <1>1, <2>1, <2>2, <2>3, <2>4, <2>5, <2>6 DEF TypeOK, Runs, Commands
<1>29. CASE NewRelease
  BY <1>1, <1>29
     DEF NewRelease, TypeOK, Runs, Commands, binVars, modeVars, grubVars
<1>30. ASSUME NEW d \in DMs, InstallDM(d) PROVE TypeOK'
  BY <1>1, <1>30
     DEF InstallDM, TypeOK, Runs, Commands, binVars, modeVars, grubVars
<1>31. CASE Reboot
  <2>1. daemon' \in Whole \cup {Absent} /\ (daemon' # Absent => enabled')
    BY <1>1, <1>13, <1>31 DEF Reboot
  <2> QED BY <1>1, <1>31, <2>1
          DEF Reboot, TypeOK, Runs, Commands, hostVars, modeVars, grubVars
<1>32. CASE HostUpdatesGrub
  BY <1>1, <1>32
     DEF HostUpdatesGrub, TypeOK, Runs, Commands, hostVars, binVars, modeVars
<1> QED BY <1>7, <1>8, <1>9, <1>10, <1>11, <1>12, <1>14, <1>15, <1>16, <1>17, <1>18, <1>19,
           <1>20, <1>21, <1>22, <1>23, <1>24, <1>25, <1>26, <1>27, <1>28, <1>29, <1>30,
           <1>31, <1>32 DEF Next, Tool
-------------------------------------------------------- (* the list goes on *)

LEMMA LeftStep ==
  ASSUME InstallInv, Next
  PROVE  LeftOK'
<1>1. TypeOK /\ run \in Runs /\ InLists(run.left, run.command) /\ (run.broken => run.left = <<>>)
  BY DEF InstallInv, LeftOK, TypeOK, Runs, Commands
<1>2. ASSUME NEW step, Takes(step) PROVE LeftOK'
  BY <1>2, TakesStep
<1>3. ASSUME NEW command, NEW steps, NEW plan, Start(command, steps, plan), InLists(steps, command)
      PROVE  LeftOK'
  <2>1. run'.command = command /\ run'.left = steps /\ run'.broken = FALSE
    BY <1>3 DEF Start
  <2> QED BY <1>3, <2>1 DEF LeftOK
<1>4. ASSUME run'.left = <<>> PROVE LeftOK'
  BY <1>4, ListEnds DEF LeftOK
<1>5. ASSUME Underway
      PROVE  /\ run.command \in {"install", "update"} => Head(run.left) \in UpdateSteps
             /\ run.command = "cockpit" => Head(run.left) \in {"mask", "override", "record", "reload"}
             /\ run.command \in {"desktop", "recover"}
                => Head(run.left) \in {"unmask", "remove", "forget", "reload", "unmask-all"}
             /\ run.command # "none" /\ run.broken = FALSE
  BY <1>1, <1>5, ListGoesOn DEF Underway, Runs, Commands
<1>6. CASE StartInstall \/ StartUpdate
  <2>1. InLists(InstallSteps(TRUE), "install")
    BY InstallStart DEF InLists
  <2>2. \A adjunct \in BOOLEAN : InLists(InstallSteps(adjunct), "update")
    BY UpdateStart DEF InLists
  <2> QED BY <1>3, <1>6, <2>1, <2>2 DEF StartInstall, StartUpdate
<1>7. CASE StartCockpit \/ StartDesktop \/ StartRecover
  <2>1. /\ InLists(<<"mask", "override", "record", "reload">>, "cockpit")
        /\ InLists(<<"unmask", "remove", "forget", "reload">>, "desktop")
        /\ InLists(<<"unmask", "remove", "forget", "reload", "unmask-all">>, "recover")
    BY DEF InLists, CockpitLists, DesktopLists, RecoverLists
  <2> QED BY <1>3, <1>7, <2>1 DEF StartCockpit, StartDesktop, StartRecover
<1>8. ASSUME NEW b \in {"cli", "daemon"}, Swap(b) PROVE LeftOK'
  BY <1>1, <1>2, <1>8, Steppers
<1>9. CASE Launcher \/ StopDaemon \/ WriteUnit \/ RestartDaemon \/ WriteOverride \/ UpdateGrub
           \/ WriteRecord \/ Unmask \/ Remove \/ Forget \/ Reload \/ UnmaskAll
  BY <1>1, <1>2, <1>9, Steppers
<1>10. CASE RefreshSnippet
  <2>1. At("snippet") /\ Underway /\ Head(run.left) = "snippet" /\ run.left # <<>>
    BY <1>10 DEF RefreshSnippet, At, Underway
  <2>2. CASE run' = Step
    BY <1>1, <1>2, <2>1, <2>2, Goes
  <2>3. CASE run' = [run EXCEPT !.left = <<"update-grub">> \o Tail(@)]
    <3>1. run.command \in {"install", "update"} /\ run.broken = FALSE
      BY <1>1, <1>5, <2>1 DEF Runs, Commands
    <3>2. run.command = "install" => <<"update-grub">> \o Tail(run.left) \in InstallLists
      BY <1>1, <2>1, InstallTail DEF InLists
    <3>3. run.command = "update" => <<"update-grub">> \o Tail(run.left) \in Seq(UpdateSteps)
      <4>1. <<"update-grub">> \in Seq(UpdateSteps)
        BY DEF UpdateSteps
      <4> QED BY <1>1, <2>1, <4>1, HeadTailProperties, ConcatProperties DEF InLists
    <3>4. /\ run'.command = run.command /\ run'.broken = run.broken
          /\ run'.left = <<"update-grub">> \o Tail(run.left)
      BY <1>1, <2>3 DEF Runs
    <3> QED BY <3>1, <3>2, <3>3, <3>4 DEF LeftOK, InLists
  <2> QED BY <1>10, <2>2, <2>3 DEF RefreshSnippet
<1>11. CASE SmokeTest
  <2>1. CASE run' = Step
    BY <1>1, <1>2, <1>11, <2>1, Goes DEF SmokeTest
  <2>2. CASE run' = [run EXCEPT !.left = <<>>, !.broken = TRUE]
    BY <1>1, <1>4, <2>2 DEF Runs
  <2> QED BY <1>11, <2>1, <2>2 DEF SmokeTest
<1>12. ASSUME At("mask"), \/ run' = [run EXCEPT !.left = <<"override", "reload">>]
                          \/ run' = [run EXCEPT !.left = <<"override", "reload">>, !.quiet = FALSE]
       PROVE  LeftOK'
  <2>1. run.command = "cockpit" /\ run.broken = FALSE
    BY <1>1, <1>5, <1>12 DEF At, Runs, Commands, UpdateSteps
  <2>2. /\ run'.command = run.command /\ run'.broken = run.broken
        /\ run'.left = <<"override", "reload">>
    BY <1>1, <1>12 DEF Runs
  <2>3. InLists(<<"override", "reload">>, "cockpit")
    BY DEF InLists, CockpitLists
  <2> QED BY <2>1, <2>2, <2>3 DEF LeftOK
<1>13. CASE Mask
  BY <1>1, <1>2, <1>12, <1>13, Goes DEF Mask, Finishing
<1>14. CASE DetectFails
  BY <1>12, <1>14 DEF DetectFails
<1>15. CASE DisableFails
  <2>1. run.command = "recover" /\ run.broken = FALSE
    BY <1>5, <1>15 DEF DisableFails, At
  <2>2. /\ run'.command = run.command /\ run'.broken = run.broken
        /\ run'.left = <<"unmask-all">>
    BY <1>1, <1>15 DEF DisableFails, StillToRecover, Runs
  <2>3. InLists(<<"unmask-all">>, "recover")
    BY DEF InLists, RecoverLists
  <2> QED BY <2>1, <2>2, <2>3 DEF LeftOK
<1>16. CASE Break
  BY <1>1, <1>4, <1>16 DEF Break, Runs
<1>17. CASE NewRelease \/ Reboot \/ HostUpdatesGrub \/ \E d \in DMs : InstallDM(d)
  <2>1. run' = run
    BY <1>17 DEF NewRelease, Reboot, HostUpdatesGrub, InstallDM
  <2> QED BY <1>1, <2>1 DEF LeftOK
<1> QED BY <1>6, <1>7, <1>8, <1>9, <1>10, <1>11, <1>13, <1>14, <1>15, <1>16, <1>17 DEF Next, Tool

------------------------------------------------------------- (* an install *)

(* Where a run that takes a step comes to, for an install.                  *)
LEMMA InstallMoves ==
  ASSUME InstallInv, NEW step, Takes(step), run.command = "install"
  PROVE  /\ step = "cli" => AtOne({"launcher"})'
         /\ step = "launcher" => AtOne({"stop"})'
         /\ step = "stop" => AtOne({"daemon"})'
         /\ step = "daemon" => AtOne({"unit"})'
         /\ step = "unit" => AtOne({"restart"})'
         /\ step = "restart" => AtOne({"override"})'
         /\ step \in UpdateSteps
<1>1. run.left \in InstallLists /\ run.left # <<>> /\ Head(run.left) = step
  BY TakesStep DEF InstallInv, LeftOK, InLists
<1>2. run'.left = Tail(run.left)
  BY DEF Takes
<1>3. /\ step \in UpdateSteps
      /\ step = "cli" => run'.left # <<>> /\ Head(run'.left) = "launcher"
      /\ step = "launcher" => run'.left # <<>> /\ Head(run'.left) = "stop"
      /\ step = "stop" => run'.left # <<>> /\ Head(run'.left) = "daemon"
      /\ step = "daemon" => run'.left # <<>> /\ Head(run'.left) = "unit"
      /\ step = "unit" => run'.left # <<>> /\ Head(run'.left) = "restart"
      /\ step = "restart" => run'.left # <<>> /\ Head(run'.left) = "override"
  BY <1>1, <1>2, InstallTail
<1> QED BY <1>3 DEF AtOne, Underway
LEMMA InstallStep ==
  ASSUME InstallInv, Next
  PROVE  InstallOK'
<1> SUFFICES ASSUME run'.command = "install", ~run'.broken
             PROVE  /\ AtOne({"cli"})' \/ bin'["cli"] = run'.plan
                    /\ AtOne({"cli", "launcher", "stop", "daemon"})' \/ bin'["daemon"] = run'.plan
                    /\ AtOne({"cli", "launcher", "stop", "daemon", "unit"})' \/ unit' = run'.plan
                    /\ \/ AtOne({"cli", "launcher", "stop", "daemon", "unit", "restart"})'
                       \/ daemon' = run'.plan
                    /\ \/ AtOne({"cli", "launcher", "stop", "daemon", "unit", "restart", "override"})'
                       \/ override' \in {Absent, run'.plan}
  BY DEF InstallOK
<1>1. /\ TypeOK /\ run \in Runs
      /\ \A i \in Whole : i # Absent
  BY InstallAssumption DEF InstallInv, TypeOK, Runs, Commands, Whole, Absent
<1>2. ASSUME run.command = "install", ~run.broken
      PROVE  /\ AtOne({"cli"}) \/ bin["cli"] = run.plan
             /\ AtOne({"cli", "launcher", "stop", "daemon"}) \/ bin["daemon"] = run.plan
             /\ AtOne({"cli", "launcher", "stop", "daemon", "unit"}) \/ unit = run.plan
             /\ AtOne({"cli", "launcher", "stop", "daemon", "unit", "restart"}) \/ daemon = run.plan
             /\ \/ AtOne({"cli", "launcher", "stop", "daemon", "unit", "restart", "override"})
                \/ override \in {Absent, run.plan}
  BY <1>2 DEF InstallInv, InstallOK
<1>3. ASSUME NEW step, Takes(step)
      PROVE  /\ run.command = "install" /\ ~run.broken /\ run'.plan = run.plan
             /\ \A steps : AtOne(steps) <=> step \in steps
             /\ step = "cli" => AtOne({"launcher"})'
             /\ step = "launcher" => AtOne({"stop"})'
             /\ step = "stop" => AtOne({"daemon"})'
             /\ step = "daemon" => AtOne({"unit"})'
             /\ step = "unit" => AtOne({"restart"})'
             /\ step = "restart" => AtOne({"override"})'
             /\ step \in UpdateSteps
  <2>1. run.command = "install" /\ ~run.broken /\ run'.plan = run.plan
    BY <1>3 DEF Takes, SameRun
  <2>2. \A steps : AtOne(steps) <=> step \in steps
    BY <1>3 DEF Takes, At, AtOne
  <2> QED BY <1>3, <2>1, <2>2, InstallMoves
<1>4. \A s, t : s \subseteq t /\ AtOne(s)' => AtOne(t)'
  BY DEF AtOne
<1>5. CASE StartInstall
  <2>1. run'.left = InstallSteps(TRUE)
    BY <1>5 DEF StartInstall, Start
  <2>2. AtOne({"cli"})'
    BY <2>1, InstallStart DEF AtOne, Underway
  <2> QED BY <1>4, <2>2
<1>6. CASE StartUpdate \/ StartCockpit \/ StartDesktop \/ StartRecover
  BY <1>6 DEF StartUpdate, StartCockpit, StartDesktop, StartRecover, Start
<1>7. ASSUME NEW b \in {"cli", "daemon"}, Swap(b) PROVE InstallOK'
  <2>1. /\ run.command = "install" /\ ~run.broken /\ run'.plan = run.plan
        /\ \A steps : AtOne(steps) <=> b \in steps
        /\ b = "cli" => AtOne({"launcher"})'
        /\ b = "daemon" => AtOne({"unit"})'
    BY <1>1, <1>3, <1>7, Steppers
  <2>2. /\ bin'[b] = run.plan /\ \A c \in {"cli", "daemon"} : c # b => bin'[c] = bin[c]
        /\ UNCHANGED <<unit, daemon, override>>
    BY <1>1, <1>7, <2>1 DEF Swap, TypeOK, modeVars
  <2>3. CASE b = "cli"
    <3>1. AtOne({"launcher"})' /\ bin'["cli"] = run'.plan
      BY <2>1, <2>2, <2>3
    <3> QED BY <1>4, <3>1 DEF InstallOK
  <2>4. CASE b = "daemon"
    <3>1. AtOne({"unit"})' /\ bin'["daemon"] = run'.plan /\ bin'["cli"] = bin["cli"]
      BY <2>1, <2>2, <2>4
    <3>2. bin["cli"] = run'.plan
      BY <1>2, <2>1, <2>4
    <3> QED BY <1>4, <3>1, <3>2 DEF InstallOK
  <2> QED BY <2>3, <2>4
<1>8. CASE Launcher \/ StopDaemon
  <2>1. PICK step \in {"launcher", "stop"} : Takes(step)
    BY <1>1, <1>8, Steppers
  <2>2. AtOne({"stop", "daemon"})'
    BY <1>3, <1>4, <2>1
  <2>3. bin'["cli"] = run'.plan
    BY <1>2, <1>3, <1>8, <2>1 DEF Launcher, StopDaemon, binVars
  <2> QED BY <1>4, <2>2, <2>3
<1>9. CASE WriteUnit
  <2>1. Takes("unit")
    BY <1>1, <1>9, Steppers
  <2>2. AtOne({"restart"})' /\ unit' = run'.plan /\ bin' = bin
    BY <1>3, <1>9, <2>1 DEF WriteUnit
  <2>3. bin["cli"] = run'.plan /\ bin["daemon"] = run'.plan
    BY <1>2, <1>3, <2>1
  <2> QED BY <1>4, <2>2, <2>3
<1>10. CASE RestartDaemon
  <2>1. Takes("restart")
    BY <1>1, <1>10, Steppers
  <2>2. AtOne({"override"})' /\ bin' = bin /\ unit' = unit /\ run'.plan \in Whole
    BY <1>1, <1>3, <1>10, <2>1 DEF RestartDaemon, Runs
  <2>3. bin["cli"] = run'.plan /\ bin["daemon"] = run'.plan /\ unit = run'.plan
    BY <1>2, <1>3, <2>1
  <2>4. daemon' = run'.plan
    BY <1>10, <2>2, <2>3 DEF RestartDaemon, Restarted, Started
  <2> QED BY <1>4, <2>2, <2>3, <2>4
<1>11. CASE WriteOverride
  <2>1. Takes("override")
    BY <1>1, <1>11, Steppers
  <2>2. /\ bin["cli"] = run'.plan /\ bin["daemon"] = run'.plan /\ unit = run'.plan
        /\ daemon = run'.plan
    BY <1>2, <1>3, <2>1
  <2>3. override' \in {Absent, run'.plan} /\ UNCHANGED <<bin, unit, daemon>>
    BY <1>3, <1>11, <2>1 DEF WriteOverride, binVars
  <2> QED BY <2>2, <2>3
<1>12. ASSUME UNCHANGED <<bin, unit, daemon, override>>, run'.plan = run.plan,
              run.command = "install", ~run.broken,
              ~AtOne({"cli", "launcher", "stop", "daemon", "unit", "restart", "override"})
       PROVE  InstallOK'
  <2>1. /\ ~AtOne({"cli"}) /\ ~AtOne({"cli", "launcher", "stop", "daemon"})
        /\ ~AtOne({"cli", "launcher", "stop", "daemon", "unit"})
        /\ ~AtOne({"cli", "launcher", "stop", "daemon", "unit", "restart"})
    BY <1>12 DEF AtOne
  <2> QED BY <1>2, <1>12, <2>1 DEF InstallOK
<1>13. CASE RefreshSnippet
  <2>1. run'.plan = run.plan /\ run.command = "install" /\ ~run.broken
    BY <1>1, <1>13 DEF RefreshSnippet, Step, Runs
  <2>2. /\ UNCHANGED <<bin, unit, daemon, override>>
        /\ ~AtOne({"cli", "launcher", "stop", "daemon", "unit", "restart", "override"})
    BY <1>13 DEF RefreshSnippet, At, AtOne, binVars, modeVars
  <2> QED BY <1>12, <2>1, <2>2 DEF InstallOK
<1>14. CASE UpdateGrub
  <2>1. run'.plan = run.plan /\ run.command = "install" /\ ~run.broken
    BY <1>1, <1>3, <1>14, Steppers
  <2>2. /\ UNCHANGED <<bin, unit, daemon, override>>
        /\ ~AtOne({"cli", "launcher", "stop", "daemon", "unit", "restart", "override"})
    BY <1>14 DEF UpdateGrub, At, AtOne, binVars, modeVars
  <2> QED BY <1>12, <2>1, <2>2 DEF InstallOK
<1>15. CASE SmokeTest
  <2>1. run' = Step
    BY <1>1, <1>15 DEF SmokeTest, Runs
  <2>2. run'.plan = run.plan /\ run.command = "install" /\ ~run.broken
    BY <1>1, <2>1 DEF Step, Runs
  <2>3. /\ UNCHANGED <<bin, unit, daemon, override>>
        /\ ~AtOne({"cli", "launcher", "stop", "daemon", "unit", "restart", "override"})
    BY <1>15 DEF SmokeTest, At, AtOne, binVars, modeVars
  <2> QED BY <1>12, <2>2, <2>3 DEF InstallOK
<1>16. CASE Mask \/ DetectFails
  <2>1. run.command = "install" /\ run.left # <<>> /\ Head(run.left) = "mask"
    BY <1>1, <1>16 DEF Mask, DetectFails, Finishing, At, Underway, Step, Runs
  <2>2. Head(run.left) \in UpdateSteps
    BY <2>1, InstallTail DEF InstallInv, LeftOK, InLists
  <2> QED BY <2>1, <2>2 DEF UpdateSteps
<1>17. CASE WriteRecord \/ Unmask \/ Remove \/ Forget \/ Reload \/ UnmaskAll
  <2>1. PICK step \in {"record", "unmask", "remove", "forget", "reload", "unmask-all"} : Takes(step)
    BY <1>1, <1>17, Steppers
  <2> QED BY <1>3, <2>1 DEF UpdateSteps
<1>18. CASE DisableFails
  BY <1>1, <1>18 DEF DisableFails, Runs
<1>19. CASE Break
  BY <1>1, <1>19 DEF Break, Runs
<1>20. ASSUME ~Underway, run' = run
       PROVE  /\ run.command = "install" /\ ~run.broken
              /\ bin["cli"] = run.plan /\ bin["daemon"] = run.plan /\ unit = run.plan
              /\ daemon = run.plan /\ override \in {Absent, run.plan}
  BY <1>2, <1>20 DEF AtOne
<1>21. CASE NewRelease \/ HostUpdatesGrub \/ \E d \in DMs : InstallDM(d)
  <2>1. ~Underway /\ run' = run /\ UNCHANGED <<bin, unit, daemon, override>>
    BY <1>21 DEF NewRelease, HostUpdatesGrub, InstallDM, binVars, modeVars
  <2> QED BY <1>20, <2>1
<1>22. CASE Reboot
  <2>1. ~Underway /\ run' = run /\ UNCHANGED <<bin, unit, override>>
    BY <1>22 DEF Reboot, modeVars
  <2>2. /\ bin["cli"] = run.plan /\ bin["daemon"] = run.plan /\ unit = run.plan
        /\ daemon = run.plan /\ override \in {Absent, run.plan}
    BY <1>20, <2>1
  <2>3. run.plan \in Whole /\ enabled
    BY <1>1, <2>2 DEF Runs, TypeOK
  <2>4. daemon' = run.plan
    BY <1>22, <2>2, <2>3 DEF Reboot, Started
  <2> QED BY <2>1, <2>2, <2>4
<1> QED BY <1>5, <1>6, <1>7, <1>8, <1>9, <1>10, <1>11, <1>13, <1>14, <1>15, <1>16, <1>17,
           <1>18, <1>19, <1>21, <1>22 DEF Next, Tool, InstallOK
----------------------------------------------- (* freeing the display managers *)

(* Where a run that takes a step comes to, for the two runs that free the   *)
(* display managers.                                                        *)
LEMMA FreeMoves ==
  ASSUME InstallInv, NEW step, Takes(step), run.command \in {"desktop", "recover"}
  PROVE  /\ step = "unmask" => AtOne({"remove"})'
         /\ step = "remove" => AtOne({"forget"})'
         /\ step = "forget" => AtOne({"reload"})'
         /\ step = "reload" => ~AtOne({"remove", "forget", "reload"})'
         /\ step = "unmask-all" => ~AtOne({"remove", "forget", "reload"})'
         /\ step # "unmask-all" /\ run.command = "recover" => run'.left # <<>>
         /\ step \in {"unmask", "remove", "forget", "reload", "unmask-all"}
<1>1. run.left # <<>> /\ Head(run.left) = step /\ run'.left = Tail(run.left)
  BY TakesStep DEF Takes
<1>2. CASE run.command = "desktop"
  <2>1. run.left \in DesktopLists
    BY <1>2 DEF InstallInv, LeftOK, InLists
  <2>2. /\ step \in {"unmask", "remove", "forget", "reload"}
        /\ step = "unmask" => run'.left # <<>> /\ Head(run'.left) = "remove"
        /\ step = "remove" => run'.left # <<>> /\ Head(run'.left) = "forget"
        /\ step = "forget" => run'.left # <<>> /\ Head(run'.left) = "reload"
        /\ step = "reload" => run'.left = <<>>
    BY <1>1, <2>1, DesktopTail
  <2> QED BY <1>2, <2>2 DEF AtOne, Underway
<1>3. CASE run.command = "recover"
  <2>1. run.left \in RecoverLists
    BY <1>3 DEF InstallInv, LeftOK, InLists
  <2>2. /\ step \in {"unmask", "remove", "forget", "reload", "unmask-all"}
        /\ step = "unmask" => run'.left # <<>> /\ Head(run'.left) = "remove"
        /\ step = "remove" => run'.left # <<>> /\ Head(run'.left) = "forget"
        /\ step = "forget" => run'.left # <<>> /\ Head(run'.left) = "reload"
        /\ step = "reload" => run'.left # <<>> /\ Head(run'.left) = "unmask-all"
    BY <1>1, <2>1, RecoverTail
  <2>3. step = "unmask-all" => run'.left = <<>>
    <3> SUFFICES ASSUME step = "unmask-all" PROVE run'.left = <<>>
      OBVIOUS
    <3>1. run.left = <<"unmask-all">>
      BY <1>1, <2>1 DEF RecoverLists
    <3>2. Tail(<<"unmask-all">>) = <<>>
      OBVIOUS
    <3> QED BY <1>1, <3>1, <3>2
  <2> QED BY <2>2, <2>3 DEF AtOne, Underway
<1> QED BY <1>2, <1>3

(* The steps of the other commands.                                         *)
LEMMA FreeSteps ==
  ASSUME InstallInv, NEW step, At(step)
  PROVE  /\ step \in {"unmask", "forget", "remove", "unmask-all"}
            => run.command \in {"desktop", "recover"}
         /\ step = "unmask-all" => run.command = "recover"
         /\ step \in {"mask", "record"} => run.command = "cockpit"
         /\ step \in {"cli", "launcher", "stop", "daemon", "unit", "restart", "snippet",
                      "update-grub", "smoke"} => run.command \in {"install", "update"}
         /\ step = "override" => run.command \in {"install", "update", "cockpit"}
         /\ step = "reload" => run.command \in {"cockpit", "desktop", "recover"}
<1>1. /\ run.command \in Commands /\ InLists(run.left, run.command)
      /\ run.left # <<>> /\ Head(run.left) = step
  BY DEF InstallInv, LeftOK, TypeOK, Commands, At, Underway
<1>2. /\ run.command # "none"
      /\ run.command \in {"install", "update"} => step \in UpdateSteps
      /\ run.command = "cockpit" => step \in {"mask", "override", "record", "reload"}
      /\ run.command = "desktop" => step \in {"unmask", "remove", "forget", "reload"}
      /\ run.command = "recover" => step \in {"unmask", "remove", "forget", "reload", "unmask-all"}
  BY <1>1, ListGoesOn DEF Commands
<1> QED BY <1>1, <1>2 DEF Commands, UpdateSteps

(* What a run begins with.                                                  *)
LEMMA Starts ==
  /\ StartInstall => run'.command = "install" /\ UNCHANGED <<freed, masked, override, record>>
  /\ StartUpdate => run'.command = "update" /\ UNCHANGED <<freed, masked, override, record>>
  /\ StartCockpit => run'.command = "cockpit"
  /\ StartDesktop => /\ run'.command = "desktop" /\ UNCHANGED <<freed, masked, override, record>>
                     /\ run'.left # <<>> /\ Head(run'.left) = "unmask"
  /\ StartRecover => /\ run'.command = "recover" /\ UNCHANGED <<freed, masked, override, record>>
                     /\ run'.left # <<>> /\ Head(run'.left) = "unmask"
<1>1. ASSUME NEW command, NEW steps, NEW plan, Start(command, steps, plan)
      PROVE  run'.command = command /\ run'.left = steps /\ UNCHANGED <<masked, override, record>>
  BY <1>1 DEF Start, modeVars
<1>2. /\ Head(<<"unmask", "remove", "forget", "reload">>) = "unmask"
      /\ Head(<<"unmask", "remove", "forget", "reload", "unmask-all">>) = "unmask"
      /\ <<"unmask", "remove", "forget", "reload">> # <<>>
      /\ <<"unmask", "remove", "forget", "reload", "unmask-all">> # <<>>
  OBVIOUS
<1>3. /\ StartInstall => run'.command = "install" /\ UNCHANGED <<freed, masked, override, record>>
      /\ StartUpdate => run'.command = "update" /\ UNCHANGED <<freed, masked, override, record>>
      /\ StartCockpit => run'.command = "cockpit"
  BY <1>1 DEF StartInstall, StartUpdate, StartCockpit
<1>4. StartDesktop => /\ run'.command = "desktop" /\ UNCHANGED <<freed, masked, override, record>>
                      /\ run'.left # <<>> /\ Head(run'.left) = "unmask"
  BY <1>1, <1>2 DEF StartDesktop
<1>5. StartRecover => /\ run'.command = "recover" /\ UNCHANGED <<freed, masked, override, record>>
                      /\ run'.left # <<>> /\ Head(run'.left) = "unmask"
  BY <1>1, <1>2 DEF StartRecover
<1> QED BY <1>3, <1>4, <1>5

(* The two halves of FreeOK: what was reached, and what the run has done.   *)
FreedOK == /\ run.command = "cockpit" => freed = 0
           /\ freed >= 1 => override = Absent /\ record = NoDM
           /\ freed = 2 => masked = {}

FreeingOK ==
  run.command \in {"desktop", "recover"} =>
    /\ AtOne({"forget", "reload"}) => override = Absent
    /\ AtOne({"reload"}) /\ run.quiet => record = NoDM
    /\ AtOne({"remove", "forget", "reload"}) /\ run.quiet /\ freed >= 1 => masked = {}

LEMMA FreedStep ==
  ASSUME InstallInv, Next
  PROVE  FreedOK'
<1>1. /\ TypeOK /\ run \in Runs /\ freed \in 0..2 /\ FreedOK /\ FreeingOK
      /\ masked \subseteq DMs /\ NoDM \notin DMs
  BY InstallAssumption DEF InstallInv, TypeOK, Runs, Commands, FreeOK, FreedOK, FreeingOK
<1>2. ASSUME freed' = 0 PROVE FreedOK'
  BY <1>2 DEF FreedOK
<1>3. ASSUME UNCHANGED <<freed, override, record, masked>>, run'.command = run.command
      PROVE  FreedOK'
  BY <1>1, <1>3 DEF FreedOK
<1>4. CASE StartCockpit
  BY <1>2, <1>4 DEF StartCockpit
<1>5. CASE StartInstall \/ StartUpdate \/ StartDesktop \/ StartRecover
  <2>1. run'.command # "cockpit" /\ UNCHANGED <<freed, masked, override, record>>
    BY <1>5, Starts
  <2> QED BY <1>1, <2>1 DEF FreedOK
<1>6. ASSUME NEW b \in {"cli", "daemon"}, Swap(b) PROVE FreedOK'
  <2>1. run'.command = run.command
    BY <1>1, <1>6, Steppers DEF Takes, SameRun
  <2> QED BY <1>3, <1>6, <2>1 DEF Swap, modeVars
<1>7. CASE Launcher \/ StopDaemon \/ WriteUnit \/ RestartDaemon \/ UpdateGrub
  <2>1. run'.command = run.command
    BY <1>1, <1>7, Steppers DEF Takes, SameRun
  <2> QED BY <1>3, <1>7, <2>1
          DEF Launcher, StopDaemon, WriteUnit, RestartDaemon, UpdateGrub, modeVars
<1>8. CASE WriteOverride
  <2>1. run'.command = run.command
    BY <1>1, <1>8, Steppers DEF Takes, SameRun
  <2> QED BY <1>1, <1>8, <2>1 DEF WriteOverride, FreedOK
<1>9. CASE RefreshSnippet \/ SmokeTest
  <2>1. run'.command = run.command
    BY <1>1, <1>9 DEF RefreshSnippet, SmokeTest, Step, Runs
  <2> QED BY <1>3, <1>9, <2>1 DEF RefreshSnippet, SmokeTest, modeVars
<1>10. CASE Mask \/ DetectFails \/ WriteRecord
  <2>1. freed = 0
    BY <1>1, <1>10, FreeSteps DEF Mask, DetectFails, WriteRecord, FreedOK
  <2> QED BY <1>2, <1>10, <2>1 DEF Mask, DetectFails, WriteRecord
<1>11. CASE Unmask
  <2>1. run'.command = run.command
    BY <1>1, <1>11, Steppers DEF Takes, SameRun
  <2>2. masked' \subseteq masked
    BY <1>11 DEF Unmask
  <2> QED BY <1>1, <1>11, <2>1, <2>2 DEF Unmask, FreedOK
<1>12. CASE UnmaskAll
  <2>1. run'.command = run.command
    BY <1>1, <1>12, Steppers DEF Takes, SameRun
  <2>2. masked' \subseteq masked
    BY <1>12 DEF UnmaskAll
  <2> QED BY <1>1, <1>12, <2>1, <2>2 DEF UnmaskAll, FreedOK
<1>13. CASE Remove
  <2>1. run'.command = run.command
    BY <1>1, <1>13, Steppers DEF Takes, SameRun
  <2> QED BY <1>1, <1>13, <2>1 DEF Remove, FreedOK
<1>14. CASE Forget
  <2>1. run'.command = run.command
    BY <1>1, <1>14, Steppers DEF Takes, SameRun
  <2> QED BY <1>1, <1>14, <2>1 DEF Forget, Forgotten, FreedOK
<1>15. CASE Reload
  <2>1. CASE run.command = "cockpit" \/ ~run.quiet
    BY <1>2, <1>15, <2>1 DEF Reload
  <2>2. CASE run.command # "cockpit" /\ run.quiet
    <3>1. run.command \in {"desktop", "recover"} /\ AtOne({"reload"})
          /\ AtOne({"forget", "reload"}) /\ AtOne({"remove", "forget", "reload"})
      BY <1>15, <2>2, FreeSteps DEF Reload, At, AtOne
    <3>2. override = Absent /\ record = NoDM /\ (freed >= 1 => masked = {})
      BY <1>1, <2>2, <3>1 DEF FreeingOK
    <3>3. freed' = (IF freed < 2 THEN freed + 1 ELSE freed) /\ UNCHANGED <<override, record, masked>>
      BY <1>15, <2>2 DEF Reload, modeVars
    <3>4. run'.command = run.command
      BY <1>1, <1>15, Steppers DEF Takes, SameRun
    <3>5. freed' = 2 => freed >= 1
      BY <1>1, <3>3
    <3> QED BY <3>1, <3>2, <3>3, <3>4, <3>5 DEF FreedOK
  <2> QED BY <2>1, <2>2
<1>16. CASE DisableFails
  BY <1>2, <1>16 DEF DisableFails
<1>17. CASE Break
  <2>1. run'.command = run.command
    BY <1>1, <1>17 DEF Break, Runs
  <2>2. CASE run.command \in {"desktop", "recover"} \/ freed = 0
    BY <1>2, <1>17, <2>2 DEF Break
  <2>3. CASE ~(run.command \in {"desktop", "recover"}) /\ freed # 0
    <3>1. run.command # "cockpit" /\ override = Absent /\ record = NoDM
      BY <1>1, <2>3 DEF FreedOK
    <3>2. ~At("record")
      BY <3>1, FreeSteps
    <3>3. override' = override /\ record' = record /\ freed' = freed /\ masked' = masked
      BY <1>17, <2>3, <3>1, <3>2 DEF Break
    <3> QED BY <1>3, <2>1, <3>3
  <2> QED BY <2>2, <2>3
<1>18. CASE NewRelease \/ Reboot \/ HostUpdatesGrub \/ \E d \in DMs : InstallDM(d)
  BY <1>3, <1>18 DEF NewRelease, Reboot, HostUpdatesGrub, InstallDM, modeVars
<1> QED BY <1>4, <1>5, <1>6, <1>7, <1>8, <1>9, <1>10, <1>11, <1>12, <1>13, <1>14, <1>15,
           <1>16, <1>17, <1>18 DEF Next, Tool

LEMMA FreeingStep ==
  ASSUME InstallInv, Next
  PROVE  FreeingOK'
<1> SUFFICES ASSUME run'.command \in {"desktop", "recover"}
             PROVE  /\ AtOne({"forget", "reload"})' => override' = Absent
                    /\ AtOne({"reload"})' /\ run'.quiet => record' = NoDM
                    /\ AtOne({"remove", "forget", "reload"})' /\ run'.quiet /\ freed' >= 1
                       => masked' = {}
  BY DEF FreeingOK
<1>1. /\ TypeOK /\ run \in Runs /\ freed \in 0..2 /\ FreedOK /\ FreeingOK
      /\ masked \subseteq DMs /\ NoDM \notin DMs
  BY InstallAssumption DEF InstallInv, TypeOK, Runs, Commands, FreeOK, FreedOK, FreeingOK
<1>2. ASSUME ~AtOne({"remove", "forget", "reload"})' PROVE FreeingOK'
  <2>1. ~AtOne({"forget", "reload"})' /\ ~AtOne({"reload"})'
    BY <1>2 DEF AtOne
  <2> QED BY <1>2, <2>1 DEF FreeingOK
<1>3. ASSUME NEW step, Takes(step)
      PROVE  /\ run.command \in {"desktop", "recover"} /\ (run'.quiet => run.quiet)
             /\ \A steps : AtOne(steps) <=> step \in steps
             /\ step = "unmask" => AtOne({"remove"})'
             /\ step = "remove" => AtOne({"forget"})'
             /\ step = "forget" => AtOne({"reload"})'
             /\ step = "reload" => ~AtOne({"remove", "forget", "reload"})'
             /\ step = "unmask-all" => ~AtOne({"remove", "forget", "reload"})'
             /\ step \in {"unmask", "remove", "forget", "reload", "unmask-all"}
  <2>1. run.command \in {"desktop", "recover"} /\ (run'.quiet => run.quiet)
    BY <1>3 DEF Takes, SameRun
  <2>2. \A steps : AtOne(steps) <=> step \in steps
    BY <1>3 DEF Takes, At, AtOne
  <2> QED BY <1>3, <2>1, <2>2, FreeMoves
<1>4. CASE StartInstall \/ StartUpdate \/ StartCockpit
  BY <1>4, Starts
<1>5. CASE StartDesktop \/ StartRecover
  <2>1. Head(run'.left) = "unmask"
    BY <1>5, Starts
  <2> QED BY <1>2, <2>1 DEF AtOne, FreeingOK
<1>6. ASSUME NEW step, At(step), run'.command = run.command,
             step \notin {"unmask", "remove", "forget", "reload", "unmask-all"}
      PROVE  FALSE
  <2>1. run.left # <<>> /\ Head(run.left) = step /\ InLists(run.left, run.command)
        /\ run.command \in {"desktop", "recover"}
    BY <1>6 DEF At, Underway, InstallInv, LeftOK
  <2> QED BY <1>6, <2>1, DesktopTail, RecoverTail DEF InLists
<1>7. ASSUME NEW b \in {"cli", "daemon"}, Swap(b) PROVE FALSE
  BY <1>1, <1>3, <1>7, Steppers
<1>8. CASE \/ Launcher \/ StopDaemon \/ WriteUnit \/ RestartDaemon \/ UpdateGrub
           \/ WriteOverride \/ WriteRecord
  <2>1. PICK step \in {"launcher", "stop", "unit", "restart", "update-grub", "override", "record"} :
            Takes(step)
    BY <1>1, <1>8, Steppers
  <2> QED BY <1>3, <2>1
<1>9. CASE RefreshSnippet \/ SmokeTest \/ Mask \/ DetectFails
  <2>1. run'.command = run.command
    BY <1>1, <1>9 DEF RefreshSnippet, SmokeTest, Mask, DetectFails, Finishing, Step, Runs
  <2>2. PICK step \in {"snippet", "smoke", "mask"} : At(step)
    BY <1>9 DEF RefreshSnippet, SmokeTest, Mask, DetectFails
  <2> QED BY <1>6, <2>1, <2>2
<1>10. CASE Unmask
  <2>1. Takes("unmask")
    BY <1>1, <1>10, Steppers
  <2>2. AtOne({"remove"})' /\ ~AtOne({"forget", "reload"})' /\ ~AtOne({"reload"})'
    BY <1>3, <2>1 DEF AtOne
  <2>3. ASSUME run'.quiet, freed' >= 1 PROVE masked' = {}
    <3>1. ToUnmask = DMs
      BY <1>1, <1>10, <2>3 DEF Unmask, FreedOK, ToUnmask
    <3>2. run' # StepLost
      BY <1>1, <2>3, <1>10, Goes DEF Unmask
    <3>3. masked' = masked \ DMs
      BY <1>10, <3>1, <3>2 DEF Unmask, Losing
    <3> QED BY <1>1, <3>3
  <2> QED BY <2>2, <2>3
<1>11. CASE Remove
  <2>1. Takes("remove")
    BY <1>1, <1>11, Steppers
  <2>2. AtOne({"forget"})' /\ ~AtOne({"reload"})' /\ AtOne({"remove", "forget", "reload"})
    BY <1>3, <2>1 DEF AtOne
  <2>3. run.command \in {"desktop", "recover"} /\ (run'.quiet => run.quiet)
    BY <1>3, <2>1
  <2>4. override' = Absent /\ masked' = masked /\ freed' = freed
    BY <1>11 DEF Remove
  <2> QED BY <1>1, <2>2, <2>3, <2>4 DEF FreeingOK
<1>12. CASE Forget
  <2>1. Takes("forget")
    BY <1>1, <1>12, Steppers
  <2>2. AtOne({"forget", "reload"}) /\ AtOne({"remove", "forget", "reload"})
    BY <1>3, <2>1
  <2>3. run.command \in {"desktop", "recover"} /\ (run'.quiet => run.quiet)
    BY <1>3, <2>1
  <2>4. override' = override /\ masked' = masked /\ freed' = freed
    BY <1>12 DEF Forget
  <2>5. run'.quiet => record' = NoDM
    BY <1>1, <1>12, Goes DEF Forget, Forgotten, Losing
  <2> QED BY <1>1, <2>2, <2>3, <2>4, <2>5 DEF FreeingOK
<1>13. CASE Reload \/ UnmaskAll
  <2>1. PICK step \in {"reload", "unmask-all"} : Takes(step)
    BY <1>1, <1>13, Steppers
  <2>2. ~AtOne({"remove", "forget", "reload"})'
    BY <1>3, <2>1
  <2> QED BY <1>2, <2>2 DEF FreeingOK
<1>14. CASE DisableFails
  <2>1. run'.left = <<"unmask-all">>
    BY <1>1, <1>14 DEF DisableFails, StillToRecover, Runs
  <2>2. Head(run'.left) = "unmask-all"
    BY <2>1
  <2> QED BY <1>2, <2>2 DEF AtOne, FreeingOK
<1>15. CASE Break
  <2>1. run'.left = <<>>
    BY <1>1, <1>15 DEF Break, Runs
  <2> QED BY <1>2, <2>1 DEF AtOne, Underway, FreeingOK
<1>16. CASE NewRelease \/ Reboot \/ HostUpdatesGrub \/ \E d \in DMs : InstallDM(d)
  <2>1. run' = run /\ ~Underway
    BY <1>16 DEF NewRelease, Reboot, HostUpdatesGrub, InstallDM
  <2> QED BY <1>2, <2>1 DEF AtOne, Underway, FreeingOK
<1> QED BY <1>4, <1>5, <1>7, <1>8, <1>9, <1>10, <1>11, <1>12, <1>13, <1>14, <1>15, <1>16
        DEF Next, Tool, FreeingOK

LEMMA RecoverStep ==
  ASSUME InstallInv, Next
  PROVE  RecoverFrees'
<1> SUFFICES ASSUME run'.command = "recover", ~Underway', ~run'.broken, run'.quiet
             PROVE  masked' = {}
  BY DEF RecoverFrees, Completed
<1>1. TypeOK /\ run \in Runs /\ run'.left = <<>>
  BY DEF InstallInv, TypeOK, Runs, Commands, Underway
<1>2. ASSUME NEW step, Takes(step) PROVE step = "unmask-all"
  <2>1. run.command = "recover"
    BY <1>2 DEF Takes, SameRun
  <2> QED BY <1>1, <1>2, <2>1, FreeMoves
<1>3. CASE StartInstall \/ StartUpdate \/ StartCockpit \/ StartDesktop
  BY <1>3, Starts
<1>4. CASE StartRecover
  BY <1>1, <1>4, Starts
<1>5. ASSUME NEW b \in {"cli", "daemon"}, Swap(b) PROVE FALSE
  BY <1>1, <1>2, <1>5, Steppers
<1>6. CASE \/ Launcher \/ StopDaemon \/ WriteUnit \/ RestartDaemon \/ UpdateGrub
           \/ WriteOverride \/ WriteRecord \/ Unmask \/ Remove \/ Forget \/ Reload
  <2>1. PICK step \in {"launcher", "stop", "unit", "restart", "update-grub", "override", "record",
                       "unmask", "remove", "forget", "reload"} : Takes(step)
    BY <1>1, <1>6, Steppers
  <2> QED BY <1>2, <2>1
<1>7. CASE RefreshSnippet \/ SmokeTest \/ Mask \/ DetectFails
  <2>1. run'.command = run.command
    BY <1>1, <1>7 DEF RefreshSnippet, SmokeTest, Mask, DetectFails, Finishing, Step, Runs
  <2>2. PICK step \in {"snippet", "smoke", "mask"} : At(step)
    BY <1>7 DEF RefreshSnippet, SmokeTest, Mask, DetectFails
  <2> QED BY <2>1, <2>2, FreeSteps
<1>8. CASE UnmaskAll
  <2>1. run' # StepLost
    BY <1>1, <1>8, Goes DEF UnmaskAll
  <2> QED BY <1>8, <2>1 DEF UnmaskAll, Losing
<1>9. CASE DisableFails
  <2>1. run'.left = <<"unmask-all">> /\ <<"unmask-all">> # <<>>
    BY <1>1, <1>9 DEF DisableFails, StillToRecover, Runs
  <2> QED BY <1>1, <2>1, Zenon
<1>10. CASE Break
  BY <1>1, <1>10 DEF Break, Runs
<1>11. CASE NewRelease \/ Reboot \/ HostUpdatesGrub \/ \E d \in DMs : InstallDM(d)
  <2>1. run' = run /\ ~Underway /\ masked' = masked
    BY <1>11 DEF NewRelease, Reboot, HostUpdatesGrub, InstallDM, modeVars
  <2> QED BY <2>1 DEF InstallInv, RecoverFrees, Completed
<1> QED BY <1>3, <1>4, <1>5, <1>6, <1>7, <1>8, <1>9, <1>10, <1>11 DEF Next, Tool

------------------------------------------------------------ (* the theorems *)

LEMMA InstallInit == Init => InstallInv
<1> SUFFICES ASSUME Init PROVE InstallInv
  OBVIOUS
<1>1. /\ Releases \in Nat /\ Releases >= 1 /\ MaxBreaks \in Nat
      /\ 1 \in Contents /\ Absent \in Contents /\ 1 \in Whole /\ 1 \in 1..Releases
  BY InstallAssumption DEF Contents, Whole, Absent
<1>2. /\ run = [command |-> "none", left |-> <<>>, plan |-> 1, broken |-> TRUE, quiet |-> TRUE]
      /\ freed = 0 /\ masked = {}
  BY DEF Init
<1>3. <<>> \in Seq(Steps)
  OBVIOUS
<1>4. TypeOK
  <2>1. run \in Runs
    BY <1>1, <1>2, <1>3 DEF Runs, Commands
  <2>2. bin \in [{"cli", "daemon"} -> Contents]
    BY <1>1 DEF Init
  <2>3. /\ unit \in Contents /\ enabled \in BOOLEAN
        /\ daemon = Absent /\ dms \subseteq DMs /\ masked = {}
        /\ override \in Contents /\ record = NoDM
    BY <1>1 DEF Init
  <2>4. snippet \in Contents /\ cmdline \in Contents
    BY <1>1 DEF Init
  <2>5. release \in 1..Releases /\ breaks \in 0..MaxBreaks
    <3>1. release = 1 /\ breaks = 0
      BY DEF Init
    <3> QED BY <1>1, <3>1
  <2> QED BY <1>2, <2>1, <2>2, <2>3, <2>4, <2>5 DEF TypeOK, Runs, Commands
<1>5. LeftOK
  BY <1>2, ListEnds DEF LeftOK
<1>6. InstallOK /\ FreeOK /\ RecoverFrees
  BY <1>2 DEF InstallOK, FreeOK, RecoverFrees, Completed
<1> QED BY <1>4, <1>5, <1>6 DEF InstallInv

LEMMA InstallInvKept == InstallInv /\ [Next]_vars => InstallInv'
<1> SUFFICES ASSUME InstallInv, [Next]_vars PROVE InstallInv'
  OBVIOUS
<1>1. CASE Next
  <2>1. FreeOK'
    BY <1>1, FreedStep, FreeingStep DEF FreedOK, FreeingOK, FreeOK
  <2> QED BY <1>1, <2>1, TypesStep, LeftStep, InstallStep, RecoverStep DEF InstallInv
<1>2. CASE UNCHANGED vars
  BY <1>2 DEF vars, hostVars, binVars, modeVars, grubVars, InstallInv, TypeOK, LeftOK, InstallOK,
     FreeOK, RecoverFrees, Completed, AtOne, Underway
<1> QED BY <1>1, <1>2

LEMMA InstallInvHolds == Spec => []InstallInv
  BY InstallInit, InstallInvKept, PTL DEF Spec

(* Types; and no daemon runs before its unit has been enabled               *)
(* (install_adjuncts enables the unit in the call that starts it).          *)
THEOREM InstallTypes == Spec => []TypeOK
<1>1. InstallInv => TypeOK
  BY DEF InstallInv
<1> QED BY <1>1, InstallInvHolds, PTL

(* Whatever was broken off before, and wherever: after an install that      *)
(* reports success the tool, the daemon's file and the daemon that runs are *)
(* of the release that was installed, through every reboot that follows     *)
(* (install_system, install_adjuncts, smoke_test_daemon).                   *)
THEOREM InstallRuns == Spec => []InstalledRuns
<1>1. InstallInv => InstalledRuns
  BY DEF InstallInv, InstallOK, InstalledRuns, Completed, AtOne
<1> QED BY <1>1, InstallInvHolds, PTL

(* However many display managers there are, and whichever of them were      *)
(* masked by runs that were broken off: two `boot-mode desktop` in a row    *)
(* that meet no failure leave none of them masked, and neither the drop-in  *)
(* nor the record (disable_cockpit_boot).                                   *)
THEOREM TwoDesktopsAreEnough == Spec => []TwoDesktopsFree
<1>1. InstallInv => TwoDesktopsFree
  BY DEF InstallInv, FreeOK, TwoDesktopsFree
<1> QED BY <1>1, InstallInvHolds, PTL

(* A recover that meets no failure in the unmasking itself frees them all   *)
(* at once, whether or not its first half went through (cmd_recover).       *)
THEOREM OneRecoverIsEnough == Spec => []RecoverFrees
<1>1. InstallInv => RecoverFrees
  BY DEF InstallInv
<1> QED BY <1>1, InstallInvHolds, PTL


================================================================================
