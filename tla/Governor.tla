------------------------------- MODULE Governor -------------------------------
(***************************************************************************)
(* dom0-memd, the governor of dom0's own memory (dom0-memd/src/lib.rs):    *)
(* every tick it reads /proc/meminfo, counts the guests, decides and sets  *)
(* dom0's balloon target.  Guests come and go and dom0's own use changes   *)
(* between any two of these.  Amounts are in MiB.                          *)
(*                                                                         *)
(* The memory dom0 sees is its target less what the kernel keeps; what is  *)
(* in use is not available.  Ticks have no length here.                    *)
(***************************************************************************)
EXTENDS Integers

CONSTANTS
    SteadyMb, MaxMb, PerGuestMb, LowPct, HighPct, StepMb, DeadBandMb, \* GovernorConfig
    BootMb,    \* what Xen boots dom0 with
    KeptMb     \* what the kernel keeps for itself

ASSUME GovernorAssumption ==
    /\ {SteadyMb, MaxMb, PerGuestMb, LowPct, HighPct, StepMb, DeadBandMb, BootMb, KeptMb} \subseteq Nat
    /\ SteadyMb <= BootMb /\ BootMb <= MaxMb /\ KeptMb < SteadyMb

VARIABLES
    target,  \* dom0's balloon target
    used,    \* what dom0 uses
    guests,  \* the guests there are
    pc,      \* the governor: "sample", "census", "decide", or "dead"
    sample,  \* MemSample
    census   \* the guests it has counted

governor == <<pc, sample, census>>

Hold == -1
Least(a, b) == IF a <= b THEN a ELSE b
Most(a, b) == IF a >= b THEN a ELSE b
Apart(a, b) == IF a >= b THEN a - b ELSE b - a

\* mutant: the ceiling is left to Xen
ClampBelow(v, low, high) == Most(v, low)

Clamp(v, low, high) == Least(Most(v, low), high)

\* MemSample::available_pct; an empty sample reads as slack.
AvailablePct(s) == IF s.total = 0 THEN 100 ELSE (s.available * 100) \div s.total

\* Steady size and the reservations of the guests, never above the ceiling.
ReservedMb(count) == Least(SteadyMb + count * PerGuestMb, MaxMb)

\* mutant: what is available decides alone
DesiredTwice(s) ==
    IF AvailablePct(s) <= HighPct THEN s.total + StepMb ELSE Most(s.total - StepMb, 0)

\* mutant: slack gives everything back at once
DesiredAtOnce(s) ==
    IF AvailablePct(s) < LowPct THEN s.total + StepMb
    ELSE IF AvailablePct(s) > HighPct THEN 0
    ELSE s.total

\* The size the watermarks ask for.
Desired(s) ==
    IF AvailablePct(s) < LowPct THEN s.total + StepMb
    ELSE IF AvailablePct(s) > HighPct THEN Most(s.total - StepMb, 0)
    ELSE s.total

DecideTarget(s, count) ==
    LET desired == Clamp(Desired(s), ReservedMb(count), MaxMb)
    IN  IF Apart(desired, s.total) < DeadBandMb THEN Hold ELSE desired

Meminfo == [total |-> Most(target - KeptMb, 0),
            available |-> Most(target - KeptMb - used, 0)]
NoSample == [total |-> 0, available |-> 0]

-----------------------------------------------------------------------------
GovernorInit ==
    /\ target = BootMb /\ pc = "sample" /\ sample = NoSample /\ census = 0

\* read_sample
Sample == /\ pc = "sample" /\ sample' = Meminfo /\ pc' = "census"
          /\ UNCHANGED <<target, used, guests, census>>

\* /proc/meminfo cannot be read: the governor ends and is not started again.
SampleFails == /\ pc = "sample" /\ pc' = "dead"
               /\ UNCHANGED <<target, used, guests, sample, census>>

\* read_guest_count; `xl list` failing counts as no guests.
Census == /\ pc = "census" /\ census' = guests /\ pc' = "decide"
          /\ UNCHANGED <<target, used, guests, sample>>
CensusFails == /\ pc = "census" /\ census' = 0 /\ pc' = "decide"
               /\ UNCHANGED <<target, used, guests, sample>>

Ticked == pc' = "sample" /\ sample' = NoSample /\ census' = 0 /\ UNCHANGED <<used, guests>>

Apply == /\ pc = "decide" /\ Ticked
         /\ LET t == DecideTarget(sample, census)
            IN  target' = IF t = Hold THEN target ELSE t

\* `xl mem-set` fails; the next tick decides anew.
ApplyFails == pc = "decide" /\ Ticked /\ UNCHANGED target

=============================================================================
