-------------------------- MODULE Dom0Memory_proofs --------------------------
(***************************************************************************)
(* dom0 keeps its floor for every configuration of the governor, and its   *)
(* ceiling but for what a user types into a form without a reading; where  *)
(* its margins allow for what the kernel keeps, as its defaults do, the    *)
(* governor takes nothing away that is in use, and nothing back that it    *)
(* has just given.  What the cockpit's forms offer they accept.            *)
(***************************************************************************)
EXTENDS Dom0Memory, TLAPS

LEMMA LeastMost ==
    ASSUME NEW a \in Int, NEW b \in Int
    PROVE  /\ Least(a, b) \in {a, b} /\ Least(a, b) <= a /\ Least(a, b) <= b
           /\ Most(a, b) \in {a, b} /\ Most(a, b) >= a /\ Most(a, b) >= b
  BY DEF Least, Most

LEMMA ClampInRange ==
    ASSUME NEW v \in Int, NEW low \in Int, NEW high \in Int, low <= high
    PROVE  Clamp(v, low, high) \in low..high
  BY DEF Clamp, Least, Most

LEMMA ReservedInRange ==
    ASSUME NEW count \in Nat
    PROVE  ReservedMb(count) \in SteadyMb..MaxMb
<1>1. count * PerGuestMb \in Nat
  BY GovernorAssumption
<1>2. QED
  BY <1>1, GovernorAssumption DEF ReservedMb, Least

\* What the governor decides is a hold or lies between its floor and ceiling.
LEMMA DecideInRange ==
    ASSUME NEW s \in [total : Nat, available : Nat], NEW count \in Nat
    PROVE  DecideTarget(s, count) = Hold \/ DecideTarget(s, count) \in SteadyMb..MaxMb
<1>1. Desired(s) \in Int
  <2>1. s.total \in Nat /\ s.total + StepMb \in Int /\ s.total - StepMb \in Int
    BY GovernorAssumption
  <2>2. Most(s.total - StepMb, 0) \in Int
    BY <2>1 DEF Most
  <2>3. QED
    BY <2>1, <2>2 DEF Desired
<1>2. Clamp(Desired(s), ReservedMb(count), MaxMb) \in SteadyMb..MaxMb
  <2>1. ReservedMb(count) \in SteadyMb..MaxMb
    BY ReservedInRange
  <2>2. ReservedMb(count) \in Int /\ MaxMb \in Int /\ ReservedMb(count) <= MaxMb /\ ReservedMb(count) >= SteadyMb
    BY <2>1, GovernorAssumption
  <2>3. Clamp(Desired(s), ReservedMb(count), MaxMb) \in ReservedMb(count)..MaxMb
    BY <1>1, <2>2, ClampInRange
  <2>4. QED
    BY <2>2, <2>3, GovernorAssumption
<1>3. QED
  BY <1>2 DEF DecideTarget

-----------------------------------------------------------------------------
\* A prompt keeps the ceiling and the host it was opened with; none is zero.
Fields == {"open", "current", "max", "dom0", "pick", "entry", "text"}
PromptOK == prompt.open => DOMAIN prompt = Fields /\ prompt.max \in {0, MaxMb} /\ prompt.dom0

IInv == TypeOK /\ PromptOK /\ InRange

LEMMA InitIInv == Init => IInv
<1> SUFFICES ASSUME Init PROVE IInv
  OBVIOUS
<1> USE DEF Init, GovernorInit
<1>0. /\ BootMb \in Nat /\ MaxMb \in Nat /\ SteadyMb \in Nat
      /\ SteadyMb <= BootMb /\ BootMb <= MaxMb /\ DOM0_FLOOR_MB <= SteadyMb
      /\ MaxGuests \in Nat /\ MaxUpsets \in Nat
  BY GovernorAssumption, Dom0MemoryAssumption
<1>1. TypeOK
  <2>1. NoSample \in [total : Nat, available : Nat]
    BY DEF NoSample
  <2>2. 0 \in 0..MaxGuests /\ 0 \in 0..MaxUpsets
    BY <1>0
  <2>3. QED
    BY <1>0, <2>1, <2>2 DEF TypeOK
<1>2. PromptOK
  BY DEF PromptOK, Closed
<1>3. InRange
  BY <1>0 DEF InRange, DOM0_FLOOR_MB
<1>4. QED
  BY <1>1, <1>2, <1>3 DEF IInv

LEMMA MeminfoTyped ==
    ASSUME target \in Nat, used \in Nat
    PROVE  Meminfo \in [total : Nat, available : Nat]
  BY GovernorAssumption DEF Meminfo, Most

LEMMA NextIInv == IInv /\ [Next]_vars => IInv'
<1> SUFFICES ASSUME IInv, [Next]_vars PROVE IInv'
  OBVIOUS
<1>0. /\ TypeOK /\ PromptOK /\ InRange
      /\ used \in Nat
  BY Dom0MemoryAssumption DEF IInv, TypeOK
<1>u. Upset => /\ upsets' \in 0..MaxUpsets /\ grown' = FALSE /\ loaded' = loaded
  BY <1>0, Dom0MemoryAssumption DEF Upset, TypeOK
<1>g. guests \in Nat /\ census \in Nat /\ 0 \in 0..MaxGuests
  BY <1>0, Dom0MemoryAssumption DEF TypeOK
<1>1. CASE LoadChanges
  BY <1>0, <1>1, <1>u DEF LoadChanges, IInv, TypeOK, PromptOK, InRange, governor
<1>2. CASE GuestsChange
  BY <1>0, <1>2, <1>u DEF GuestsChange, IInv, TypeOK, PromptOK, InRange, governor
<1>3. CASE Ticks
  <2>1. CASE Sample /\ Calm /\ loaded' = used /\ UNCHANGED <<grown, blind>>
    <3>1. Meminfo \in [total : Nat, available : Nat]
      BY <1>0, MeminfoTyped DEF TypeOK
    <3>2. QED
      BY <1>0, <1>3, <2>1, <3>1 DEF Ticks, Sample, Calm, IInv, TypeOK, PromptOK, InRange
  <2>2. CASE Census /\ Calm /\ UNCHANGED <<loaded, grown, blind>>
    BY <1>0, <1>3, <2>2, <1>g DEF Ticks, Census, Calm, IInv, TypeOK, PromptOK, InRange
  <2>3. CASE /\ Apply /\ Calm /\ UNCHANGED loaded
             /\ grown' = \/ grown
                         \/ /\ target' > target /\ AvailablePct(sample) < LowPct
                            /\ loaded = used /\ census = guests
             /\ blind' = (blind /\ target' = target)
    <3>1. InRange' /\ target' \in Nat
      <4>1. target' = target \/ target' \in SteadyMb..MaxMb
        <5>1. census \in Nat /\ sample \in [total : Nat, available : Nat]
          BY <1>0, <1>g DEF TypeOK
        <5>2. QED
          BY <2>3, <5>1, DecideInRange DEF Apply
      <4>2. QED
        BY <1>0, <2>3, <4>1, GovernorAssumption, Dom0MemoryAssumption
           DEF InRange, TypeOK, DOM0_FLOOR_MB
    <3>2. /\ pc' = "sample" /\ sample' = NoSample /\ census' = 0
          /\ UNCHANGED <<used, guests, upsets, loaded, prompt>>
          /\ grown' \in BOOLEAN /\ blind' \in BOOLEAN
      <4>1. grown' \in BOOLEAN /\ blind' \in BOOLEAN
        BY <1>0, <2>3 DEF TypeOK
      <4>2. QED
        BY <1>3, <2>3, <4>1 DEF Ticks, Apply, Ticked, Calm
    <3>3. TypeOK'
      BY <1>0, <3>1, <3>2, <1>g DEF TypeOK, NoSample
    <3>4. QED
      BY <1>0, <3>1, <3>2, <3>3 DEF IInv, PromptOK
  <2>4. QED
    BY <1>3, <2>1, <2>2, <2>3 DEF Ticks
<1>4. CASE Failing
  <2>1. CASE SampleFails
    BY <1>0, <1>4, <2>1, <1>u DEF Failing, SampleFails, IInv, TypeOK, PromptOK, InRange
  <2>2. CASE CensusFails
    BY <1>0, <1>4, <2>2, <1>u, <1>g DEF Failing, CensusFails, IInv, TypeOK, PromptOK, InRange
  <2>3. CASE ApplyFails
    <3>1. /\ UNCHANGED <<target, used, guests, prompt, loaded, blind>> /\ grown' = FALSE
          /\ upsets' \in 0..MaxUpsets
          /\ pc' = "sample" /\ sample' = NoSample /\ census' = 0
      BY <1>4, <2>3, <1>u DEF Failing, ApplyFails, Ticked
    <3>2. sample' \in [total : Nat, available : Nat] /\ census' \in 0..MaxGuests
      BY <3>1, <1>g DEF NoSample
    <3>3. QED
      BY <1>0, <3>1, <3>2 DEF IInv, TypeOK, PromptOK, InRange
  <2>4. QED
    BY <1>4, <2>1, <2>2, <2>3 DEF Failing
<1>5. CASE Opens
  <2>1. PromptOK'
    <3>1. PICK r \in Readings : Open(r.size, r.max, TRUE)
      BY <1>5 DEF Opens
    <3>2. r.max \in {0, MaxMb}
      BY DEF Readings
    <3>3. QED
      BY <3>1, <3>2 DEF Open, PromptOK, Fields
  <2>2. upsets' \in 0..MaxUpsets
    BY <1>0, <1>5, Dom0MemoryAssumption DEF Opens, TypeOK
  <2>3. QED
    BY <1>0, <1>5, <2>1, <2>2 DEF Opens, Unmoved, IInv, TypeOK, InRange, governor
<1>6. CASE Edits
  <2>1. UNCHANGED <<target, used, guests, governor, loaded, grown, blind, upsets>>
    BY <1>6 DEF Edits, Calm, Unmoved
  <2>2. PromptOK'
    <3>1. CASE Escape \/ Enter
      BY <3>1 DEF Escape, Enter, PromptOK, Closed
    <3>2. CASE prompt.open /\ (Tab \/ (\E v \in Offered : Step(v)) \/ \E n \in Typed : Type(n))
      <4>1. DOMAIN prompt = Fields /\ prompt.max \in {0, MaxMb} /\ prompt.dom0
        BY <1>0, <3>2 DEF PromptOK
      <4>2. \E y, z : \/ prompt' = [prompt EXCEPT !.text = y]
                     \/ prompt' = [prompt EXCEPT !.pick = y]
                     \/ prompt' = [prompt EXCEPT !.entry = y, !.text = z]
        <5>1. CASE Tab
          BY <5>1 DEF Tab
        <5>2. CASE \E v \in Offered : Step(v)
          BY <5>2 DEF Step
        <5>3. CASE \E n \in Typed : Type(n)
          BY <5>3 DEF Type
        <5>4. QED
          BY <3>2, <5>1, <5>2, <5>3
      <4>3. DOMAIN prompt' = Fields /\ prompt'.max = prompt.max /\ prompt'.dom0 = prompt.dom0
        <5>1. PICK y, z : \/ prompt' = [prompt EXCEPT !.text = y]
                           \/ prompt' = [prompt EXCEPT !.pick = y]
                           \/ prompt' = [prompt EXCEPT !.entry = y, !.text = z]
          BY <4>2
        <5>2. CASE prompt' = [prompt EXCEPT !.text = y]
          BY <4>1, <5>2 DEF Fields
        <5>3. CASE prompt' = [prompt EXCEPT !.pick = y]
          BY <4>1, <5>3 DEF Fields
        <5>4. CASE prompt' = [prompt EXCEPT !.entry = y, !.text = z]
          BY <4>1, <5>4 DEF Fields
        <5>5. QED
          BY <5>1, <5>2, <5>3, <5>4
      <4>4. QED
        BY <4>1, <4>3 DEF PromptOK
    <3>3. QED
      BY <1>6, <3>1, <3>2 DEF Edits, Tab, Type
  <2>3. QED
    BY <1>0, <2>1, <2>2 DEF IInv, TypeOK, InRange, governor
<1>7. CASE Orders
  <2>1. /\ prompt' = Closed /\ target' = Resolve(prompt)
        /\ UNCHANGED <<used, guests, governor, loaded, upsets>> /\ grown' = FALSE
        /\ blind' = (prompt.max = 0) /\ prompt.open
        /\ Valid(target', prompt.max, prompt.dom0)
    BY <1>7 DEF Orders, Sends, Enter, Calm
  <2>2. prompt.max \in {0, MaxMb} /\ prompt.dom0
    BY <1>0, <2>1 DEF PromptOK
  <2>3. target' \in Nat /\ InRange'
    <3>1. target' \in Nat \ {0} /\ target' >= DOM0_FLOOR_MB
      BY <2>1, <2>2 DEF Valid
    <3>2. prompt.max # 0 => target' <= MaxMb
      BY <2>1, <2>2 DEF Valid
    <3>3. target' > MaxMb => prompt.max = 0
      BY <3>1, <3>2, GovernorAssumption
    <3>4. QED
      BY <2>1, <3>1, <3>3 DEF InRange
  <2>4. blind' \in BOOLEAN
    BY <2>1
  <2>5. QED
    BY <1>0, <2>1, <2>3, <2>4 DEF IInv, TypeOK, PromptOK, Closed, governor
<1>8. CASE UNCHANGED vars
  BY <1>0, <1>8 DEF vars, IInv, TypeOK, PromptOK, InRange, governor
<1>9. QED
  BY <1>1, <1>2, <1>3, <1>4, <1>5, <1>6, <1>7, <1>8 DEF Next

\* The state of the governor and of the prompt is always of its type.
THEOREM TypeCorrect == Spec => []TypeOK
<1>1. IInv => TypeOK
  BY DEF IInv
<1>2. QED
  BY InitIInv, NextIInv, <1>1, PTL DEF Spec

\* Whatever the governor is configured with and the user types, dom0 keeps the
\* 512 MB it cannot do without, and exceeds the ceiling only at the word of a
\* user whose prompt was opened without a reading.
THEOREM Dom0InRange == Spec => []InRange
<1>1. IInv => InRange
  BY DEF IInv
<1>2. QED
  BY InitIInv, NextIInv, <1>1, PTL DEF Spec

-----------------------------------------------------------------------------
\* Every preset the balloon prompt offers is one it accepts, once the domain
\* may have as much as the host's floor asks of dom0.
THEOREM OfferedAccepted ==
    ASSUME NEW current \in Nat, NEW max \in Nat, NEW dom0 \in BOOLEAN,
           Floor(dom0) <= Cap(current, max),
           NEW v \in Options(current, max, dom0)
    PROVE  Valid(v, max, dom0)
<1> DEFINE kept == {u \in Ramp(current, max, dom0) : InSpan(u, current, max, dom0)}
<1>1. Cap(current, max) \in kept
  BY DEF Ramp, InSpan, Cap, Floor, AtLeast, DOM0_FLOOR_MB
<1>2. v \in kept
  BY <1>1 DEF Options
<1>3. v \in Nat
  <2>1. Ramp(current, max, dom0) \subseteq Nat
    <3> DEFINE c == Cap(current, max)
               f == Floor(dom0)
    <3>1. c \in Nat /\ f \in Nat
      BY DEF Cap, Floor, AtLeast, DOM0_FLOOR_MB
    <3>2. Ramp(current, max, dom0) =
            {f, AtLeast(current, f), c, c \div 4, c \div 2, (c * 3) \div 4,
             AtLeast(Minus(current, 256), f), AtLeast(Minus(current, 512), f),
             AtMost(current + 256, c), AtMost(current + 512, c)}
      BY DEF Ramp
    <3> HIDE DEF c, f
    <3>3. c \div 4 \in Nat /\ c \div 2 \in Nat /\ (c * 3) \div 4 \in Nat
      BY <3>1
    <3>4. AtMost(current + 256, c) \in Nat /\ AtMost(current + 512, c) \in Nat
      BY <3>1 DEF AtMost
    <3>5. /\ AtLeast(current, f) \in Nat
          /\ AtLeast(Minus(current, 256), f) \in Nat
          /\ AtLeast(Minus(current, 512), f) \in Nat
      BY <3>1 DEF AtLeast, Minus
    <3>6. QED
      BY <3>1, <3>2, <3>3, <3>4, <3>5
  <2>2. QED
    BY <1>2, <2>1
<1>4. v >= Floor(dom0) /\ v <= Cap(current, max)
  BY <1>2 DEF InSpan
<1>5. QED
  BY <1>3, <1>4 DEF Valid, Floor, Cap, DOM0_FLOOR_MB

\* The preset nearest to a number that is offered is that number.
LEMMA NearestIsIt ==
    ASSUME NEW S \in SUBSET Nat, NEW t \in S
    PROVE  Nearest(S, t) = t
<1> DEFINE N == {v \in S : \A w \in S : AbsDiff(v, t) <= AbsDiff(w, t)}
<1>1. N = {t}
  <2>1. \A w \in S : AbsDiff(w, t) >= 0 /\ AbsDiff(t, t) = 0
    BY DEF AbsDiff
  <2>2. t \in N
    BY <2>1 DEF AbsDiff
  <2>3. ASSUME NEW v \in N PROVE v = t
    BY <2>3 DEF AbsDiff
  <2>4. QED
    BY <2>2, <2>3
<1>2. QED
  BY <1>1 DEF Nearest, Smallest

\* The policy editor opens on a range it accepts: from what the domain has to
\* the most it may have.
THEOREM PolicyOpensAccepted ==
    ASSUME NEW current \in Nat \ {0}, NEW max \in Nat, max >= 256 \/ current >= 256
    PROVE  Nearest(PolicyMins(current, max), current)
             <= Nearest(PolicyMaxs(current, max), AtLeast(max, current))
<1> DEFINE cap == AtLeast(max, current)
<1>1. PolicyCap(current, max) = cap /\ current <= cap /\ cap \in Nat
  BY DEF PolicyCap, AtLeast
<1>2. PolicyMins(current, max) \subseteq Nat /\ current \in PolicyMins(current, max)
  <2>1. AtMost(current, cap) = current
    BY <1>1 DEF AtMost
  <2>2. /\ AtLeast(current \div 2, 256) \in Nat /\ AtMost(cap, 2048) \in Nat
    BY <1>1 DEF AtLeast, AtMost
  <2>3. QED
    BY <1>1, <2>1, <2>2 DEF PolicyMins
<1>3. PolicyMaxs(current, max) \subseteq Nat /\ cap \in PolicyMaxs(current, max)
  <2>1. AtLeast(current, 256) \in Nat /\ AtMost(4096, cap) \in Nat /\ AtMost(8192, cap) \in Nat
    BY <1>1 DEF AtLeast, AtMost
  <2>2. QED
    BY <1>1, <2>1 DEF PolicyMaxs
<1>4. Nearest(PolicyMins(current, max), current) = current
  BY <1>2, NearestIsIt
<1>5. Nearest(PolicyMaxs(current, max), cap) = cap
  BY <1>3, NearestIsIt
<1>6. QED
  BY <1>1, <1>4, <1>5

\* A form whose three values are on their lists.
OnLists(form, lists) ==
    /\ form \in [min : Nat, max : Nat, cooldown : Nat, focus : PolicyFields]
    /\ form.min \in lists.min /\ form.max \in lists.max /\ form.cooldown \in lists.cooldown

\* Whatever keys are pressed in the policy editor, its values stay on the
\* lists it was opened with: the floor and the ceiling it sends are amounts it
\* has shown, and the check of the cooldown never refuses.
THEOREM PolicyKeepsToLists ==
    ASSUME NEW current \in Nat \ {0}, NEW max \in Nat, NEW form,
           OnLists(form, PolicyLists(current, max)),
           NEW f \in PolicyKeyed(form, PolicyLists(current, max))
    PROVE  /\ OnLists(f, PolicyLists(current, max))
           /\ PolicySends(f) <=> f.min <= f.max
<1> DEFINE lists == PolicyLists(current, max)
<1>1. lists.min \subseteq Nat /\ lists.max \subseteq Nat
  <2>1. PolicyCap(current, max) \in Nat
    BY DEF PolicyCap, AtLeast
  <2>2. /\ AtMost(current, PolicyCap(current, max)) \in Nat
        /\ AtLeast(current \div 2, 256) \in Nat
        /\ AtMost(PolicyCap(current, max), 2048) \in Nat
        /\ AtLeast(current, 256) \in Nat
        /\ AtMost(4096, PolicyCap(current, max)) \in Nat
        /\ AtMost(8192, PolicyCap(current, max)) \in Nat
    BY <2>1 DEF AtLeast, AtMost
  <2>3. QED
    BY <2>1, <2>2 DEF PolicyLists, PolicyMins, PolicyMaxs
<1>2. lists.cooldown = {5, 10, 30, 60, 120}
  BY DEF PolicyLists
<1> HIDE DEF lists
<1>3. OnLists(f, lists)
  <2>1. CASE \E g \in PolicyFields : f = [form EXCEPT !.focus = g]
    BY <2>1 DEF OnLists, lists
  <2>2. CASE \E u \in lists[form.focus] : f = [form EXCEPT ![form.focus] = u]
    <3>1. form.focus = "min" \/ form.focus = "max" \/ form.focus = "cooldown"
      BY DEF OnLists, PolicyFields, lists
    <3>2. PICK u \in lists[form.focus] : f = [form EXCEPT ![form.focus] = u]
      BY <2>2
    <3>3. CASE form.focus = "min"
      BY <1>1, <3>2, <3>3 DEF OnLists, lists
    <3>4. CASE form.focus = "max"
      BY <1>1, <3>2, <3>4 DEF OnLists, lists
    <3>5. CASE form.focus = "cooldown"
      BY <1>2, <3>2, <3>5 DEF OnLists, lists
    <3>6. QED
      BY <3>1, <3>3, <3>4, <3>5
  <2>3. QED
    BY <2>1, <2>2 DEF PolicyKeyed, Adjacent, lists
<1>4. f.cooldown >= 1
  BY <1>2, <1>3 DEF OnLists
<1>5. QED
  BY <1>3, <1>4 DEF PolicySends, lists

\* What is wrong with a form for a new instance: a letter that cannot be in it.
NoHNorL(form) == /\ Len(form.id) \in Nat
                 /\ \A i \in 1..Len(form.id) : form.id[i] \in IdChars \ {"h", "l"}

\* No key puts an h or an l into the id of a new instance: both are taken for
\* arrows, though an id may contain any letter.
THEOREM NoIdWithHOrL ==
    ASSUME NEW form, form.id \in Seq(IdChars), NoHNorL(form), NEW key, NEW bases,
           form = [id |-> form.id, base |-> form.base, memory |-> form.memory,
                   vcpus |-> form.vcpus, focus |-> form.focus],
           NEW f \in WizardKeyed(form, key, bases)
    PROVE  NoHNorL(f) /\ f.id \in Seq(IdChars)
<1>1. CASE f.id = form.id
  BY <1>1 DEF NoHNorL
<1>2. CASE form.id # << >> /\ f = [form EXCEPT !.id = [i \in 1..(Len(@) - 1) |-> @[i]]]
  <2> DEFINE n == Len(form.id)
  <2>1. n \in Nat /\ n # 0
    BY <1>2
  <2>2. f.id = [i \in 1..(n - 1) |-> form.id[i]]
    BY <1>2
  <2>3. \A i \in 1..(n - 1) : form.id[i] \in IdChars \ {"h", "l"}
    BY <2>1 DEF NoHNorL
  <2>4. f.id \in Seq(IdChars) /\ Len(f.id) = n - 1
    BY <2>1, <2>2, <2>3
  <2>5. QED
    BY <2>1, <2>2, <2>3, <2>4 DEF NoHNorL
<1>3. CASE key \in IdChars \ {"h", "l"} /\ f = [form EXCEPT !.id = Append(@, key)]
  <2>1. f.id = Append(form.id, key)
    BY <1>3
  <2>2. \A i \in 1..Len(f.id) : f.id[i] = (IF i = Len(form.id) + 1 THEN key ELSE form.id[i])
    BY <1>3, <2>1
  <2>3. Len(f.id) = Len(form.id) + 1 /\ f.id \in Seq(IdChars)
    BY <1>3, <2>1
  <2>4. QED
    BY <1>3, <2>2, <2>3 DEF NoHNorL
<1>4. \/ f.id = form.id
      \/ form.id # << >> /\ f = [form EXCEPT !.id = [i \in 1..(Len(@) - 1) |-> @[i]]]
      \/ key \in IdChars \ {"h", "l"} /\ f = [form EXCEPT !.id = Append(@, key)]
  <2>1. \A back \in BOOLEAN : \A g \in Sideways(form, back, bases) : g.id = form.id
    BY DEF Sideways
  <2>2. \A g \in Appended(form, key) : g = form \/ g = [form EXCEPT !.id = Append(@, key)]
    BY DEF Appended
  <2>3. \A g : [form EXCEPT !.focus = g].id = form.id
    OBVIOUS
  <2>4. QED
    BY <2>1, <2>2, <2>3 DEF WizardKeyed
<1>5. QED
  BY <1>1, <1>2, <1>3, <1>4

-----------------------------------------------------------------------------
(* What the governor takes away and what it leaves.                        *)

LEMMA DivBounds ==
    ASSUME NEW a \in Nat, NEW t \in Nat, t > 0
    PROVE  /\ a \div t \in Nat /\ (a \div t) * t <= a /\ a < (a \div t) * t + t
  OBVIOUS

LEMMA TimesLe ==
    ASSUME NEW c \in Nat, NEW a \in Int, NEW b \in Int, a <= b
    PROVE  c * a <= c * b
  OBVIOUS

\* Below the low watermark, and above the high one, without the rounding.
LEMMA Short ==
    ASSUME NEW s \in [total : Nat, available : Nat],
           AvailablePct(s) < LowPct, LowPct <= 100
    PROVE  s.total > 0 /\ 100 * s.available < LowPct * s.total
<1>1. s.total \in Nat /\ s.available \in Nat /\ LowPct \in Nat
  BY GovernorAssumption
<1>2. s.total > 0
  BY <1>1 DEF AvailablePct
<1> DEFINE q == (s.available * 100) \div s.total
<1>3. q \in Nat /\ s.available * 100 < q * s.total + s.total
  BY <1>1, <1>2, DivBounds
<1>4. q < LowPct
  BY <1>1, <1>2 DEF AvailablePct
<1> HIDE DEF q
<1>5. s.total * (q + 1) <= s.total * LowPct
  BY <1>1, <1>3, <1>4, TimesLe
<1>6. s.total * (q + 1) = q * s.total + s.total
  BY <1>1, <1>3
<1>7. QED
  BY <1>1, <1>2, <1>3, <1>5, <1>6

LEMMA Slack ==
    ASSUME NEW s \in [total : Nat, available : Nat],
           AvailablePct(s) > HighPct, s.total > 0
    PROVE  100 * s.available >= (HighPct + 1) * s.total
<1>1. s.total \in Nat /\ s.available \in Nat /\ HighPct \in Nat
  BY GovernorAssumption
<1> DEFINE q == (s.available * 100) \div s.total
<1>3. q \in Nat /\ q * s.total <= s.available * 100
  BY <1>1, DivBounds
<1>4. q >= HighPct + 1
  BY <1>1, <1>3 DEF AvailablePct
<1> HIDE DEF q
<1>5. s.total * (HighPct + 1) <= s.total * q
  BY <1>1, <1>3, <1>4, TimesLe
<1>6. QED
  BY <1>1, <1>3, <1>5

\* A move passes the dead band; one down, from a size within the ceiling, is a
\* step at most and for slack; one up is to the reservations, or a step at most
\* and for want of memory.
LEMMA Moves ==
    ASSUME NEW s \in [total : Nat, available : Nat], NEW count \in Nat,
           DecideTarget(s, count) # Hold
    PROVE  LET t == DecideTarget(s, count)
           IN  /\ t \in Int /\ SteadyMb <= t /\ ReservedMb(count) <= t /\ t <= MaxMb
               /\ t <= s.total - DeadBandMb \/ s.total + DeadBandMb <= t
               /\ t < s.total /\ s.total <= MaxMb
                    => AvailablePct(s) > HighPct /\ s.total - StepMb <= t
               /\ s.total < t => \/ t = ReservedMb(count)
                                 \/ AvailablePct(s) < LowPct /\ t <= s.total + StepMb
<1> DEFINE r == ReservedMb(count)
           d == Desired(s)
           t == Clamp(d, r, MaxMb)
<1>1. s.total \in Nat /\ MaxMb \in Nat /\ StepMb \in Nat /\ DeadBandMb \in Nat
      /\ SteadyMb \in Nat
  BY GovernorAssumption
<1>2. r \in Nat /\ SteadyMb <= r /\ r <= MaxMb
  BY <1>1, ReservedInRange
<1>3. /\ d \in Int
      /\ d < s.total => AvailablePct(s) > HighPct /\ s.total - StepMb <= d
      /\ s.total < d => AvailablePct(s) < LowPct /\ d = s.total + StepMb
  BY <1>1 DEF Desired, Most
<1>4. DecideTarget(s, count) = t /\ Apart(t, s.total) >= DeadBandMb /\ t \in Int
  <2>1. DecideTarget(s, count) = IF Apart(t, s.total) < DeadBandMb THEN Hold ELSE t
    BY DEF DecideTarget
  <2> HIDE DEF d, r
  <2>2. t \in Int
    BY <1>1, <1>2, <1>3 DEF Clamp, Least, Most
  <2>3. Apart(t, s.total) \in Int
    BY <1>1, <2>2 DEF Apart
  <2>4. QED
    BY <1>1, <2>1, <2>2, <2>3
<1> HIDE DEF d, r
<1>5. /\ r <= t /\ t <= MaxMb
      /\ t < s.total /\ s.total <= MaxMb => d <= t
      /\ s.total < t => t = r \/ t <= d
  BY <1>1, <1>2, <1>3 DEF Clamp, Least, Most
<1>6. t <= s.total - DeadBandMb \/ s.total + DeadBandMb <= t
  BY <1>1, <1>4 DEF Apart
<1> HIDE DEF t
<1>7. t < s.total /\ s.total <= MaxMb => AvailablePct(s) > HighPct /\ s.total - StepMb <= t
  BY <1>1, <1>3, <1>4, <1>5
<1>8. s.total < t => \/ t = r
                     \/ AvailablePct(s) < LowPct /\ t <= s.total + StepMb
  BY <1>1, <1>2, <1>3, <1>4, <1>5
<1>9. QED
  BY <1>1, <1>2, <1>4, <1>5, <1>6, <1>7, <1>8 DEF r

\* Until it decides, the governor knows what dom0 used when it sampled.
Reading ==
    pc \in {"census", "decide"} => sample.available = Most(sample.total - loaded, 0)

LEMMA SampleReads ==
    ASSUME IInv, Sample
    PROVE  /\ sample' = Meminfo
           /\ Meminfo.total = Most(target - KeptMb, 0)
           /\ Meminfo.available = Most(Meminfo.total - used, 0)
<1>1. target \in Nat /\ used \in Nat /\ KeptMb \in Nat
  BY GovernorAssumption, Dom0MemoryAssumption DEF IInv, TypeOK
<1>2. /\ Meminfo.total = Most(target - KeptMb, 0)
      /\ Meminfo.available = Most(target - KeptMb - used, 0)
  BY DEF Meminfo
<1>3. Most(target - KeptMb - used, 0) = Most(Most(target - KeptMb, 0) - used, 0)
  BY <1>1 DEF Most
<1>4. QED
  BY <1>1, <1>2, <1>3 DEF Sample, Most

LEMMA ReadingKept == IInv /\ Reading /\ [Next]_vars => Reading'
<1> SUFFICES ASSUME IInv, Reading, [Next]_vars PROVE Reading'
  OBVIOUS
<1>1. CASE Ticks /\ Sample /\ Calm /\ loaded' = used
  BY <1>1, SampleReads DEF Reading
<1>2. CASE Ticks /\ Census /\ Calm /\ UNCHANGED <<loaded, grown, blind>>
  BY <1>2 DEF Census, Reading
<1>3. CASE pc' \in {"sample", "dead"}
  BY <1>3 DEF Reading
<1>4. CASE UNCHANGED <<sample, loaded>> /\ (pc' = pc \/ pc = "census")
  BY <1>4 DEF Reading
<1>5. QED
  <2>1. CASE LoadChanges \/ GuestsChange
    BY <1>4, <2>1 DEF LoadChanges, GuestsChange, Upset, governor
  <2>2. CASE Ticks
    BY <1>1, <1>2, <1>3, <2>2 DEF Ticks, Apply, Ticked
  <2>3. CASE Failing
    BY <1>3, <1>4, <2>3 DEF Failing, SampleFails, CensusFails, ApplyFails, Ticked, Upset
  <2>4. CASE Opens \/ Edits \/ Orders
    BY <1>4, <2>4 DEF Opens, Edits, Orders, governor
  <2>5. CASE UNCHANGED vars
    BY <1>4, <2>5 DEF vars, governor
  <2>6. QED
    BY <2>1, <2>2, <2>3, <2>4, <2>5 DEF Next

-----------------------------------------------------------------------------
\* What a step down and the kernel's own share come to is free above the high
\* watermark at the smallest size that the governor shrinks from, and the
\* kernel's share does not pass for a move.
WatermarkMargins ==
    /\ KeptMb <= DeadBandMb
    /\ 100 * (StepMb + KeptMb) <= (HighPct + 1) * (SteadyMb + DeadBandMb)

LEMMA ShrinkProtects ==
    ASSUME WatermarkMargins, IInv, Reading, Apply, target' < target,
           target - KeptMb = sample.total, sample.total <= MaxMb
    PROVE  target' - KeptMb >= loaded
<1>1. /\ sample \in [total : Nat, available : Nat] /\ census \in Nat /\ loaded \in Nat
      /\ sample.available = Most(sample.total - loaded, 0) /\ target \in Nat
  BY Dom0MemoryAssumption DEF IInv, TypeOK, Reading, Apply
<1>2. /\ sample.total \in Nat /\ sample.available \in Nat
      /\ {SteadyMb, StepMb, DeadBandMb, KeptMb, HighPct} \subseteq Nat
  BY <1>1, GovernorAssumption
<1> DEFINE t == DecideTarget(sample, census)
<1>3. t # Hold /\ target' = t
  BY <1>2, <1>1 DEF Apply
<1>4. /\ t \in Int /\ SteadyMb <= t
      /\ t <= sample.total - DeadBandMb \/ sample.total + DeadBandMb <= t
      /\ t < sample.total => AvailablePct(sample) > HighPct /\ sample.total - StepMb <= t
  BY <1>1, <1>3, Moves
<1> HIDE DEF t
<1>5. CASE t < sample.total
  <2>1. SteadyMb + DeadBandMb <= sample.total
    BY <1>2, <1>4, <1>5
  <2>2. 100 * sample.available >= (HighPct + 1) * sample.total
    BY <1>1, <1>2, <1>4, <1>5, <2>1, Slack
  <2>3. (HighPct + 1) * (SteadyMb + DeadBandMb) <= (HighPct + 1) * sample.total
    BY <1>2, <2>1, TimesLe
  <2>4. StepMb + KeptMb <= sample.available
    BY <1>2, <2>2, <2>3 DEF WatermarkMargins
  <2>5. CASE sample.available = 0
    <3>1. (HighPct + 1) * sample.total <= 0
      BY <1>2, <2>2, <2>5
    <3>2. sample.total > 0 /\ HighPct + 1 > 0
      BY <1>2, <1>4, <1>5, <2>1, GovernorAssumption
    <3>3. QED
      BY <1>2, <3>1, <3>2
  <2>6. CASE sample.available # 0
    BY <1>1, <1>2, <1>3, <1>4, <1>5, <2>4, <2>6 DEF Most
  <2>7. QED
    BY <2>5, <2>6
<1>6. CASE sample.total <= t
  <2>1. sample.total + DeadBandMb <= t
    BY <1>2, <1>4, <1>6
  <2>2. QED
    BY <1>1, <1>2, <1>3, <1>4, <2>1 DEF WatermarkMargins
<1>7. QED
  BY <1>2, <1>4, <1>5, <1>6

\* Where the margins allow for what the kernel keeps, the governor never takes
\* memory away that dom0 was using when it sampled, for every load, every
\* number of guests and every size a user sets beside it.
THEOREM WatermarkHolds ==
    ASSUME WatermarkMargins PROVE Spec => WatermarkProtects
<1>1. Init => Reading
  BY DEF Init, GovernorInit, Reading
<1>2. IInv /\ Reading /\ [Next]_vars =>
        [Ticks /\ target' < target /\ target - KeptMb = sample.total /\ sample.total <= MaxMb
           => target' - KeptMb >= loaded]_vars
  <2> SUFFICES ASSUME IInv, Reading, Ticks, target' < target, target - KeptMb = sample.total,
                      sample.total <= MaxMb
               PROVE  target' - KeptMb >= loaded
    OBVIOUS
  <2>1. target \in Nat
    BY DEF IInv, TypeOK
  <2>2. Apply
    <3>1. target' # target
      BY <2>1
    <3>2. Apply \/ UNCHANGED target
      BY DEF Ticks, Sample, Census
    <3>3. QED
      BY <3>1, <3>2
  <2>3. QED
    BY <2>2, ShrinkProtects
<1>3. QED
  BY InitIInv, NextIInv, ReadingKept, <1>1, <1>2, PTL DEF Spec, WatermarkProtects

-----------------------------------------------------------------------------
\* A step up cannot carry dom0 from under the low watermark over the high one,
\* at any size that the governor shrinks from.
GrowthMargins ==
    /\ KeptMb <= DeadBandMb /\ HighPct <= 99 /\ LowPct <= HighPct + 1
    /\ (99 - HighPct) * (StepMb - KeptMb)
         <= (HighPct + 1 - LowPct) * (SteadyMb + DeadBandMb + KeptMb - StepMb)

\* A size that the governor does not shrink from: what the guests reserve, one
\* within the dead band of the floor, or one that leaves no slack.
Enough(t, u, g) ==
    \/ t <= ReservedMb(g)
    \/ t - KeptMb < SteadyMb + DeadBandMb
    \/ 100 * (t - KeptMb - u) < (HighPct + 1) * (t - KeptMb)

Grown ==
    grown => /\ target <= MaxMb /\ Enough(target, used, guests)
             /\ pc \in {"census", "decide"} => sample = Meminfo
             /\ pc = "decide" => census = guests

\* What is grown to for want of memory is enough.
LEMMA GrowsEnough ==
    ASSUME GrowthMargins, NEW s \in [total : Nat, available : Nat], NEW u \in Nat, NEW g \in Nat,
           NEW t \in Int, s.available = Most(s.total - u, 0),
           AvailablePct(s) < LowPct, t <= s.total + StepMb
    PROVE  Enough(t, u, g)
<1>1. /\ s.total \in Nat /\ s.available \in Nat
      /\ {SteadyMb, StepMb, DeadBandMb, KeptMb, HighPct, LowPct} \subseteq Nat
  BY GovernorAssumption
<1>2. s.total > 0 /\ 100 * s.available < LowPct * s.total
  BY <1>1, Short DEF GrowthMargins
<1>3. 100 * (s.total - u) < LowPct * s.total
  BY <1>1, <1>2 DEF Most
<1>4. SUFFICES ASSUME SteadyMb + DeadBandMb <= t - KeptMb
               PROVE  100 * (t - KeptMb - u) < (HighPct + 1) * (t - KeptMb)
  BY <1>1 DEF Enough
<1> DEFINE h == 99 - HighPct
           w == HighPct + 1 - LowPct
           n == s.total + StepMb - KeptMb
           low == SteadyMb + DeadBandMb + KeptMb - StepMb
<1>5. h \in Nat /\ w \in Nat /\ n \in Int /\ low \in Int
  BY <1>1 DEF GrowthMargins
<1>6. h * (t - KeptMb) <= h * n
  BY <1>1, <1>5, TimesLe
<1>7. w * low <= w * s.total
  BY <1>1, <1>4, <1>5, TimesLe
<1>8. h * n = h * s.total + h * (StepMb - KeptMb)
  BY <1>1, <1>5
<1>9. h * (StepMb - KeptMb) <= w * low
  BY DEF GrowthMargins
<1>10. h * (t - KeptMb) <= h * s.total + w * s.total
  <2>1. /\ h * (t - KeptMb) \in Int /\ h * n \in Int /\ w * low \in Int
        /\ w * s.total \in Int /\ h * s.total \in Int /\ h * (StepMb - KeptMb) \in Int
    BY <1>1, <1>5
  <2> HIDE DEF h, w, n, low
  <2>2. QED
    BY <2>1, <1>6, <1>7, <1>8, <1>9
<1>11. h * s.total + w * s.total = (100 - LowPct) * s.total
  BY <1>1
<1>12. (100 - LowPct) * s.total < 100 * u
  <2>1. (100 - LowPct) * s.total = 100 * s.total - LowPct * s.total
    BY <1>1
  <2>2. QED
    BY <1>1, <1>3, <2>1
<1>13. h * (t - KeptMb) = 100 * (t - KeptMb) - (HighPct + 1) * (t - KeptMb)
  BY <1>1
<1>14. QED
  BY <1>1, <1>5, <1>10, <1>11, <1>12, <1>13

\* An application, on a true reading, of a size that is enough takes nothing
\* away, and leaves what is enough.
LEMMA EnoughIsKept ==
    ASSUME GrowthMargins, IInv, Reading, Grown, Apply, grown
    PROVE  target' >= target /\ target' <= MaxMb /\ Enough(target', used, guests)
<1>1. /\ sample \in [total : Nat, available : Nat] /\ census \in Nat /\ guests \in Nat
      /\ used \in Nat /\ target \in Nat /\ target <= MaxMb
      /\ sample.total <= MaxMb
  BY GovernorAssumption, Dom0MemoryAssumption DEF IInv, TypeOK, Grown, Apply, Meminfo, Most
<1>2. /\ sample.total \in Nat /\ sample.available \in Nat
      /\ {SteadyMb, StepMb, DeadBandMb, KeptMb, HighPct, MaxMb} \subseteq Nat
  BY <1>1, GovernorAssumption
<1>3. /\ sample = Meminfo /\ census = guests /\ Enough(target, used, guests)
  BY DEF Grown, Apply
<1>4. /\ sample.total = Most(target - KeptMb, 0)
      /\ sample.available = Most(target - KeptMb - used, 0)
      /\ sample.available = Most(sample.total - used, 0)
  BY <1>1, <1>2, <1>3 DEF Meminfo, Most
<1> DEFINE t == DecideTarget(sample, guests)
<1>5. target' = IF t = Hold THEN target ELSE t
  BY <1>3 DEF Apply
<1>6. CASE t = Hold
  BY <1>1, <1>3, <1>5, <1>6
<1>7. CASE t # Hold
  <2>1. /\ t \in Int /\ SteadyMb <= t /\ ReservedMb(guests) <= t /\ t <= MaxMb
        /\ t <= sample.total - DeadBandMb \/ sample.total + DeadBandMb <= t
        /\ t < sample.total => AvailablePct(sample) > HighPct
        /\ sample.total < t => \/ t = ReservedMb(guests)
                               \/ AvailablePct(sample) < LowPct /\ t <= sample.total + StepMb
    BY <1>1, <1>7, Moves
  <2>2. ReservedMb(guests) \in Int
    BY <1>1, ReservedInRange, GovernorAssumption
  <2> HIDE DEF t
  <2>3. ~(t < sample.total)
    <3> SUFFICES ASSUME t < sample.total PROVE FALSE
      OBVIOUS
    <3>1. /\ sample.total = target - KeptMb /\ SteadyMb + DeadBandMb <= sample.total
          /\ t < target
      BY <1>1, <1>2, <1>4, <2>1 DEF Most
    <3>2. 100 * sample.available >= (HighPct + 1) * sample.total /\ sample.total > 0
      BY <1>1, <1>2, <2>1, <3>1, Slack
    <3>3. ~(target <= ReservedMb(guests)) /\ ~(target - KeptMb < SteadyMb + DeadBandMb)
      BY <1>1, <1>2, <2>1, <2>2, <3>1
    <3>4. 100 * (sample.total - used) < (HighPct + 1) * sample.total
      <4>1. 100 * (target - KeptMb - used) < (HighPct + 1) * (target - KeptMb)
        BY <1>3, <3>3 DEF Enough
      <4>2. QED
        BY <3>1, <4>1
    <3>5. (HighPct + 1) * sample.total > 0
      BY <1>2, <3>2
    <3>6. QED
      BY <1>1, <1>2, <1>4, <3>2, <3>4, <3>5 DEF Most
  <2>4. target <= t
    BY <1>1, <1>2, <1>4, <2>1, <2>3 DEF Most, GrowthMargins
  <2>5. Enough(t, used, guests)
    <3>1. CASE t = ReservedMb(guests)
      BY <2>1, <2>2, <3>1 DEF Enough
    <3>2. CASE AvailablePct(sample) < LowPct /\ t <= sample.total + StepMb
      BY <1>1, <1>4, <2>1, <3>2, GrowsEnough
    <3>3. CASE t = sample.total
      <4>1. t = target
        BY <1>1, <1>2, <1>4, <2>1, <2>4, <3>3 DEF Most
      <4>2. QED
        BY <1>3, <4>1
    <3>4. QED
      BY <1>2, <2>1, <2>3, <3>1, <3>2, <3>3
  <2>6. QED
    BY <1>5, <1>7, <2>1, <2>4, <2>5
<1>8. QED
  BY <1>6, <1>7

LEMMA GrownKept ==
    ASSUME GrowthMargins PROVE IInv /\ Reading /\ Grown /\ [Next]_vars => Grown'
<1> SUFFICES ASSUME IInv, Reading, Grown, [Next]_vars, grown' PROVE Grown'
  BY DEF Grown
<1>1. CASE Ticks /\ Sample /\ Calm /\ UNCHANGED <<grown, blind>>
  <2>1. UNCHANGED <<target, used, guests>> /\ pc' = "census" /\ sample' = Meminfo
    BY <1>1 DEF Sample
  <2>2. Meminfo' = Meminfo
    BY <2>1 DEF Meminfo
  <2>3. target <= MaxMb /\ Enough(target, used, guests)
    BY <1>1 DEF Grown
  <2>4. QED
    BY <2>1, <2>2, <2>3 DEF Grown
<1>2. CASE Ticks /\ Census /\ Calm /\ UNCHANGED <<loaded, grown, blind>>
  <2>1. /\ UNCHANGED <<target, used, guests, sample>> /\ pc = "census" /\ pc' = "decide"
        /\ census' = guests
    BY <1>2 DEF Census
  <2>2. target <= MaxMb /\ Enough(target, used, guests) /\ sample = Meminfo
    BY <1>2, <2>1 DEF Grown
  <2>3. Meminfo' = Meminfo
    BY <2>1 DEF Meminfo
  <2>4. QED
    BY <2>1, <2>2, <2>3 DEF Grown
<1>3. CASE /\ Ticks /\ Apply /\ Calm /\ UNCHANGED loaded
           /\ grown' = \/ grown
                       \/ /\ target' > target /\ AvailablePct(sample) < LowPct
                          /\ loaded = used /\ census = guests
  <2>1. pc' = "sample" /\ UNCHANGED <<used, guests>>
    BY <1>3 DEF Apply, Ticked
  <2>2. target' <= MaxMb /\ Enough(target', used, guests)
    <3>1. CASE grown
      BY <1>3, <3>1, EnoughIsKept
    <3>2. CASE /\ target' > target /\ AvailablePct(sample) < LowPct
               /\ loaded = used /\ census = guests
      <4>1. /\ sample \in [total : Nat, available : Nat] /\ census \in Nat
            /\ used \in Nat /\ target \in Nat
            /\ sample.available = Most(sample.total - used, 0)
        BY <1>3, <3>2, Dom0MemoryAssumption DEF IInv, TypeOK, Reading, Apply
      <4> DEFINE t == DecideTarget(sample, census)
      <4>2. target' = t /\ t # Hold
        BY <1>3, <3>2, <4>1 DEF Apply
      <4>3. /\ t \in Int /\ SteadyMb <= t /\ ReservedMb(census) <= t
            /\ t <= MaxMb
            /\ sample.total < t => t = ReservedMb(census) \/ t <= sample.total + StepMb
        BY <4>1, <4>2, Moves
      <4> HIDE DEF t
      <4>4. CASE t = ReservedMb(census)
        BY <3>2, <4>2, <4>3, <4>4 DEF Enough
      <4>5. CASE t <= sample.total + StepMb
        BY <3>2, <4>1, <4>2, <4>3, <4>5, GrowsEnough
      <4>6. sample.total \in Nat /\ StepMb \in Nat
        BY <4>1, GovernorAssumption
      <4>7. QED
        BY <4>3, <4>4, <4>5, <4>6
    <3>3. QED
      BY <1>3, <3>1, <3>2
  <2>3. QED
    BY <2>1, <2>2 DEF Grown
<1>4. CASE grown /\ UNCHANGED <<target, used, guests, pc, sample, census>>
  BY <1>4 DEF Grown, Meminfo
<1>5. QED
  <2>1. ~Upset
    BY DEF Upset
  <2>2. CASE Ticks
    BY <1>1, <1>2, <1>3, <2>2 DEF Ticks
  <2>3. CASE Opens \/ Edits \/ UNCHANGED vars
    BY <1>4, <2>3 DEF Opens, Edits, Unmoved, governor, vars
  <2>4. QED
    BY <2>1, <2>2, <2>3 DEF Next, LoadChanges, GuestsChange, Failing, Orders

\* Where the margins allow for what the kernel keeps, what dom0 was given for
\* want of memory is not taken back while nothing else changes.
THEOREM GrowthHolds ==
    ASSUME GrowthMargins PROVE Spec => GrowthKept
<1>1. Init => Reading /\ Grown
  BY DEF Init, GovernorInit, Reading, Grown
<1>2. IInv /\ Reading /\ Grown /\ [Next]_vars => [Ticks /\ grown => target' >= target]_vars
  <2> SUFFICES ASSUME IInv, Reading, Grown, Ticks, grown PROVE target' >= target
    OBVIOUS
  <2>1. target \in Nat
    BY DEF IInv, TypeOK
  <2>2. CASE Apply
    BY <2>2, EnoughIsKept
  <2>3. CASE UNCHANGED target
    BY <2>1, <2>3
  <2>4. QED
    BY <2>2, <2>3 DEF Ticks, Sample, Census
<1>3. QED
  BY InitIInv, NextIInv, ReadingKept, GrownKept, <1>1, <1>2, PTL DEF Spec, GrowthKept

\* The governor's defaults have both margins for every kernel that keeps from
\* 8 to 101 MB of dom0's memory.  With none kept, a step up from just under the
\* low watermark can end above the high one; with more, a step down can take
\* what is in use.
THEOREM DefaultsHaveMargins ==
    ASSUME SteadyMb = 1024, MaxMb = 4096, PerGuestMb = 256, LowPct = 12, HighPct = 30,
           StepMb = 256, DeadBandMb = 128, KeptMb \in 8..101
    PROVE  WatermarkMargins /\ GrowthMargins
  BY DEF WatermarkMargins, GrowthMargins

================================================================================
