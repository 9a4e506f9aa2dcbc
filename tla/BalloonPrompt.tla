---------------------------- MODULE BalloonPrompt ----------------------------
(***************************************************************************)
(* The cockpit's memory forms (cockpit/src/lib.rs): the balloon prompt of  *)
(* [b], which keeps the figures it was opened with while it stays open,    *)
(* the policy editor of [M], and the form for a new instance of [n].       *)
(* Amounts are in MB; a list of presets is a set, for it is sorted and has *)
(* no duplicates, and the highlighted preset stands for its index.         *)
(***************************************************************************)
EXTENDS Integers, FiniteSets, Sequences

CONSTANT Typed  \* the numbers users type

ASSUME TypedAssumption == Typed \subseteq Nat

DOM0_FLOOR_MB == 512
NoText == -1

AtLeast(a, b) == IF a >= b THEN a ELSE b
AtMost(a, b) == IF a <= b THEN a ELSE b
Minus(a, b) == AtLeast(a - b, 0)
AbsDiff(a, b) == IF a >= b THEN a - b ELSE b - a
Smallest(S) == CHOOSE v \in S : \A w \in S : v <= w

Cap(current, max) == IF max > 0 THEN max ELSE AtLeast(current, 1)
Floor(dom0) == IF dom0 THEN DOM0_FLOOR_MB ELSE 1

\* balloon_options_mb before the values outside the range are dropped.
Ramp(current, max, dom0) ==
    LET cap == Cap(current, max)
        floor == Floor(dom0)
    IN  {floor, AtLeast(current, floor), cap, cap \div 4, cap \div 2, (cap * 3) \div 4,
         AtLeast(Minus(current, 256), floor), AtLeast(Minus(current, 512), floor),
         AtMost(current + 256, cap), AtMost(current + 512, cap)}

InSpan(v, current, max, dom0) == v >= Floor(dom0) /\ v <= Cap(current, max)

\* mutant: the presets are not cut to the range
EveryStep(current, max, dom0) == Ramp(current, max, dom0) \ {0}

Options(current, max, dom0) ==
    LET kept == {v \in Ramp(current, max, dom0) : InSpan(v, current, max, dom0)}
    IN  IF kept = {} THEN {AtLeast(current, 1)} ELSE kept

\* nearest_index_u64: the first of the nearest.
Nearest(S, target) ==
    Smallest({v \in S : \A w \in S : AbsDiff(v, target) <= AbsDiff(w, target)})

Percent(pct, current, max) ==
    ((IF max > 0 THEN max ELSE current) * pct + 50) \div 100

\* resolve_balloon_target; -1 keeps the prompt open with a hint.
Resolve(p) ==
    CASE p.entry = "presets" -> p.pick
      [] p.entry = "manual" -> p.text
      [] p.entry = "percentage" /\ p.text \in 0..100 -> Percent(p.text, p.current, p.max)
      [] OTHER -> NoText

\* mutant: the host's floor is not looked at
LooksAtMax(target, max, dom0) == target \in Nat \ {0} /\ (max = 0 \/ target <= max)

\* validate_balloon_target
Valid(target, max, dom0) ==
    /\ target \in Nat \ {0}
    /\ max = 0 \/ target <= max
    /\ dom0 => target >= DOM0_FLOOR_MB

\* The lists of the policy editor.
PolicyCap(current, max) == AtLeast(AtLeast(max, current), 256)
PolicyMins(current, max) ==
    LET cap == PolicyCap(current, max)
    IN  {256, 512, 1024, AtMost(current, cap), AtLeast(current \div 2, 256), AtMost(cap, 2048)} \ {0}
PolicyMaxs(current, max) ==
    LET cap == PolicyCap(current, max)
    IN  {AtLeast(current, 256), cap, 1024, 2048, AtMost(4096, cap), AtMost(8192, cap)}

\* The policy editor as it opens, with its three lists, and the forms a key
\* makes of it: Tab and the vertical arrows move the focus, the horizontal
\* ones go to the neighbour in the list of the field that has it.
PolicyFields == {"min", "max", "cooldown"}
PolicyLists(current, max) ==
    [min |-> PolicyMins(current, max), max |-> PolicyMaxs(current, max),
     cooldown |-> {5, 10, 30, 60, 120}]
PolicyOpened(current, max) ==
    [min |-> Nearest(PolicyMins(current, max), current),
     max |-> Nearest(PolicyMaxs(current, max), AtLeast(max, current)),
     cooldown |-> 30, focus |-> "min"]

Adjacent(S, v) ==
    {u \in S \ {v} : ~\E w \in S : (v < w /\ w < u) \/ (u < w /\ w < v)}
PolicyKeyed(form, lists) ==
    {[form EXCEPT !.focus = g] : g \in PolicyFields \ {form.focus}}
    \cup {[form EXCEPT ![form.focus] = u] : u \in Adjacent(lists[form.focus], form[form.focus])}

\* What Enter takes: SetPolicy with the three values of the form.
PolicySends(form) == form.min <= form.max /\ form.cooldown >= 1

-----------------------------------------------------------------------------
\* The form for a new instance.  bases is the list of known base images, of
\* which the form holds an index; id is the text typed so far.

WizardFields == {"id", "base", "memory", "vcpus"}
WizardNext == [id |-> "base", base |-> "memory", memory |-> "vcpus", vcpus |-> "id"]
WizardPrev == [id |-> "vcpus", base |-> "id", memory |-> "base", vcpus |-> "memory"]
WizardLists == [memory |-> {512, 1024, 2048, 4096, 8192, 16384}, vcpus |-> {1, 2, 4, 8, 16}]
WizardOpened == [id |-> << >>, base |-> 0, memory |-> 4096, vcpus |-> 2, focus |-> "id"]

\* available_base_choices: the images of the index, then the catalog's others.
Bases(index, catalog) ==
    index \o SelectSeq(catalog, LAMBDA b : \A i \in 1..Len(index) : index[i] # b)

\* Left and right turn the list of bases in a ring, and stop at the ends of the
\* other two lists.
Sideways(form, back, bases) ==
    CASE form.focus = "base" /\ bases # << >> ->
           {[form EXCEPT !.base = (@ + (IF back THEN Len(bases) - 1 ELSE 1)) % Len(bases)]}
      [] form.focus \in {"memory", "vcpus"} ->
           LET S == {v \in Adjacent(WizardLists[form.focus], form[form.focus]) :
                       IF back THEN v < form[form.focus] ELSE v > form[form.focus]}
           IN  IF S = {} THEN {form} ELSE {[form EXCEPT ![form.focus] = v] : v \in S}
      [] OTHER -> {form}

\* What an id may be made of; "x" stands for the letters without a meaning.
IdChars == {"h", "l", "x"}
Appended(form, c) == IF form.focus = "id" THEN {[form EXCEPT !.id = Append(@, c)]} ELSE {form}

\* The arms of the match in their order: h and l are arrows before they are
\* letters.
WizardKeyed(form, key, bases) ==
    CASE key \in {"Tab", "Down"} -> {[form EXCEPT !.focus = WizardNext[@]]}
      [] key \in {"BackTab", "Up"} -> {[form EXCEPT !.focus = WizardPrev[@]]}
      [] key \in {"Left", "h"} -> Sideways(form, TRUE, bases)
      [] key \in {"Right", "l"} -> Sideways(form, FALSE, bases)
      [] key = "Backspace" /\ form.focus = "id" /\ form.id # << >> ->
           {[form EXCEPT !.id = [i \in 1..(Len(@) - 1) |-> @[i]]]}
      [] key \in IdChars \ {"h", "l"} -> Appended(form, key)
      [] OTHER -> {form}

\* Enter: CreateInstance with the id, the base, the memory and the vCPUs.
WizardSends(form, bases) == form.id # << >> /\ bases # << >>

-----------------------------------------------------------------------------
VARIABLE prompt  \* the open prompt, or Closed

Closed == [open |-> FALSE]

Open(current, max, dom0) ==
    /\ ~prompt.open
    /\ prompt' = [open |-> TRUE, current |-> current, max |-> max, dom0 |-> dom0,
                  pick |-> Nearest(Options(current, max, dom0), current),
                  entry |-> "presets", text |-> NoText]

Offered == Options(prompt.current, prompt.max, prompt.dom0)

NextEntry == [presets |-> "manual", manual |-> "percentage", percentage |-> "presets"]

Tab == prompt.open /\ prompt' = [prompt EXCEPT !.entry = NextEntry[@], !.text = NoText]

\* Left and right go to the next preset below and above.
Step(v) ==
    /\ prompt.open /\ prompt.entry = "presets" /\ v \in Offered
    /\ v # prompt.pick
    /\ ~\E w \in Offered : (v < w /\ w < prompt.pick) \/ (prompt.pick < w /\ w < v)
    /\ prompt' = [prompt EXCEPT !.pick = v]

Type(n) ==
    /\ prompt.open /\ prompt.entry # "presets"
    /\ prompt' = [prompt EXCEPT !.text = n]

Escape == prompt.open /\ prompt' = Closed

\* Enter closes the prompt once the entry is a number; the target is sent if it
\* is valid for the figures the prompt was opened with.
Enter == prompt.open /\ Resolve(prompt) # NoText /\ prompt' = Closed
Sends == Enter /\ Valid(Resolve(prompt), prompt.max, prompt.dom0)

=============================================================================
