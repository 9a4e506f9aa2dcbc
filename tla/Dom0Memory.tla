------------------------------ MODULE Dom0Memory ------------------------------
(***************************************************************************)
(* dom0's memory on a ThinDom0 host, where two programs set it: the        *)
(* governor that the init starts, and the cockpit in its direct mode, at   *)
(* the user's word.  Neither knows of the other, dom0's load and the       *)
(* guests change under both, and each call either makes can fail.          *)
(***************************************************************************)
EXTENDS Governor, BalloonPrompt

CONSTANTS
    Loads,       \* what dom0 may use
    MaxGuests,
    MaxUpsets    \* bounds changes of the load and the guests, failures and prompts

ASSUME Dom0MemoryAssumption ==
    /\ Loads \subseteq Nat /\ Loads # {} /\ MaxGuests \in Nat /\ MaxUpsets \in Nat
    /\ DOM0_FLOOR_MB <= SteadyMb /\ 0 < PerGuestMb

VARIABLES
    upsets,
    loaded,  \* what dom0 used when the governor sampled
    grown,   \* the governor has grown dom0 for want of memory, on a reading that was
             \* still true when it did, and nothing else changed since
    blind    \* the target is one that a user typed into a prompt without a reading

vars == <<target, used, guests, governor, prompt, upsets, loaded, grown, blind>>

TypeOK ==
    /\ target \in Nat /\ used \in Loads /\ guests \in 0..MaxGuests
    /\ pc \in {"sample", "census", "decide", "dead"}
    /\ sample \in [total : Nat, available : Nat]
    /\ census \in 0..MaxGuests /\ upsets \in 0..MaxUpsets
    /\ loaded \in Loads /\ grown \in BOOLEAN /\ blind \in BOOLEAN

Init == /\ GovernorInit /\ used \in Loads /\ guests = 0 /\ prompt = Closed
        /\ upsets = 0 /\ loaded = used /\ grown = FALSE /\ blind = FALSE

Upset == upsets < MaxUpsets /\ upsets' = upsets + 1 /\ grown' = FALSE /\ UNCHANGED loaded
Calm == UNCHANGED upsets
Unmoved == UNCHANGED <<target, used, guests>>

-----------------------------------------------------------------------------
LoadChanges == /\ Upset /\ used' \in Loads \ {used}
               /\ UNCHANGED <<target, guests, governor, prompt, blind>>

GuestsChange == /\ Upset /\ guests' \in {guests - 1, guests + 1} \cap (0..MaxGuests)
                /\ UNCHANGED <<target, used, governor, prompt, blind>>

Ticks ==
    /\ UNCHANGED prompt
    /\ \/ Sample /\ Calm /\ loaded' = used /\ UNCHANGED <<grown, blind>>
       \/ Census /\ Calm /\ UNCHANGED <<loaded, grown, blind>>
       \/ /\ Apply /\ Calm /\ UNCHANGED loaded
          /\ grown' = \/ grown
                      \/ /\ target' > target /\ AvailablePct(sample) < LowPct
                         /\ loaded = used /\ census = guests
          /\ blind' = (blind /\ target' = target)

Failing == /\ UNCHANGED <<prompt, blind>> /\ Upset
           /\ SampleFails \/ CensusFails \/ ApplyFails

\* [b] on the row of Domain-0, whose size is the balloon target; when libxl
\* could not give the status of Domain-0, the form opens with zeros.
Readings == {[size |-> target, max |-> MaxMb], [size |-> 0, max |-> 0]}

Opens == /\ \E r \in Readings : Open(r.size, r.max, TRUE)
         /\ upsets < MaxUpsets /\ upsets' = upsets + 1
         /\ Unmoved /\ UNCHANGED <<governor, loaded, grown, blind>>

\* Enter does nothing to dom0 when the entry is not valid or libxl refuses it.
Edits == /\ \/ Tab
            \/ prompt.open /\ \E v \in Offered : Step(v)
            \/ \E n \in Typed : Type(n)
            \/ Escape
            \/ Enter
         /\ Calm /\ Unmoved /\ UNCHANGED <<governor, loaded, grown, blind>>

\* balloon_to.  Whether libxl takes a target above the ceiling is left open.
Orders == /\ Sends /\ target' = Resolve(prompt) /\ Calm /\ grown' = FALSE
          /\ blind' = (prompt.max = 0)
          /\ UNCHANGED <<used, guests, governor, loaded>>

Next == LoadChanges \/ GuestsChange \/ Ticks \/ Failing \/ Opens \/ Edits \/ Orders

\* The governor's loop runs; nothing else has to happen.
Spec == Init /\ [][Next]_vars /\ WF_vars(Ticks)

-----------------------------------------------------------------------------
(* Properties *)

\* Whoever sets it, dom0 keeps the 512 MB it cannot do without; and it has more
\* than the ceiling Xen was booted with only while a number stands that a user
\* typed into a prompt that was opened without a reading.
InRange == target >= DOM0_FLOOR_MB /\ (target > MaxMb => blind)

\* Not for long: "the loop [is] self-correcting even if something outside the
\* governor runs `xl mem-set`" (dom0-memd) -- as far as its dead band lets it.
CeilingRestored == target - KeptMb >= MaxMb + DeadBandMb ~> target <= MaxMb \/ pc = "dead"

\* What the prompt announces for dom0: "floor is 512M (kernel-survival); ceiling
\* is dom0_max_mem" (cockpit, render_balloon_prompt).
SendsInRange == [][Sends => Resolve(prompt) \in DOM0_FLOOR_MB..MaxMb]_vars

\* "The watermark still protects dom0" (the comment at parse_guest_count): the
\* governor takes no memory away that was in use when it sampled, also when its
\* census failed and the reservations of the guests count for nothing.  Only the
\* ceiling goes before it.
WatermarkProtects ==
    [][Ticks /\ target' < target /\ target - KeptMb = sample.total /\ sample.total <= MaxMb
         => target' - KeptMb >= loaded]_vars

\* No thrashing: what dom0 was given for want of memory is not taken back while
\* its load, its guests and its target are left alone, from the reading on.
GrowthKept == [][Ticks /\ grown => target' >= target]_vars

\* Once nothing changes and nothing fails, the target comes to rest.
Settles == <>[][target' = target]_vars
=============================================================================
