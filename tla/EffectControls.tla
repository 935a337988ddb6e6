--------------------------- MODULE EffectControls ---------------------------
(***************************************************************************)
(* ui/MainWindow: the effect controls.  Each effect has a slider for both  *)
(* directions and one for either direction; an "Asymmetric" checkbox, that *)
(* two controls may share, says which of them are shown.  Qt calls the     *)
(* slots within setValue, but only if the value changes: what reaches      *)
(* EffectConfig depends on what the hidden sliders happen to hold.         *)
(*                                                                         *)
(* Everything runs on the UI thread, one handler at a time.  A slider and  *)
(* its spin box always agree and are one here; a value counts the steps    *)
(* from the lowest one, where the controls start (the burst length starts  *)
(* higher, which makes no difference).                                     *)
(***************************************************************************)
EXTENDS Integers

CONSTANTS
  Controls,      \* the controls that are modelled
  MaxValue       \* the highest value of a slider

\* Each control's checkbox.  Jitter and throttle are wired as delay is.
Group == [delay |-> "delay", jitter |-> "jitter", throttle |-> "throttle", drop |-> "drop",
          burst_chance |-> "burst", burst_length |-> "burst",
          duplicate |-> "duplicate", duplicate_count |-> "duplicate"]

ASSUME ControlsAssumption == Controls \subseteq DOMAIN Group
ASSUME MaxValueAssumption == MaxValue \in Nat

Values == 0 .. MaxValue
Groups == {Group[c] : c \in Controls}
Directions == {"outbound", "inbound"}

VARIABLES
  shared,       \* the slider for both directions, by control
  slider,       \* the sliders for one direction each
  effects,      \* effects_: what the capture thread applies
  asymmetric,   \* the checkboxes, by group
  custom,       \* duplicate_custom_count_checkbox_
  burst         \* burst_drop_checkbox_

vars == <<shared, slider, effects, asymmetric, custom, burst>>

Lowest == [d \in Directions |-> 0]

Init ==
  /\ shared = [c \in Controls |-> 0]
  /\ slider = [c \in Controls |-> Lowest]
  /\ effects = [c \in Controls |-> Lowest]
  /\ asymmetric = [g \in Groups |-> FALSE]
  /\ custom = FALSE
  /\ burst = FALSE

-----------------------------------------------------------------------------
(* What can be used *)

\* Burst mode swaps the two ways to drop.
Enabled(g) == (g = "drop" => ~burst) /\ (g = "burst" => burst)

\* The count's slots return at once without custom copies.
Wired(c) == c = "duplicate_count" => custom

-----------------------------------------------------------------------------
(* The slots *)

Both(v) == [d \in Directions |-> v]

\* setValue of the shared sliders: if the value changes, both directions take
\* it and their sliders follow.
SharedTo(moves) ==
  LET Emits(c) == c \in DOMAIN moves /\ moves[c] # shared[c] /\ Wired(c)
  IN  /\ shared' = [c \in Controls |-> IF c \in DOMAIN moves THEN moves[c] ELSE shared[c]]
      /\ effects' = [c \in Controls |-> IF Emits(c) THEN Both(moves[c]) ELSE effects[c]]
      /\ slider' = [c \in Controls |-> IF Emits(c) THEN Both(moves[c]) ELSE slider[c]]

\* setValue of directions' sliders: if the value changes, the direction takes it.
DirectionsTo(moves) ==
  LET Emits(c, d) == c \in DOMAIN moves /\ moves[c][d] # slider[c][d] /\ Wired(c)
  IN  /\ slider' = [c \in Controls |-> IF c \in DOMAIN moves THEN moves[c] ELSE slider[c]]
      /\ effects' = [c \in Controls |->
           [d \in Directions |-> IF Emits(c, d) THEN moves[c][d] ELSE effects[c][d]]]
      /\ UNCHANGED shared

MoveShared(c, v) ==
  /\ Enabled(Group[c]) /\ Wired(c) /\ ~asymmetric[Group[c]]
  /\ SharedTo([x \in {c} |-> v])
  /\ UNCHANGED <<asymmetric, custom, burst>>

MoveDirection(c, d, v) ==
  /\ Enabled(Group[c]) /\ Wired(c) /\ asymmetric[Group[c]]
  /\ DirectionsTo([x \in {c} |-> [slider[c] EXCEPT ![d] = v]])
  /\ UNCHANGED <<asymmetric, custom, burst>>

Members(g) == {c \in Controls : Group[c] = g /\ Wired(c)}

\* The directions start from the shared value.
CheckAsymmetric(g) ==
  /\ Enabled(g) /\ ~asymmetric[g]
  /\ asymmetric' = [asymmetric EXCEPT ![g] = TRUE]
  /\ DirectionsTo([c \in Members(g) |-> Both(shared[c])])
  /\ UNCHANGED <<custom, burst>>

\* The outbound value becomes the shared one.
UncheckAsymmetric(g) ==
  /\ Enabled(g) /\ asymmetric[g]
  /\ asymmetric' = [asymmetric EXCEPT ![g] = FALSE]
  /\ SharedTo([c \in Members(g) |-> slider[c]["outbound"]])
  /\ UNCHANGED <<custom, burst>>

\* Seeded fault: the shared count is taken whether or not it is shown.
ToggleCustomCopiesShared ==
  /\ "duplicate_count" \in Controls
  /\ custom' = ~custom
  /\ effects' = [effects EXCEPT !["duplicate_count"] =
       IF custom THEN Lowest ELSE Both(shared["duplicate_count"])]
  /\ UNCHANGED <<shared, slider, asymmetric, burst>>

\* With custom copies the counts shown apply, without them the default does.
ToggleCustomCopies ==
  /\ "duplicate_count" \in Controls
  /\ custom' = ~custom
  /\ effects' = [effects EXCEPT !["duplicate_count"] =
       IF custom THEN Lowest
       ELSE IF asymmetric["duplicate"] THEN slider["duplicate_count"]
       ELSE Both(shared["duplicate_count"])]
  /\ UNCHANGED <<shared, slider, asymmetric, burst>>

\* Burst mode itself goes to EffectConfig at once and is not kept apart here.
ToggleBurst ==
  /\ burst' = ~burst
  /\ UNCHANGED <<shared, slider, effects, asymmetric, custom>>

Clamp(v) == IF v < 0 THEN 0 ELSE IF v > MaxValue THEN MaxValue ELSE v

\* Seeded fault: nothing keeps a step within the slider's range.
HotkeyUnclamped(c, step) ==
  /\ IF asymmetric[Group[c]]
       THEN DirectionsTo([x \in {c} |-> [d \in Directions |-> slider[c][d] + step]])
       ELSE SharedTo([x \in {c} |-> shared[c] + step])
  /\ UNCHANGED <<asymmetric, custom, burst>>

\* OnHotkeyTriggered: by a step, also of a slider that is disabled or hidden.
Hotkey(c, step) ==
  /\ IF asymmetric[Group[c]]
       THEN DirectionsTo([x \in {c} |-> [d \in Directions |-> Clamp(slider[c][d] + step)]])
       ELSE SharedTo([x \in {c} |-> Clamp(shared[c] + step)])
  /\ UNCHANGED <<asymmetric, custom, burst>>

\* What the user does in the window.
Moves ==
  \/ \E c \in Controls, v \in Values :
       MoveShared(c, v) \/ \E d \in Directions : MoveDirection(c, d, v)
  \/ \E g \in Groups : CheckAsymmetric(g) \/ UncheckAsymmetric(g)
  \/ ToggleCustomCopies \/ ToggleBurst

Next == Moves \/ \E c \in Controls \cap {"delay", "drop"}, step \in {-1, 1} : Hotkey(c, step)

Spec == Init /\ [][Next]_vars

-----------------------------------------------------------------------------
(* Properties *)

\* Every variable stays in its range.
TypeOK ==
  /\ shared \in [Controls -> Values]
  /\ slider \in [Controls -> [Directions -> Values]]
  /\ effects \in [Controls -> [Directions -> Values]]
  /\ asymmetric \in [Groups -> BOOLEAN]
  /\ custom \in BOOLEAN /\ burst \in BOOLEAN

\* What the controls show of direction d.
Shown(c, d) ==
  IF ~Wired(c) THEN 0
  ELSE IF asymmetric[Group[c]] THEN slider[c][d]
  ELSE shared[c]

\* Whatever was checked, unchecked and moved before, the outbound direction
\* has the effects the controls show, and the inbound one has them in
\* asymmetric mode.
EffectsAreShown ==
  \A c \in Controls :
    /\ effects[c]["outbound"] = Shown(c, "outbound")
    /\ asymmetric[Group[c]] => effects[c]["inbound"] = Shown(c, "inbound")

\* What makes it so.  A control that does nothing has the default effect.  With
\* "Asymmetric" the effects are the directions' sliders; without it the outbound
\* effect is the shared slider, and an effect that a direction's slider does not
\* show is the shared one, so that the slot of the next check makes up for it.
ControlsAgree ==
  \A c \in Controls :
    IF ~Wired(c) THEN effects[c] = Lowest
    ELSE IF asymmetric[Group[c]] THEN effects[c] = slider[c]
    ELSE /\ effects[c]["outbound"] = shared[c]
         /\ \A d \in Directions : effects[c][d] \in {slider[c][d], shared[c]}

\* The inductive invariant.
ControlsInv == TypeOK /\ ControlsAgree
=============================================================================
