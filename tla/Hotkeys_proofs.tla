--------------------------- MODULE Hotkeys_proofs ---------------------------
(***************************************************************************)
(* Proofs about Hotkeys: for any actions, keys and modifiers, and whatever *)
(* the system refuses or takes away, no hook leaks or fires twice, hotkeys *)
(* are off only after a failure, and what the edits show is what is bound  *)
(* and, but for the binding that is being saved, what is stored.           *)
(***************************************************************************)
EXTENDS Hotkeys, SequenceTheorems, TLAPS

\* RemoveHooks leaves no hook that the program knows of.
LEMMA NothingLeft ==
  ASSUME HooksInv
  PROVE  Left = NoHooks
BY DEF HooksInv, HooksAreOwned, Left, NoHooks

\* The two outcomes of an installation.
BothHooks ==
  /\ registered = TRUE /\ failed = FALSE /\ dropped = {} /\ handles = Kinds
  /\ installed = [k \in Kinds |-> 1]
NoHook ==
  /\ registered = FALSE /\ failed = TRUE /\ dropped = {} /\ handles = {}
  /\ installed = [k \in Kinds |-> 0]

\* Both satisfy the invariant.
LEMMA OutcomesInv == BothHooks \/ NoHook => HooksInv
<1>1. ASSUME BothHooks PROVE HooksInv
  <2>1. installed \in [Kinds -> 0 .. 1] /\ \A k \in Kinds : installed[k] = 1
    BY <1>1 DEF BothHooks
  <2>2. registered \in BOOLEAN /\ failed \in BOOLEAN /\ (failed <=> ~ registered)
        /\ handles = IF registered THEN Kinds ELSE {}
    BY <1>1 DEF BothHooks
  <2>3. \A k \in Kinds : k \in handles \ dropped
    BY <1>1 DEF BothHooks
  <2>. QED BY <2>1, <2>2, <2>3, Zenon DEF HooksInv, HooksAreOwned
<1>2. ASSUME NoHook PROVE HooksInv
  <2>1. installed \in [Kinds -> 0 .. 1] /\ \A k \in Kinds : installed[k] = 0
    BY <1>2 DEF NoHook
  <2>2. registered \in BOOLEAN /\ failed \in BOOLEAN /\ (failed <=> ~ registered)
        /\ handles = IF registered THEN Kinds ELSE {}
    BY <1>2 DEF NoHook
  <2>3. \A k \in Kinds : k \notin handles \ dropped
    BY <1>2 DEF NoHook
  <2>. QED BY <2>1, <2>2, <2>3, Zenon DEF HooksInv, HooksAreOwned
<1>. QED BY <1>1, <1>2

\* InstallHooks after the old hooks are gone.
LEMMA InstallsBothOrNone ==
  ASSUME NEW got \in SUBSET Kinds, InstallHooks(NoHooks, got)
  PROVE  HooksInv'
<1>. SUFFICES BothHooks' \/ NoHook'
  BY OutcomesInv, PTL
<1>1. CASE got = Kinds
  <2>1. registered' = TRUE /\ failed' = FALSE /\ dropped' = {} /\ handles' = Kinds
    BY <1>1 DEF InstallHooks
  <2>2. installed' = [k \in Kinds |-> 1]
    BY <1>1 DEF InstallHooks, NoHooks
  <2>. QED BY <2>1, <2>2 DEF BothHooks
<1>2. CASE got # Kinds
  <2>1. registered' = FALSE /\ failed' = TRUE /\ dropped' = {} /\ handles' = {}
    BY <1>2 DEF InstallHooks
  <2>2. installed' = [k \in Kinds |-> 0]
    BY <1>2 DEF InstallHooks, NoHooks
  <2>. QED BY <2>1, <2>2 DEF NoHook
<1>. QED BY <1>1, <1>2

\* The constructor installs both hooks or none.
LEMMA HooksInit ==
  ASSUME HotkeysInit
  PROVE  HooksInv
<1>1. dropped = {} /\ registered \in BOOLEAN
  BY DEF HotkeysInit
<1>2. CASE registered = TRUE
  <2>1. failed = FALSE /\ handles = Kinds /\ installed = [k \in Kinds |-> 1]
    BY <1>2 DEF HotkeysInit
  <2>. QED BY <1>1, <1>2, <2>1, OutcomesInv DEF BothHooks
<1>3. CASE registered = FALSE
  <2>1. failed = TRUE /\ handles = {} /\ installed = [k \in Kinds |-> 0]
    BY <1>3 DEF HotkeysInit
  <2>. QED BY <1>1, <1>3, <2>1, OutcomesInv DEF NoHook
<1>. QED BY <1>1, <1>2, <1>3

\* Every step keeps the invariant of the hooks.
LEMMA StepHooks ==
  ASSUME HooksInv, [HotkeysNext]_<<vars, hotkey_vars>>
  PROVE  HooksInv'
<1>1. ASSUME UNCHANGED hook_vars PROVE HooksInv'
  BY <1>1 DEF hook_vars, HooksInv, HooksAreOwned
<1>2. ASSUME NEW a \in Actions, NEW b \in Editable, NEW got \in SUBSET Kinds, Edit(a, b, got)
      PROVE  HooksInv'
  <2>1. CASE registered
    BY <1>2, <2>1, NothingLeft, InstallsBothOrNone DEF Edit, SetBinding
  <2>2. CASE ~ registered
    BY <1>1, <1>2, <2>2 DEF Edit, SetBinding
  <2>. QED BY <2>1, <2>2
<1>3. ASSUME NEW k \in Kinds, SystemDropsHook(k) PROVE HooksInv'
  <2>1. installed[k] = 1 /\ k \in handles
    BY <1>3 DEF SystemDropsHook, HooksInv, HooksAreOwned
  <2>. QED BY <1>3, <2>1 DEF SystemDropsHook, HooksInv, HooksAreOwned
<1>4. ASSUME NEW got \in SUBSET Kinds, Restart(got) PROVE HooksInv'
  BY <1>4, InstallsBothOrNone DEF Restart
<1>5. CASE Free /\ Moves /\ UNCHANGED hotkey_vars
  BY <1>1, <1>5 DEF hotkey_vars
<1>6. ASSUME NEW a \in Actions, Save(a) PROVE HooksInv'
  BY <1>1, <1>6 DEF Save
<1>7. CASE Saved \/ Trigger \/ \E vk \in Keys, modifiers \in Modifiers : Press(vk, modifiers)
  BY <1>1, <1>7 DEF Saved, Trigger, Press
<1>8. CASE UNCHANGED <<vars, hotkey_vars>>
  BY <1>1, <1>8 DEF hotkey_vars
<1>. QED BY <1>2, <1>3, <1>4, <1>5, <1>6, <1>7, <1>8 DEF HotkeysNext

\* Whatever installations fail and hooks are lost, both hooks are there or
\* none, and the system calls no hook that the program has forgotten.
THEOREM HooksNeverLeak == HotkeysSpec => []HooksAreOwned
<1>1. HotkeysInit => HooksInv
  BY HooksInit
<1>2. HooksInv => HooksAreOwned
  BY DEF HooksInv
<1>. QED BY <1>1, <1>2, StepHooks, PTL DEF HotkeysSpec

\* A hotkey is dead only if an installation failed or the system took its hook.
THEOREM HotkeysWork == HotkeysSpec => []OffOnlyAfterFailure
<1>1. HotkeysInit => HooksInv
  BY HooksInit
<1>2. HooksInv => OffOnlyAfterFailure
  BY DEF HooksInv, HooksAreOwned, OffOnlyAfterFailure
<1>. QED BY <1>1, <1>2, StepHooks, PTL DEF HotkeysSpec

-----------------------------------------------------------------------------
\* A change of one binding leaves that one to be saved.
LEMMA StepEdit ==
  ASSUME BindingsInv, NEW a \in Actions, NEW b \in Editable, NEW got \in SUBSET Kinds,
         Edit(a, b, got)
  PROVE  BindingsInv'
<1>1. b \in Binding
  BY KeysAssumption DEF Editable, Unbound, Binding
<1>2. settings = edits /\ bindings = edits
  BY DEF Edit, Free, BindingsInv, EditsAreKept
<1>3. /\ bindings' = [bindings EXCEPT ![a] = b] /\ edits' = [edits EXCEPT ![a] = b]
      /\ settings' = settings /\ saving' = TRUE
  BY DEF Edit, SetBinding
<1>4. \A c \in Actions : settings'[c] # edits'[c] => c = a
  BY <1>2, <1>3 DEF BindingsInv
<1>. QED BY <1>1, <1>2, <1>3, <1>4 DEF BindingsInv, EditsAreKept

\* A value that is stored is the binding's, or its first half.
LEMMA StepSave ==
  ASSUME BindingsInv, NEW a \in Actions, Save(a)
  PROVE  BindingsInv'
<1>1. bindings[a] \in Binding /\ settings[a] \in Binding
  BY DEF BindingsInv
<1>2. PICK v \in Binding : settings' = [settings EXCEPT ![a] = v]
  <2>1. [settings[a] EXCEPT !.modifiers = bindings[a].modifiers] \in Binding
    BY <1>1 DEF Binding
  <2>2. CASE settings[a].modifiers # bindings[a].modifiers
    BY <2>1, <2>2 DEF Save, BindingsInv
  <2>3. CASE settings[a].modifiers = bindings[a].modifiers
    BY <1>1, <2>3 DEF Save, BindingsInv
  <2>. QED BY <2>2, <2>3
<1>3. bindings' = bindings /\ edits' = edits /\ saving' = saving /\ saving
      /\ settings[a] # edits[a]
  BY DEF Save, BindingsInv, EditsAreKept
<1>4. \A c \in Actions : settings'[c] # edits'[c] => c = a
  BY <1>2, <1>3 DEF BindingsInv, EditsAreKept
<1>. QED BY <1>2, <1>3, <1>4 DEF BindingsInv, EditsAreKept

\* Every step keeps the invariant of the bindings.
LEMMA StepBindings ==
  ASSUME BindingsInv, [HotkeysNext]_<<vars, hotkey_vars>>
  PROVE  BindingsInv'
<1>1. ASSUME UNCHANGED binding_vars PROVE BindingsInv'
  BY <1>1 DEF binding_vars, BindingsInv, EditsAreKept
<1>2. CASE \E a \in Actions, b \in Editable, got \in SUBSET Kinds : Edit(a, b, got)
  BY <1>2, StepEdit
<1>3. CASE \E a \in Actions : Save(a)
  BY <1>3, StepSave
<1>4. CASE Saved
  BY <1>4 DEF Saved, BindingsInv, EditsAreKept
<1>5. CASE \E got \in SUBSET Kinds : Restart(got)
  BY <1>5 DEF Restart, LoadSettings, LoadEdits, BindingsInv, EditsAreKept
<1>6. CASE Free /\ Moves /\ UNCHANGED hotkey_vars
  BY <1>1, <1>6 DEF hotkey_vars
<1>7. CASE \/ \E vk \in Keys, modifiers \in Modifiers : Press(vk, modifiers)
           \/ Trigger \/ \E k \in Kinds : SystemDropsHook(k)
  BY <1>1, <1>7 DEF Press, Trigger, SystemDropsHook
<1>8. CASE UNCHANGED <<vars, hotkey_vars>>
  BY <1>1, <1>8 DEF hotkey_vars
<1>. QED BY <1>2, <1>3, <1>4, <1>5, <1>6, <1>7, <1>8 DEF HotkeysNext

\* At the first start nothing is bound and nothing is stored.
LEMMA BindingsInit == HotkeysInit => BindingsInv
<1>. SUFFICES ASSUME HotkeysInit PROVE BindingsInv
  OBVIOUS
<1>1. Unbound \in Binding
  BY KeysAssumption DEF Unbound, Binding
<1>2. /\ bindings = [a \in Actions |-> Unbound]
      /\ edits = bindings /\ settings = bindings /\ saving = FALSE
  BY DEF HotkeysInit
<1>. QED BY <1>1, <1>2 DEF BindingsInv, EditsAreKept

\* What is shown is bound, and a crash at any point spoils at most the binding
\* that was changed last.
THEOREM EditsSurvive == HotkeysSpec => []EditsAreKept
<1>1. BindingsInv => EditsAreKept
  BY DEF BindingsInv
<1>. QED BY <1>1, BindingsInit, StepBindings, PTL DEF HotkeysSpec

-----------------------------------------------------------------------------
(* The effect controls *)

\* setValue of shared sliders that are shown, or that are about to be shown and
\* take the outbound value.
LEMMA SharedAgrees ==
  ASSUME ControlsInv, NEW moves, DOMAIN moves \subseteq Controls, SharedTo(moves),
         \A c \in DOMAIN moves :
           /\ moves[c] \in Values /\ Wired(c) /\ ~ asymmetric'[Group[c]]
           /\ asymmetric[Group[c]] => moves[c] = slider[c]["outbound"],
         \A c \in Controls \ DOMAIN moves :
           Wired(c) => asymmetric'[Group[c]] = asymmetric[Group[c]],
         UNCHANGED custom
  PROVE  /\ shared' \in [Controls -> Values]
         /\ slider' \in [Controls -> [Directions -> Values]]
         /\ effects' \in [Controls -> [Directions -> Values]]
         /\ ControlsAgree'
<1>t. TypeOK /\ ControlsAgree
  BY DEF ControlsInv
<1>1. \A v \in Values : Both(v) \in [Directions -> Values] /\ \A d \in Directions : Both(v)[d] = v
  BY DEF Both
<1>2. /\ shared' \in [Controls -> Values]
      /\ slider' \in [Controls -> [Directions -> Values]]
      /\ effects' \in [Controls -> [Directions -> Values]]
  BY <1>t, <1>1 DEF SharedTo, TypeOK
<1>3. ASSUME NEW c \in Controls
      PROVE  IF ~ Wired(c)' THEN effects'[c] = Lowest
             ELSE IF asymmetric'[Group[c]] THEN effects'[c] = slider'[c]
             ELSE /\ effects'[c]["outbound"] = shared'[c]
                  /\ \A d \in Directions : effects'[c][d] \in {slider'[c][d], shared'[c]}
  <2>w. Wired(c)' = Wired(c) /\ "outbound" \in Directions
    BY DEF Wired, Directions
  <2>0. IF ~ Wired(c) THEN effects[c] = Lowest
        ELSE IF asymmetric[Group[c]] THEN effects[c] = slider[c]
        ELSE /\ effects[c]["outbound"] = shared[c]
             /\ \A d \in Directions : effects[c][d] \in {slider[c][d], shared[c]}
    BY <1>t DEF ControlsAgree
  <2>1. CASE c \in DOMAIN moves /\ moves[c] # shared[c]
    <3>1. shared'[c] = moves[c] /\ effects'[c] = Both(moves[c]) /\ slider'[c] = Both(moves[c])
      BY <2>1 DEF SharedTo
    <3> QED
      BY <1>1, <2>1, <2>w, <3>1
  <2>2. CASE c \in DOMAIN moves /\ moves[c] = shared[c]
    <3>1. shared'[c] = moves[c] /\ effects'[c] = effects[c] /\ slider'[c] = slider[c]
      BY <2>2 DEF SharedTo
    <3>2. Wired(c) /\ ~ asymmetric'[Group[c]]
      BY <2>2
    <3>3. CASE asymmetric[Group[c]]
      BY <2>0, <2>2, <2>w, <3>1, <3>2, <3>3
    <3>4. CASE ~ asymmetric[Group[c]]
      BY <2>0, <2>2, <2>w, <3>1, <3>2, <3>4
    <3> QED
      BY <3>3, <3>4
  <2>3. CASE c \notin DOMAIN moves
    <3>1. shared'[c] = shared[c] /\ effects'[c] = effects[c] /\ slider'[c] = slider[c]
      BY <2>3 DEF SharedTo
    <3>2. Wired(c) => asymmetric'[Group[c]] = asymmetric[Group[c]]
      BY <2>3
    <3> QED
      BY <2>0, <2>w, <3>1, <3>2
  <2> QED
    BY <2>1, <2>2, <2>3
<1> QED
  BY <1>2, <1>3 DEF ControlsAgree, Wired

\* setValue of the directions' sliders of controls that are shown, or that are
\* about to be shown and start from the shared value.
LEMMA DirectionsAgree ==
  ASSUME ControlsInv, NEW moves, DOMAIN moves \subseteq Controls, DirectionsTo(moves),
         \A c \in DOMAIN moves :
           /\ moves[c] \in [Directions -> Values] /\ Wired(c) /\ asymmetric'[Group[c]]
           /\ ~ asymmetric[Group[c]] => \A d \in Directions : moves[c][d] = shared[c],
         \A c \in Controls \ DOMAIN moves :
           Wired(c) => asymmetric'[Group[c]] = asymmetric[Group[c]],
         UNCHANGED custom
  PROVE  /\ shared' \in [Controls -> Values]
         /\ slider' \in [Controls -> [Directions -> Values]]
         /\ effects' \in [Controls -> [Directions -> Values]]
         /\ ControlsAgree'
<1>t. TypeOK /\ ControlsAgree
  BY DEF ControlsInv
<1> DEFINE New(c) ==
      [d \in Directions |-> IF c \in DOMAIN moves /\ moves[c][d] # slider[c][d] /\ Wired(c)
                            THEN moves[c][d] ELSE effects[c][d]]
<1>1. \A c \in Controls : effects'[c] = New(c)
  BY DEF DirectionsTo
<1>n. \A c \in Controls : \A d \in Directions :
        New(c)[d] = IF c \in DOMAIN moves /\ moves[c][d] # slider[c][d] /\ Wired(c)
                    THEN moves[c][d] ELSE effects[c][d]
  OBVIOUS
<1>m. \A c \in Controls : New(c) = [d \in Directions |-> New(c)[d]]
  OBVIOUS
<1> HIDE DEF New
<1>2. /\ shared' \in [Controls -> Values]
      /\ slider' \in [Controls -> [Directions -> Values]]
  BY <1>t DEF DirectionsTo, TypeOK
<1>3. effects' \in [Controls -> [Directions -> Values]]
  <2>1. effects' = [c \in Controls |-> effects'[c]]
    BY DEF DirectionsTo
  <2>2. ASSUME NEW c \in Controls PROVE effects'[c] \in [Directions -> Values]
    <3>1. effects[c] \in [Directions -> Values]
      BY <1>t DEF TypeOK
    <3>2. \A d \in Directions : c \in DOMAIN moves => moves[c][d] \in Values
      OBVIOUS
    <3>3. \A d \in Directions : New(c)[d] \in Values
      BY <1>n, <3>1, <3>2
    <3> QED
      BY <1>1, <1>m, <3>3
  <2> QED
    BY <2>1, <2>2
<1>4. ASSUME NEW c \in Controls
      PROVE  IF ~ Wired(c)' THEN effects'[c] = Lowest
             ELSE IF asymmetric'[Group[c]] THEN effects'[c] = slider'[c]
             ELSE /\ effects'[c]["outbound"] = shared'[c]
                  /\ \A d \in Directions : effects'[c][d] \in {slider'[c][d], shared'[c]}
  <2>w. Wired(c)' = Wired(c) /\ shared' = shared
    BY DEF Wired, DirectionsTo
  <2>0. IF ~ Wired(c) THEN effects[c] = Lowest
        ELSE IF asymmetric[Group[c]] THEN effects[c] = slider[c]
        ELSE /\ effects[c]["outbound"] = shared[c]
             /\ \A d \in Directions : effects[c][d] \in {slider[c][d], shared[c]}
    BY <1>t DEF ControlsAgree
  <2>1. CASE c \in DOMAIN moves
    <3>1. slider'[c] = moves[c] /\ moves[c] \in [Directions -> Values]
      BY <2>1 DEF DirectionsTo
    <3>2. ASSUME NEW d \in Directions
          PROVE  effects'[c][d] = IF moves[c][d] # slider[c][d] THEN moves[c][d] ELSE effects[c][d]
      <4>1. Wired(c)
        BY <2>1
      <4>2. effects'[c][d] = IF c \in DOMAIN moves /\ moves[c][d] # slider[c][d] /\ Wired(c)
                             THEN moves[c][d] ELSE effects[c][d]
        BY <1>1, <1>n
      <4> QED
        BY <2>1, <4>1, <4>2
    <3>3. \A d \in Directions : effects'[c][d] = moves[c][d]
      <4>1. CASE asymmetric[Group[c]]
        BY <2>0, <2>1, <3>2, <4>1
      <4>2. CASE ~ asymmetric[Group[c]]
        BY <2>0, <2>1, <3>2, <4>2
      <4> QED
        BY <4>1, <4>2
    <3>4. effects'[c] = moves[c]
      BY <1>3, <3>1, <3>3
    <3> QED
      BY <2>1, <2>w, <3>1, <3>4
  <2>2. CASE c \notin DOMAIN moves
    <3>1. slider'[c] = slider[c]
      BY <2>2 DEF DirectionsTo
    <3>2. effects'[c] = effects[c]
      <4>1. effects[c] \in [Directions -> Values]
        BY <1>t DEF TypeOK
      <4>2. \A d \in Directions : New(c)[d] = effects[c][d]
        BY <1>n, <2>2
      <4> QED
        BY <1>1, <1>m, <4>1, <4>2
    <3>3. Wired(c) => asymmetric'[Group[c]] = asymmetric[Group[c]]
      BY <2>2
    <3> QED
      BY <2>0, <2>w, <3>1, <3>2, <3>3
  <2> QED
    BY <2>1, <2>2
<1> QED
  BY <1>2, <1>3, <1>4 DEF ControlsAgree, Wired

\* A control's checkbox is one of the groups.
LEMMA GroupOf == \A c \in Controls : Group[c] \in Groups
  BY DEF Groups

\* What the user does in the window keeps the controls and the effects together.
LEMMA StepMoves ==
  ASSUME ControlsInv, Moves
  PROVE  ControlsInv'
<1>t. TypeOK /\ ControlsAgree
  BY DEF ControlsInv
<1>1. ASSUME NEW c \in Controls, NEW v \in Values, MoveShared(c, v)
      PROVE  ControlsInv'
  <2> DEFINE moves == [x \in {c} |-> v]
  <2>1. SharedTo(moves) /\ UNCHANGED <<asymmetric, custom, burst>>
    BY <1>1 DEF MoveShared
  <2>2. /\ DOMAIN moves = {c} /\ moves[c] = v
        /\ Wired(c) /\ ~ asymmetric[Group[c]]
    BY <1>1 DEF MoveShared
  <2> HIDE DEF moves
  <2>3. /\ shared' \in [Controls -> Values]
        /\ slider' \in [Controls -> [Directions -> Values]]
        /\ effects' \in [Controls -> [Directions -> Values]]
        /\ ControlsAgree'
    BY <2>1, <2>2, SharedAgrees
  <2> QED
    BY <1>t, <2>1, <2>3 DEF ControlsInv, TypeOK
<1>2. ASSUME NEW c \in Controls, NEW v \in Values, NEW d \in Directions, MoveDirection(c, d, v)
      PROVE  ControlsInv'
  <2> DEFINE moves == [x \in {c} |-> [slider[c] EXCEPT ![d] = v]]
  <2>1. DirectionsTo(moves) /\ UNCHANGED <<asymmetric, custom, burst>>
    BY <1>2 DEF MoveDirection
  <2>2. /\ DOMAIN moves = {c} /\ moves[c] \in [Directions -> Values]
        /\ Wired(c) /\ asymmetric[Group[c]]
    BY <1>2, <1>t DEF MoveDirection, TypeOK
  <2> HIDE DEF moves
  <2>3. /\ shared' \in [Controls -> Values]
        /\ slider' \in [Controls -> [Directions -> Values]]
        /\ effects' \in [Controls -> [Directions -> Values]]
        /\ ControlsAgree'
    BY <2>1, <2>2, DirectionsAgree
  <2> QED
    BY <1>t, <2>1, <2>3 DEF ControlsInv, TypeOK
<1>3. ASSUME NEW g \in Groups, CheckAsymmetric(g)
      PROVE  ControlsInv'
  <2> DEFINE moves == [c \in Members(g) |-> Both(shared[c])]
  <2>1. DirectionsTo(moves) /\ UNCHANGED <<custom, burst>>
    BY <1>3 DEF CheckAsymmetric
  <2>2. asymmetric' = [asymmetric EXCEPT ![g] = TRUE] /\ asymmetric \in [Groups -> BOOLEAN]
    BY <1>3, <1>t DEF CheckAsymmetric, TypeOK
  <2>3. asymmetric' \in [Groups -> BOOLEAN] /\ asymmetric'[g] /\ ~ asymmetric[g]
        /\ \A h \in Groups \ {g} : asymmetric'[h] = asymmetric[h]
    BY <1>3, <2>2 DEF CheckAsymmetric
  <2>4. /\ DOMAIN moves = Members(g) /\ Members(g) \subseteq Controls
        /\ \A c \in Members(g) : Group[c] = g /\ Wired(c)
    BY DEF Members
  <2>5. \A c \in Members(g) : moves[c] \in [Directions -> Values] /\ \A d \in Directions : moves[c][d] = shared[c]
    BY <1>t, <2>4 DEF Both, TypeOK
  <2>6. \A c \in Controls \ Members(g) : Wired(c) => Group[c] \in Groups \ {g}
    BY GroupOf DEF Members
  <2> HIDE DEF moves
  <2>7. /\ shared' \in [Controls -> Values]
        /\ slider' \in [Controls -> [Directions -> Values]]
        /\ effects' \in [Controls -> [Directions -> Values]]
        /\ ControlsAgree'
    <3>1. \A c \in DOMAIN moves :
            /\ moves[c] \in [Directions -> Values] /\ Wired(c) /\ asymmetric'[Group[c]]
            /\ ~ asymmetric[Group[c]] => \A d \in Directions : moves[c][d] = shared[c]
      BY <2>3, <2>4, <2>5
    <3>2. \A c \in Controls \ DOMAIN moves : Wired(c) => asymmetric'[Group[c]] = asymmetric[Group[c]]
      BY <2>3, <2>4, <2>6
    <3> QED
      BY <2>1, <2>4, <3>1, <3>2, DirectionsAgree
  <2> QED
    BY <1>t, <2>1, <2>3, <2>7 DEF ControlsInv, TypeOK
<1>4. ASSUME NEW g \in Groups, UncheckAsymmetric(g)
      PROVE  ControlsInv'
  <2> DEFINE moves == [c \in Members(g) |-> slider[c]["outbound"]]
  <2>1. SharedTo(moves) /\ UNCHANGED <<custom, burst>>
    BY <1>4 DEF UncheckAsymmetric
  <2>2. asymmetric' = [asymmetric EXCEPT ![g] = FALSE] /\ asymmetric \in [Groups -> BOOLEAN]
    BY <1>4, <1>t DEF UncheckAsymmetric, TypeOK
  <2>3. asymmetric' \in [Groups -> BOOLEAN] /\ ~ asymmetric'[g]
        /\ \A h \in Groups \ {g} : asymmetric'[h] = asymmetric[h]
    BY <2>2
  <2>4. /\ DOMAIN moves = Members(g) /\ Members(g) \subseteq Controls
        /\ \A c \in Members(g) : Group[c] = g /\ Wired(c)
    BY DEF Members
  <2>5. \A c \in Members(g) : moves[c] \in Values /\ moves[c] = slider[c]["outbound"]
    BY <1>t, <2>4 DEF Directions, TypeOK
  <2>6. \A c \in Controls \ Members(g) : Wired(c) => Group[c] \in Groups \ {g}
    BY GroupOf DEF Members
  <2> HIDE DEF moves
  <2>7. /\ shared' \in [Controls -> Values]
        /\ slider' \in [Controls -> [Directions -> Values]]
        /\ effects' \in [Controls -> [Directions -> Values]]
        /\ ControlsAgree'
    <3>1. \A c \in DOMAIN moves :
            /\ moves[c] \in Values /\ Wired(c) /\ ~ asymmetric'[Group[c]]
            /\ asymmetric[Group[c]] => moves[c] = slider[c]["outbound"]
      BY <2>3, <2>4, <2>5
    <3>2. \A c \in Controls \ DOMAIN moves : Wired(c) => asymmetric'[Group[c]] = asymmetric[Group[c]]
      BY <2>3, <2>4, <2>6
    <3> QED
      BY <2>1, <2>4, <3>1, <3>2, SharedAgrees
  <2> QED
    BY <1>t, <2>1, <2>3, <2>7 DEF ControlsInv, TypeOK
<1>5. CASE ToggleCustomCopies
  <2> DEFINE k == "duplicate_count"
             count == IF custom THEN Lowest
                      ELSE IF asymmetric["duplicate"] THEN slider[k]
                      ELSE Both(shared[k])
  <2>1. /\ k \in Controls /\ custom' = ~ custom /\ effects' = [effects EXCEPT ![k] = count]
        /\ UNCHANGED <<shared, slider, asymmetric, burst>>
    BY <1>5 DEF ToggleCustomCopies
  <2>2. count \in [Directions -> Values]
    BY <1>t, <2>1, MaxValueAssumption DEF TypeOK, Lowest, Both, Values
  <2>3. TypeOK'
    BY <1>t, <2>1, <2>2 DEF TypeOK
  <2>4. ASSUME NEW c \in Controls
        PROVE  IF ~ Wired(c)' THEN effects'[c] = Lowest
               ELSE IF asymmetric[Group[c]] THEN effects'[c] = slider[c]
               ELSE /\ effects'[c]["outbound"] = shared[c]
                    /\ \A d \in Directions : effects'[c][d] \in {slider[c][d], shared[c]}
    <3>1. CASE c = k
      <4>1. effects'[c] = count /\ Wired(c)' = custom' /\ Group[c] = "duplicate"
        BY <1>t, <2>1, <3>1 DEF TypeOK, Wired, Group
      <4>2. CASE custom
        BY <2>1, <4>1, <4>2
      <4>3. CASE ~ custom /\ asymmetric["duplicate"]
        BY <2>1, <3>1, <4>1, <4>3
      <4>4. CASE ~ custom /\ ~ asymmetric["duplicate"]
        <5>1. \A d \in Directions : effects'[c][d] = shared[c]
          BY <3>1, <4>1, <4>4 DEF Both
        <5>2. "outbound" \in Directions
          BY DEF Directions
        <5> QED
          BY <2>1, <4>1, <4>4, <5>1, <5>2
      <4> QED
        BY <4>2, <4>3, <4>4
    <3>2. CASE c # k
      <4>1. effects'[c] = effects[c] /\ Wired(c)' /\ Wired(c)
        BY <1>t, <2>1, <3>2 DEF TypeOK, Wired
      <4> QED
        BY <1>t, <4>1 DEF ControlsAgree
    <3> QED
      BY <3>1, <3>2
  <2>5. ControlsAgree'
    BY <2>1, <2>4 DEF ControlsAgree, Wired
  <2> QED
    BY <2>3, <2>5 DEF ControlsInv
<1>6. CASE ToggleBurst
  <2>1. /\ burst' \in BOOLEAN
        /\ UNCHANGED <<shared, slider, effects, asymmetric, custom>>
    BY <1>6, <1>t DEF ToggleBurst, TypeOK
  <2> QED
    BY <1>t, <2>1 DEF ControlsInv, TypeOK, ControlsAgree, Wired
<1> QED
  BY <1>1, <1>2, <1>3, <1>4, <1>5, <1>6 DEF Moves

\* A step of a slider stays in its range.
LEMMA Clamped == \A v \in Values, step \in Int : Clamp(v + step) \in Values
  BY MaxValueAssumption DEF Clamp, Values

\* So does what a hotkey does, whichever sliders are shown.
LEMMA StepHotkey ==
  ASSUME ControlsInv, NEW c \in Controls, c # "duplicate_count", NEW step \in Int, Hotkey(c, step)
  PROVE  ControlsInv'
<1>t. TypeOK /\ ControlsAgree
  BY DEF ControlsInv
<1>1. Wired(c) /\ UNCHANGED <<asymmetric, custom, burst>>
  BY DEF Hotkey, Wired
<1>2. CASE asymmetric[Group[c]]
  <2> DEFINE moves == [x \in {c} |-> [d \in Directions |-> Clamp(slider[c][d] + step)]]
  <2>1. DirectionsTo(moves)
    BY <1>2 DEF Hotkey
  <2>2. DOMAIN moves = {c} /\ moves[c] \in [Directions -> Values]
    <3>1. \A d \in Directions : slider[c][d] \in Values
      BY <1>t DEF TypeOK
    <3> QED
      BY <3>1, Clamped
  <2> HIDE DEF moves
  <2>3. /\ shared' \in [Controls -> Values]
        /\ slider' \in [Controls -> [Directions -> Values]]
        /\ effects' \in [Controls -> [Directions -> Values]]
        /\ ControlsAgree'
    BY <1>1, <1>2, <2>1, <2>2, DirectionsAgree
  <2> QED
    BY <1>t, <1>1, <2>3 DEF ControlsInv, TypeOK
<1>3. CASE ~ asymmetric[Group[c]]
  <2> DEFINE moves == [x \in {c} |-> Clamp(shared[c] + step)]
  <2>1. SharedTo(moves)
    BY <1>3 DEF Hotkey
  <2>2. DOMAIN moves = {c} /\ moves[c] \in Values
    <3>1. shared[c] \in Values
      BY <1>t DEF TypeOK
    <3> QED
      BY <3>1, Clamped
  <2> HIDE DEF moves
  <2>3. /\ shared' \in [Controls -> Values]
        /\ slider' \in [Controls -> [Directions -> Values]]
        /\ effects' \in [Controls -> [Directions -> Values]]
        /\ ControlsAgree'
    BY <1>1, <1>3, <2>1, <2>2, SharedAgrees
  <2> QED
    BY <1>t, <1>1, <2>3 DEF ControlsInv, TypeOK
<1> QED
  BY <1>2, <1>3

\* Controls that start anew agree.
LEMMA FreshControls == Init => ControlsInv
<1> SUFFICES ASSUME Init PROVE ControlsInv
  OBVIOUS
<1> USE DEF Init
<1>1. 0 \in Values /\ Lowest \in [Directions -> Values] /\ \A d \in Directions : Lowest[d] = 0
  BY MaxValueAssumption DEF Values, Lowest
<1>2. TypeOK
  BY <1>1 DEF TypeOK
<1>3. "outbound" \in Directions
  BY DEF Directions
<1>4. ASSUME NEW c \in Controls
      PROVE  effects[c] = Lowest /\ ~ asymmetric[Group[c]] /\ shared[c] = 0 /\ slider[c] = Lowest
  BY GroupOf
<1> QED
  BY <1>1, <1>2, <1>3, <1>4 DEF ControlsInv, ControlsAgree

-----------------------------------------------------------------------------
(* The hotkeys that are to be emitted *)

\* A press triggers some of the actions.
LEMMA MatchingType ==
  ASSUME NEW vk, NEW modifiers
  PROVE  Matching(vk, modifiers) \in Seq(Actions)
<1> DEFINE Hit(a) == IF a \in Actions /\ bindings[a] = [modifiers |-> modifiers, vk |-> vk]
                     THEN <<a>> ELSE << >>
<1>1. \A a : Hit(a) \in Seq(Actions)
  OBVIOUS
<1>2. Matching(vk, modifiers) =
        Hit("toggle") \o Hit("inc_delay") \o Hit("dec_delay") \o Hit("inc_drop") \o Hit("dec_drop")
  BY DEF Matching, Order
<1> HIDE DEF Hit
<1> QED
  BY <1>1, <1>2

\* What is still to be emitted.
TriggeredOK == triggered \in Seq(Actions) /\ Len(triggered) <= MaxWaiting

\* Only hooks that exist are taken away.
DroppedOK == dropped \subseteq Kinds

LEMMA StepDropped ==
  ASSUME DroppedOK, [HotkeysNext]_<<vars, hotkey_vars>>
  PROVE  DroppedOK'
  BY DEF DroppedOK, HotkeysNext, Edit, SetBinding, InstallHooks, hook_vars, hotkey_vars, Save, Saved,
     Press, Trigger, SystemDropsHook, Restart

\* Every step keeps that and the controls.
LEMMA StepControls ==
  ASSUME ControlsInv, TriggeredOK, [HotkeysNext]_<<vars, hotkey_vars>>
  PROVE  ControlsInv' /\ TriggeredOK'
<1>1. ASSUME UNCHANGED control_vars PROVE ControlsInv'
  BY <1>1 DEF control_vars, ControlsInv, TypeOK, ControlsAgree, Wired
<1>2. ASSUME UNCHANGED triggered PROVE TriggeredOK'
  BY <1>2 DEF TriggeredOK
<1>3. CASE Free /\ Moves /\ UNCHANGED hotkey_vars
  BY <1>2, <1>3, StepMoves DEF hotkey_vars
<1>4. CASE \/ \E a \in Actions, b \in Editable, got \in SUBSET Kinds : Edit(a, b, got)
           \/ \E a \in Actions : Save(a)
           \/ Saved
           \/ \E k \in Kinds : SystemDropsHook(k)
  BY <1>1, <1>2, <1>4 DEF Edit, Save, Saved, SystemDropsHook
<1>5. ASSUME NEW vk \in Keys, NEW modifiers \in Modifiers, Press(vk, modifiers)
      PROVE  ControlsInv' /\ TriggeredOK'
  <2>1. triggered' \in Seq(Actions)
    BY <1>5, MatchingType DEF Press, TriggeredOK
  <2> QED
    BY <1>1, <1>5, <2>1 DEF Press, TriggeredOK
<1>6. CASE Trigger
  <2>1. /\ triggered # << >> /\ Head(triggered) \in Actions
        /\ triggered' = Tail(triggered) /\ Tail(triggered) \in Seq(Actions)
        /\ Len(Tail(triggered)) = Len(triggered) - 1 /\ Len(triggered) \in Nat
    BY <1>6 DEF Trigger, TriggeredOK
  <2>2. TriggeredOK'
    BY <2>1, WaitingAssumption DEF TriggeredOK
  <2>3. CASE Head(triggered) = "toggle"
    BY <1>1, <1>6, <2>2, <2>3 DEF Trigger
  <2>4. CASE Head(triggered) # "toggle"
    <3> DEFINE a == Head(triggered)
    <3>1. a \in {"inc_delay", "dec_delay", "inc_drop", "dec_drop"}
      BY <2>1, <2>4, ActionsAssumption DEF Order
    <3>2. Control[a] \in Controls
      BY <2>1, <2>4, ActionsAssumption
    <3>3. Hotkey(Control[a], Step[a])
      BY <1>6, <2>4 DEF Trigger
    <3> HIDE DEF a
    <3>4. Control[a] # "duplicate_count" /\ Step[a] \in Int
      BY <3>1 DEF Control, Step
    <3> QED
      BY <2>2, <3>2, <3>3, <3>4, StepHotkey
  <2> QED
    BY <2>3, <2>4
<1>7. ASSUME NEW got \in SUBSET Kinds, Restart(got)
      PROVE  ControlsInv' /\ TriggeredOK'
  <2>1. TriggeredOK'
    BY <1>7, WaitingAssumption DEF Restart, TriggeredOK
  <2>2. /\ shared' = [c \in Controls |-> 0] /\ slider' = [c \in Controls |-> Lowest]
        /\ effects' = [c \in Controls |-> Lowest] /\ asymmetric' = [g \in Groups |-> FALSE]
        /\ custom' = FALSE /\ burst' = FALSE
    BY <1>7 DEF Restart
  <2>3. ControlsInv'
    <3>1. Init'
      BY <2>2 DEF Init
    <3> QED
      BY <3>1, FreshControls, PTL
  <2> QED
    BY <2>1, <2>3
<1>8. CASE UNCHANGED <<vars, hotkey_vars>>
  BY <1>1, <1>2, <1>8 DEF vars, control_vars, hotkey_vars
<1> QED
  BY <1>3, <1>4, <1>5, <1>6, <1>7, <1>8 DEF HotkeysNext

\* The whole invariant, for any controls, actions, keys and modifiers.
THEOREM Invariance == HotkeysSpec => []IInv
<1>1. HotkeysInit => HooksInv /\ BindingsInv
  BY HooksInit, BindingsInit
<1>2. HotkeysInit => ControlsInv /\ TriggeredOK
  <2> SUFFICES ASSUME HotkeysInit PROVE ControlsInv /\ TriggeredOK
    OBVIOUS
  <2>1. ControlsInv
    BY FreshControls DEF HotkeysInit
  <2>2. TriggeredOK
    BY WaitingAssumption DEF HotkeysInit, TriggeredOK
  <2> QED
    BY <2>1, <2>2
<1>3. HotkeysInit => DroppedOK
  BY DEF HotkeysInit, DroppedOK
<1>4. HooksInv /\ BindingsInv /\ ControlsInv /\ TriggeredOK /\ DroppedOK => IInv
  <2> SUFFICES ASSUME HooksInv, BindingsInv, ControlsInv, TriggeredOK, DroppedOK
               PROVE  HotkeysTypeOK
    BY DEF IInv
  <2>1. handles \subseteq Kinds
    BY DEF HooksInv, HooksAreOwned
  <2>2. edits \in [Actions -> Binding]
    BY DEF BindingsInv, EditsAreKept
  <2> QED
    BY <2>1, <2>2 DEF HotkeysTypeOK, HooksInv, BindingsInv, ControlsInv, TriggeredOK, DroppedOK
<1> QED
  BY <1>1, <1>2, <1>3, <1>4, StepHooks, StepBindings, StepControls, StepDropped, PTL
     DEF HotkeysSpec

\* Whatever was checked, unchecked, moved by hand or by hotkey, the outbound
\* direction has the effects that the controls show, and the inbound one has
\* them in asymmetric mode.
THEOREM ControlsTellTheTruth == HotkeysSpec => []EffectsAreShown
<1>1. IInv => EffectsAreShown
  <2> SUFFICES ASSUME IInv, NEW c \in Controls
               PROVE  /\ effects[c]["outbound"] = Shown(c, "outbound")
                      /\ asymmetric[Group[c]] => effects[c]["inbound"] = Shown(c, "inbound")
    BY DEF EffectsAreShown
  <2>1. IF ~ Wired(c) THEN effects[c] = Lowest
        ELSE IF asymmetric[Group[c]] THEN effects[c] = slider[c]
        ELSE effects[c]["outbound"] = shared[c]
    BY DEF IInv, ControlsInv, ControlsAgree
  <2>2. Lowest["outbound"] = 0 /\ Lowest["inbound"] = 0
    BY DEF Lowest, Directions
  <2> QED
    BY <2>1, <2>2 DEF Shown
<1> QED
  BY <1>1, Invariance, PTL

=============================================================================
