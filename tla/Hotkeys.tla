------------------------------ MODULE Hotkeys ------------------------------
(***************************************************************************)
(* ui/HotkeyManager and ui/HotkeyEdit, together with the effect controls   *)
(* that hotkeys move.  Two low-level hooks, for keys and for mouse         *)
(* buttons, call CheckAndTrigger on the UI thread, which emits             *)
(* HotkeyTriggered for each binding that matches; MainWindow's slot runs   *)
(* within the callback.  Changing a binding removes the hooks, installs    *)
(* them again and saves all bindings.                                      *)
(*                                                                         *)
(* The UI thread does one thing at a time: a callback or the writing of    *)
(* the settings is finished before the user is served.  But the toggle may *)
(* find that it cannot start, and the message box that says so serves      *)
(* other callbacks before it returns.  The program may be ended between    *)
(* any two steps.  While its own window is in front the hooks do nothing.  *)
(***************************************************************************)
EXTENDS EffectControls, Sequences

CONSTANTS
  Actions,    \* the HotkeyActions that are modelled
  Keys,       \* virtual keys other than modifiers; 0 is none
  Buttons,    \* those of them that are mouse buttons
  Modifiers,  \* sets of modifiers, as numbers; 0 is none
  MaxWaiting  \* bound: actions that callbacks still have to emit

\* enum HotkeyAction, in its order.
Order == <<"toggle", "inc_delay", "dec_delay", "inc_drop", "dec_drop">>
\* The control an action moves, and by which step.  The toggle moves none.
Control == [inc_delay |-> "delay", dec_delay |-> "delay", inc_drop |-> "drop", dec_drop |-> "drop"]
Step == [inc_delay |-> 1, dec_delay |-> -1, inc_drop |-> 1, dec_drop |-> -1]

ASSUME ActionsAssumption ==
  /\ Actions \subseteq {Order[i] : i \in 1 .. Len(Order)}
  /\ \A a \in Actions \ {"toggle"} : Control[a] \in Controls
ASSUME KeysAssumption ==
  /\ Keys \subseteq Nat \ {0} /\ Buttons \subseteq Keys
  /\ Modifiers \subseteq Nat /\ 0 \in Modifiers
ASSUME WaitingAssumption == MaxWaiting \in Nat

Binding == [modifiers : Modifiers, vk : Keys \cup {0}]
Unbound == [modifiers |-> 0, vk |-> 0]
Kinds == {"keyboard", "mouse"}
Kind(vk) == IF vk \in Buttons THEN "mouse" ELSE "keyboard"

VARIABLES
  bindings,    \* bindings_
  edits,       \* binding_ of each HotkeyEdit
  settings,    \* QSettings: what is stored
  saving,      \* the UI thread is in SaveSettings
  installed,   \* the hooks that the system calls, by kind
  handles,     \* keyboard_hook and mouse_hook: those that are not null
  registered,  \* registered_
  triggered,   \* the actions the callbacks still have to emit, the innermost one's first
  failed,      \* history: an installation failed since the program was started
  dropped      \* history: hooks the system took away since they were installed

control_vars == <<shared, slider, effects, asymmetric, custom, burst>>
binding_vars == <<bindings, edits, settings, saving>>
hook_vars == <<installed, handles, registered, failed, dropped>>
hotkey_vars == <<binding_vars, hook_vars, triggered>>

Free == triggered = << >> /\ ~ saving

-----------------------------------------------------------------------------
(* The hooks *)

\* RemoveHooks
Left == [k \in Kinds |-> IF k \in handles /\ installed[k] > 0 THEN installed[k] - 1 ELSE installed[k]]

\* Seeded fault: if one hook cannot be installed the other one is not removed.
InstallHooksLeaks(left, got) ==
  /\ registered' = (got = Kinds)
  /\ handles' = IF got = Kinds THEN Kinds ELSE {}
  /\ installed' = [k \in Kinds |-> left[k] + (IF k \in got THEN 1 ELSE 0)]
  /\ failed' = (got # Kinds)
  /\ dropped' = {}

\* InstallHooks, when the system grants the hooks got and left are there: both
\* are kept or none.
InstallHooks(left, got) ==
  /\ registered' = (got = Kinds)
  /\ handles' = IF got = Kinds THEN Kinds ELSE {}
  /\ installed' = [k \in Kinds |-> left[k] + (IF got = Kinds THEN 1 ELSE 0)]
  /\ failed' = (got # Kinds)
  /\ dropped' = {}

\* A callback that takes too long loses its hook, and nobody is told.  It may be
\* busy itself, for the toggle opens drivers and joins threads, or wait for any
\* other handler of the UI thread.  (A hook lost in SaveSettings is lost right after
\* it here: nothing looks at the hooks in between, not even the next start.)
SystemDropsHook(k) ==
  /\ ~ saving
  /\ installed[k] > 0
  /\ installed' = [installed EXCEPT ![k] = @ - 1]
  /\ dropped' = dropped \cup {k}
  /\ UNCHANGED <<control_vars, binding_vars, handles, registered, failed, triggered>>

-----------------------------------------------------------------------------
(* Bindings *)

\* Seeded fault: whether to install again is asked after the hooks are removed.
SetBindingStaysOff(a, b, got) ==
  /\ bindings' = [bindings EXCEPT ![a] = b]
  /\ installed' = Left /\ handles' = {} /\ registered' = FALSE
  /\ UNCHANGED <<failed, dropped>>
  /\ saving' = TRUE

\* Seeded fault: without hooks a binding is not worth saving.
SetBindingUnsaved(a, b, got) ==
  /\ bindings' = [bindings EXCEPT ![a] = b]
  /\ IF registered THEN InstallHooks(Left, got) ELSE UNCHANGED hook_vars
  /\ saving' = registered

\* SetBinding.  After a failed installation the hooks are not tried again.
SetBinding(a, b, got) ==
  /\ bindings' = [bindings EXCEPT ![a] = b]
  /\ IF registered THEN InstallHooks(Left, got) ELSE UNCHANGED hook_vars
  /\ saving' = TRUE

\* A HotkeyEdit takes a key or a mouse button, or is cleared by Escape or its
\* button, and emits BindingChanged.  "Clear All" clears one after the other.
Edit(a, b, got) ==
  /\ Free
  /\ edits' = [edits EXCEPT ![a] = b]
  /\ SetBinding(a, b, got)
  /\ UNCHANGED <<control_vars, settings, triggered>>

\* SaveSettings stores modifiers and key of each action, one value at a time.
\* Values that are stored already make no step.
Save(a) ==
  /\ saving
  /\ settings[a] # bindings[a]
  /\ settings' = [settings EXCEPT ![a] =
       IF @.modifiers # bindings[a].modifiers THEN [@ EXCEPT !.modifiers = bindings[a].modifiers]
       ELSE bindings[a]]
  /\ UNCHANGED <<control_vars, bindings, edits, saving, hook_vars, triggered>>

Saved ==
  /\ saving
  /\ settings = bindings
  /\ saving' = FALSE
  /\ UNCHANGED <<control_vars, bindings, edits, settings, hook_vars, triggered>>

-----------------------------------------------------------------------------
(* Presses *)

\* CheckAndTrigger: each binding that is valid and matches, in order.
Matching(vk, modifiers) ==
  LET Hit(a) == IF a \in Actions /\ bindings[a] = [modifiers |-> modifiers, vk |-> vk]
                THEN <<a>> ELSE << >>
  IN  Hit(Order[1]) \o Hit(Order[2]) \o Hit(Order[3]) \o Hit(Order[4]) \o Hit(Order[5])

\* A key goes down, for the first time or by auto-repeat, while another window
\* is in front.  The UI thread is free, or in the message box of a toggle: then
\* the new callback is nested in the toggle's.
Press(vk, modifiers) ==
  /\ \/ Free
     \/ triggered # << >> /\ Head(triggered) = "toggle"
  /\ installed[Kind(vk)] > 0
  /\ triggered' = Matching(vk, modifiers) \o triggered
  /\ Len(triggered') <= MaxWaiting
  /\ UNCHANGED <<control_vars, binding_vars, hook_vars>>

\* OnHotkeyTriggered for the next one.
Trigger ==
  /\ triggered # << >>
  /\ LET a == Head(triggered)
     IN  IF a = "toggle" THEN UNCHANGED control_vars ELSE Hotkey(Control[a], Step[a])
  /\ triggered' = Tail(triggered)
  /\ UNCHANGED <<binding_vars, hook_vars>>

-----------------------------------------------------------------------------
(* The program *)

NoHooks == [k \in Kinds |-> 0]

LoadSettings == bindings' = settings
LoadEdits == edits' = bindings'

\* A program is started that was ended at any point before.  The constructors
\* load the bindings, install the hooks and fill the edits; the controls start
\* anew.
Restart(got) ==
  /\ LoadSettings /\ LoadEdits /\ saving' = FALSE
  /\ InstallHooks(NoHooks, got)
  /\ triggered' = << >>
  /\ shared' = [c \in Controls |-> 0]
  /\ slider' = [c \in Controls |-> Lowest]
  /\ effects' = [c \in Controls |-> Lowest]
  /\ asymmetric' = [g \in Groups |-> FALSE]
  /\ custom' = FALSE /\ burst' = FALSE
  /\ UNCHANGED settings

HotkeysInit ==
  /\ Init
  /\ bindings = [a \in Actions |-> Unbound]
  /\ edits = bindings /\ settings = bindings /\ saving = FALSE
  /\ registered \in BOOLEAN
  /\ handles = IF registered THEN Kinds ELSE {}
  /\ installed = [k \in Kinds |-> IF registered THEN 1 ELSE 0]
  /\ failed = ~ registered /\ dropped = {}
  /\ triggered = << >>

\* What is pressed in a HotkeyEdit: a key with modifiers, or Escape.
Editable == {Unbound} \cup [modifiers : Modifiers, vk : Keys]

HotkeysNext ==
  \/ Free /\ Moves /\ UNCHANGED hotkey_vars
  \/ \E a \in Actions, b \in Editable, got \in SUBSET Kinds : Edit(a, b, got)
  \/ \E a \in Actions : Save(a)
  \/ Saved
  \/ \E vk \in Keys, modifiers \in Modifiers : Press(vk, modifiers)
  \/ Trigger
  \/ \E k \in Kinds : SystemDropsHook(k)
  \/ \E got \in SUBSET Kinds : Restart(got)

HotkeysSpec == HotkeysInit /\ [][HotkeysNext]_<<vars, hotkey_vars>>

-----------------------------------------------------------------------------
(* Properties *)

\* Every variable stays in its range, the controls' included.
HotkeysTypeOK ==
  /\ TypeOK
  /\ bindings \in [Actions -> Binding]
  /\ edits \in [Actions -> Binding]
  /\ settings \in [Actions -> Binding]
  /\ installed \in [Kinds -> 0 .. 1]
  /\ handles \subseteq Kinds /\ dropped \subseteq Kinds
  /\ saving \in BOOLEAN /\ registered \in BOOLEAN /\ failed \in BOOLEAN
  /\ triggered \in Seq(Actions) /\ Len(triggered) <= MaxWaiting

\* Through all changes of bindings, failures to install and hooks lost, the
\* program has both handles or none, and the system calls no hook without a
\* handle: one that leaked would fire each hotkey twice.
HooksAreOwned ==
  /\ handles = IF registered THEN Kinds ELSE {}
  /\ \A k \in Kinds : installed[k] = IF k \in handles \ dropped THEN 1 ELSE 0

\* Hotkeys work from the start on unless an installation failed, then they are
\* off until the program is started again, or the system dropped a hook, then
\* they work again after the next change of a binding.
OffOnlyAfterFailure ==
  /\ \A k \in Kinds : installed[k] = 0 => failed \/ k \in dropped
  /\ failed => \A k \in Kinds : installed[k] = 0

\* What the edits show is what is bound and what the next start will load; only
\* while it is being saved may the binding that was changed last differ, which
\* is all that a crash can spoil.
EditsAreKept ==
  /\ bindings = edits
  /\ ~ saving => settings = edits
  /\ \A a, b \in Actions : settings[a] # edits[a] /\ settings[b] # edits[b] => a = b

\* The inductive invariant: the hooks, of which an installation that failed left
\* none, the bindings, and the controls that the hotkeys move.
HooksInv ==
  /\ installed \in [Kinds -> 0 .. 1]
  /\ registered \in BOOLEAN /\ failed \in BOOLEAN
  /\ HooksAreOwned
  /\ failed <=> ~ registered
BindingsInv ==
  /\ bindings \in [Actions -> Binding]
  /\ settings \in [Actions -> Binding]
  /\ saving \in BOOLEAN
  /\ EditsAreKept
IInv == HotkeysTypeOK /\ HooksInv /\ BindingsInv /\ ControlsInv
=============================================================================
