--------------------------- MODULE KeyboardState ---------------------------
(***************************************************************************)
(* rfb.KeyboardState (internal/rfb/keysym.go): the diff that turns whole   *)
(* HID keyboard reports into the key events RFB carries.                   *)
(*                                                                         *)
(* A report is the set of modifiers and of usage codes it holds down.  The *)
(* order of the events inside one of the four loops of Apply does not      *)
(* matter to anything said here, so each loop yields one set of keysyms.   *)
(***************************************************************************)
LOCAL INSTANCE Naturals
LOCAL INSTANCE Sequences

CONSTANTS
    Usages,     \* HID usage codes with a keysym
    Shiftable,  \* those whose keysym depends on shift (the table hidShifted)
    Modifiers,  \* the modifier keys of byte 2
    Shifts      \* the two of them that are shift keys

ASSUME KeyboardAssumption ==
    /\ Shiftable \subseteq Usages
    /\ Shifts \subseteq Modifiers
    /\ Modifiers \cap Usages = {}

Reports == [modifiers : SUBSET Modifiers, keys : SUBSET Usages]

\* The report {1}: nothing held.  Also the zero KeyboardState.
NoKeys == [modifiers |-> {}, keys |-> {}]

\* KeysymForHID, and the keysym of a modifier.
KeysymForHID(usage, shift) == <<usage, shift /\ usage \in Shiftable>>
ModifierKeysym(m) == <<m, FALSE>>

Keysyms == (Usages \cup Modifiers) \X BOOLEAN

Shifted(report) == report.modifiers \cap Shifts # {}

\* Held
Held(state) == state.modifiers # {} \/ state.keys # {}

Up(keysyms) == [down |-> FALSE, keysyms |-> keysyms]
Down(keysyms) == [down |-> TRUE, keysyms |-> keysyms]

\* Apply: the events that lead from the remembered report to the next one.
\* Releases come first, and modifiers go down before the keys they alter.  A
\* release names the keysym by the shift state of the remembered report.
Apply(state, report) ==
    << Up({KeysymForHID(u, Shifted(state)) : u \in state.keys \ report.keys}),
       Up({ModifierKeysym(m) : m \in state.modifiers \ report.modifiers}),
       Down({ModifierKeysym(m) : m \in report.modifiers \ state.modifiers}),
       Down({KeysymForHID(u, Shifted(report)) : u \in report.keys \ state.keys}) >>

\* What a key event does to the set of keysyms the firmware sees held.
Press(wire, event) ==
    IF event.down THEN wire \cup event.keysyms ELSE wire \ event.keysyms

\* The same for all the events of one Apply.
PressAll(wire, events) ==
    Press(Press(Press(Press(wire, events[1]), events[2]), events[3]), events[4])
============================================================================
