----------------------------- MODULE KeyReport -----------------------------
(***************************************************************************)
(* The report the desktop window makes of the keys held down               *)
(* (internal/app/keyboard_windows.go, raw_keyboard_windows.go).  A report  *)
(* is the set of modifiers and keys it holds; which usage code a key       *)
(* becomes is not told apart, so a key stands for its own usage.  Reports  *)
(* of more than six keys, which are cut short, are left out.               *)
(***************************************************************************)
LOCAL INSTANCE FiniteSets
LOCAL INSTANCE Naturals

CONSTANTS
    Plain,       \* keys that are no modifiers
    AltGrKeys,   \* those the keyboard map has under AltGr
    Suppressed,  \* those it has no stroke for: dead keys
    Typable      \* those whose character the remote layout can type

Controls == {"lctrl", "rctrl"}
Shifts == {"lshift", "rshift"}
Alts == {"lalt", "ralt"}
Modifiers == Controls \cup Shifts \cup Alts \cup {"lwin", "rwin"}

\* KeyControl, KeyShift and KeyAlt, which only syncPressedModifiersLocked sets.
Generic == {"ctrl", "shift", "alt"}

ASSUME KeyReportAssumption ==
    /\ Cardinality(Plain) <= 6
    /\ Plain \cap (Modifiers \cup Generic) = {}
    /\ AltGrKeys \subseteq Plain /\ Suppressed \subseteq Plain /\ Typable \subseteq Plain

Reports == SUBSET (Plain \cup Modifiers)
NoKeys == {}

\* "default" keeps the positions of the keys; "mapped" is a selected keyboard
\* map, "foreign" a remote layout other than US.
Layouts == {"default", "mapped", "foreign"}

\* syncPressedModifiersLocked: the modifiers are what Windows says they are.
SyncPressedModifiers(pressed, modifiers) ==
    (pressed \cap Plain) \cup modifiers
        \cup {g \in Generic : \/ g = "ctrl" /\ modifiers \cap Controls # {}
                              \/ g = "shift" /\ modifiers \cap Shifts # {}
                              \/ g = "alt" /\ "lalt" \in modifiers}

IsAltGrCombo(pressed) ==
    /\ pressed \cap AltGrKeys # {}
    /\ \/ "ralt" \in pressed
       \/ /\ pressed \cap (Controls \cup {"ctrl"}) # {}
          /\ pressed \cap {"alt", "lalt"} # {}

HasShift(pressed) == pressed \cap (Shifts \cup {"shift"}) # {}

HasSemanticModifier(pressed) ==
    pressed \cap (Controls \cup {"lalt", "lwin", "rwin", "ctrl", "alt"}) # {}

State(pressed) ==
    CASE IsAltGrCombo(pressed) -> "altgr"
      [] HasShift(pressed) /\ ~ IsAltGrCombo(pressed) -> "shift"
      [] OTHER -> "plain"

\* The modifiers a stroke needs, where neither map names others.
StrokeModifiers(state) ==
    [plain |-> {}, shift |-> {"lshift"}, altgr |-> {"rctrl", "ralt"}][state]

\* The modifiers of the user; KeyControl counts as the left key.
CarriedModifiers(pressed) ==
    (pressed \cap (Controls \cup {"lalt", "lwin", "rwin"}))
        \cup {m \in {"lctrl", "lalt"} : \/ m = "lctrl" /\ "ctrl" \in pressed
                                        \/ m = "lalt" /\ "alt" \in pressed}

DefaultKeyboardReport(pressed) ==
    (pressed \cap (Plain \cup {"rshift", "ralt"})) \cup CarriedModifiers(pressed)
        \cup IF HasShift(pressed) THEN {"lshift"} ELSE {}

MappedKeyboardReport(state, pressed) ==
    LET keys == (pressed \cap Plain) \ Suppressed
    IN  IF keys = {} THEN NoKeys ELSE keys \cup StrokeModifiers(state)

RetargetedReport(pressed) ==
    (pressed \cap Plain) \cup StrokeModifiers(State(pressed))
        \cup IF IsAltGrCombo(pressed) THEN {} ELSE CarriedModifiers(pressed)

KeyboardReportForRegistry(layout, pressed) ==
    IF pressed \cap Plain = {} THEN NoKeys
    ELSE    IF layout = "foreign" /\ pressed \cap Plain \subseteq Typable
            THEN RetargetedReport(pressed)
            ELSE IF IsAltGrCombo(pressed)
            THEN MappedKeyboardReport("altgr", pressed)
            ELSE IF layout = "mapped" /\ ~ HasSemanticModifier(pressed)
            THEN MappedKeyboardReport(State(pressed), pressed)
            ELSE DefaultKeyboardReport(pressed)

\* The condition under which keyboardReportLocked reports positions as they are.
ByPosition(layout, rawInput) == layout = "default" /\ rawInput

\* hpKeyboardReport: the modifiers and keys by position.
HpKeyboardReport(rawPressed) == rawPressed \cap (Plain \cup Modifiers)

\* The chord that sendKeyboard hands to SendCtrlAltDel.
IsCtrlAltDel(pressed) == {"ctrl", "alt", "delete"} \subseteq pressed

\* SendCtrlAltDel writes the chord, and to an iLO its modifiers alone, before it
\* releases everything.
SendCtrlAltDel(vendor) ==
    IF vendor = "ilo" THEN << {"lctrl", "lalt", "delete"}, {"lctrl", "lalt"}, NoKeys >>
                      ELSE << {"lctrl", "lalt", "delete"}, NoKeys >>
============================================================================
