------------------------------- MODULE Joypad -------------------------------
(***************************************************************************)
(* The buttons (core/joypad.cpp): two rows of four share four lines, and a *)
(* pressed button pulls its line low while its row is selected.            *)
(***************************************************************************)

CONSTANTS
    Rows,           \* the directions and the rest
    Lines           \* four

Buttons == Rows \X Lines

VARIABLES
    pressed,        \* the buttons that are down
    selected        \* the rows that are selected: the low bits of select_

joypadVars == <<pressed, selected>>

JoypadTypeOK == pressed \subseteq Buttons /\ selected \subseteq Rows

JoypadInit == pressed = {} /\ selected = {}

JoypadReset == pressed' = {} /\ selected' = {}

\* Joypad::read: the lines that are low while the buttons b are down.
Low(b) == {button[2] : button \in {c \in b : c[1] \in selected}}

\* set_buttons(b), and whether it asks for the interrupt: "it only fires for a
\* press on a currently selected row".
SetButtons(b) == pressed' = b /\ UNCHANGED selected

\* A bug the checks must notice: any press that changes what is read asks.
AsksAny(b) == Low(b) # Low(pressed)

Asks(b) == Low(b) \ Low(pressed) # {}

SelectRows(s) == selected' = s /\ UNCHANGED pressed
=============================================================================
