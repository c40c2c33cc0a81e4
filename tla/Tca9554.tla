------------------------------ MODULE Tca9554 ------------------------------
(***************************************************************************)
(* The IO expander's driver and its chip.  The driver keeps shadows of two *)
(* registers and writes a whole register at a time; the chip keeps its     *)
(* registers through a reset of the processor, the shadows start over.     *)
(***************************************************************************)
EXTENDS Naturals

CONSTANTS Pins,           \* the eight pins
          EXIO_LCD_RST    \* the one wired to the panel's reset

ASSUME PinsAssumption == EXIO_LCD_RST \in Pins

(* Each register as the set of its one bits. *)
VARIABLES output, config,    \* the driver's shadows
          OUTPUT, CONFIG     \* the chip's registers (external)

shadows == <<output, config>>
registers == <<OUTPUT, CONFIG>>
expanderVars == <<shadows, registers>>

ExpanderTypeOK ==
  /\ output \subseteq Pins /\ config \subseteq Pins
  /\ OUTPUT \subseteq Pins /\ CONFIG \subseteq Pins

(* Mutant of new: every bit clear.                                         *)
newCleared == {}

(* Both shadows start with every bit set: all inputs, latch all-high. *)
new == Pins

(* A write that reports an error may still have been taken. *)
set_direction_output(pin, ok) ==
  /\ config' = config \ {pin}
  /\ \/ CONFIG' = config'
     \/ ~ok /\ UNCHANGED CONFIG
  /\ UNCHANGED <<output, OUTPUT>>

set_output(pin, level, ok) ==
  /\ output' = IF level THEN output \cup {pin} ELSE output \ {pin}
  /\ \/ OUTPUT' = output'
     \/ ~ok /\ UNCHANGED OUTPUT
  /\ UNCHANGED <<config, CONFIG>>

(* Only an output is driven low; the board pulls an input up. *)
High(pin) == pin \in CONFIG \cup OUTPUT
===========================================================================
