------------------------------- MODULE Panel -------------------------------
(***************************************************************************)
(* From reset to pixels: the boot sequence that pulses the panel's reset   *)
(* through the expander and initialises the controller, then either the    *)
(* render loop and flush_task of the firmware or the colour bars of        *)
(* lcd-test.  An unwrap or expect on a refused operation ends in a panic.  *)
(* The processor may be reset at any time, with the board's power or       *)
(* without.  LVGL renders on the thread executor and, before it hands over *)
(* a stripe, spins until flush_task has acknowledged the one before;       *)
(* flush_task runs on the interrupt executor.                              *)
(***************************************************************************)
EXTENDS Tca9554, St7796

CONSTANTS MaxStripes,   \* stripes of one pass of the render loop
          Bars          \* number of colour bars, 8 in lcd-test

ASSUME BarsAssumption == MaxStripes \in Nat /\ Bars \in 1 .. HEIGHT

VARIABLES app,        \* the program flashed: "firmware" or "lcd-test"
          at,         \* where the program is
          thread,     \* the thread executor is "free", or held by "lvgl"
          stripes,    \* stripes the pass has still to hand over
          flushing,   \* the stripe handed over and not acknowledged, or None
          frame,      \* ghost: what was drawn last at each place
          lost,       \* ghost: places whose last drawing failed, or none yet
          rows        \* rows lcd-test has pushed, -1 before its window is open

pass == <<thread, stripes, flushing>>
drawing == <<frame, lost>>
panelVars == <<expanderVars, controller, app, at, pass, drawing, rows>>

None == [area |-> WholePanel, colour |-> -1]
Stripes == [area : Dirty, colour : Colours]

PanelTypeOK ==
  /\ ExpanderTypeOK /\ ControllerTypeOK
  /\ app \in {"firmware", "lcd-test"}
  /\ at \in {"start", "directed", "low", "high", "running", "panicked"}
  /\ thread \in {"free", "lvgl"} /\ stripes \in 0 .. MaxStripes
  /\ flushing \in Stripes \cup {None}
  /\ frame \in [Places -> Colours] /\ lost \subseteq Places
  /\ rows \in -1 .. HEIGHT

PanelInit ==
  /\ app \in {"firmware", "lcd-test"} /\ at = "start"
  /\ output = new /\ config = new
  /\ OUTPUT = Pins /\ CONFIG = Pins
  /\ display = "unknown" /\ gram = [p \in Places |-> Undefined]
  /\ window = WindowOf(WholePanel)
  /\ thread = "free" /\ stripes = 0 /\ flushing = None
  /\ frame = [p \in Places |-> 0] /\ lost = Places
  /\ rows = -1

(* A reset: of the whole board, or of the processor alone, which leaves    *)
(* the expander and the panel as they are.  What the panel shows from then *)
(* on is nobody's drawing.                                                 *)
Reset(power) ==
  /\ at' = "start"
  /\ output' = new /\ config' = new
  /\ IF power THEN OUTPUT' = Pins /\ CONFIG' = Pins /\ display' = "unknown"
     ELSE UNCHANGED <<registers, display>>
  /\ gram' = [p \in Places |-> Undefined]
  /\ window' = WindowOf(WholePanel)
  /\ thread' = "free" /\ stripes' = 0 /\ flushing' = None
  /\ frame' = [p \in Places |-> 0] /\ lost' = Places
  /\ rows' = -1
  /\ UNCHANGED app

Continue(next, ok) == at' = IF ok THEN next ELSE "panicked"

(* A low level at its pin resets the panel. *)
PinActs == display' = IF High(EXIO_LCD_RST)' THEN display ELSE "reset"

Booting(step) ==
  /\ step /\ PinActs
  /\ UNCHANGED <<window, gram, app, pass, drawing, rows>>

(* Mutant of SetDirection: the latch is set, the direction is not.         *)
SetDirectionLater(ok) ==
  /\ at = "start" /\ Continue("directed", ok)
  /\ Booting(set_output(EXIO_LCD_RST, TRUE, ok))

SetDirection(ok) ==
  /\ at = "start" /\ Continue("directed", ok)
  /\ Booting(set_direction_output(EXIO_LCD_RST, ok))

(* Each is followed by 100 ms in which other tasks run. *)
PullLow(ok) ==
  /\ at = "directed" /\ Continue("low", ok)
  /\ Booting(set_output(EXIO_LCD_RST, FALSE, ok))

PullHigh(ok) ==
  /\ at = "low" /\ Continue("high", ok)
  /\ Booting(set_output(EXIO_LCD_RST, TRUE, ok))

InitPanel(ok) ==
  /\ at = "high" /\ Continue("running", ok)
  /\ init(ok)
  /\ UNCHANGED <<expanderVars, app, pass, drawing, rows>>

Boot == \E ok \in BOOLEAN : SetDirection(ok) \/ PullLow(ok) \/ PullHigh(ok) \/ InitPanel(ok)

---------------------------------------------------------------------------
(* The firmware: LVGL (external) and flush_task. *)

Firmware == app = "firmware" /\ at = "running"

PassBegins ==
  /\ Firmware /\ thread = "free"
  /\ thread' = "lvgl" /\ stripes' \in 0 .. MaxStripes
  /\ UNCHANGED <<expanderVars, controller, app, at, flushing, drawing, rows>>

(* The wait callback has seen the acknowledgement. *)
HandOver(a, colour) ==
  /\ Firmware /\ thread = "lvgl" /\ stripes > 0 /\ flushing = None
  /\ stripes' = stripes - 1
  /\ flushing' = [area |-> a, colour |-> colour]
  /\ frame' = [p \in Places |-> IF p \in InArea(a) THEN colour ELSE frame[p]]
  /\ UNCHANGED <<expanderVars, controller, app, at, thread, lost, rows>>

PassEnds ==
  /\ Firmware /\ thread = "lvgl" /\ stripes = 0
  /\ thread' = "free"
  /\ UNCHANGED <<expanderVars, controller, app, at, stripes, flushing, drawing, rows>>

Render == PassBegins \/ (\E a \in Dirty, colour \in Colours : HandOver(a, colour)) \/ PassEnds

(* Mutant of FlushMayRun: flush_task is spawned on the thread executor.    *)
FlushMayRunOnThread == thread = "free"

(* An interrupt executor preempts whatever the thread executor does. *)
FlushMayRun == thread \in {"free", "lvgl"}

(* One stripe, without an await; oxivgl acknowledges it either way. *)
Flush(ok) ==
  /\ Firmware /\ flushing # None /\ FlushMayRun
  /\ show_raw_data(flushing.area, Rendered(flushing.area, flushing.colour), ok)
  /\ lost' = IF ok THEN lost \ InArea(flushing.area) ELSE lost \cup InArea(flushing.area)
  /\ flushing' = None
  /\ UNCHANGED <<expanderVars, display, app, at, thread, stripes, frame, rows>>

flush_task == \E ok \in BOOLEAN : Flush(ok)

---------------------------------------------------------------------------
(* lcd-test: one window, then the bars row by row. *)

Row(r) == [x |-> 0, y |-> r, w |-> WIDTH, h |-> 1]
rows_per_bar == HEIGHT \div Bars
BarColour(r) == (r \div rows_per_bar) % 2

LcdTest == app = "lcd-test" /\ at = "running"

(* Every write must succeed; after the last row the program idles. *)
OpenWindow(ok) ==
  /\ LcdTest /\ rows = -1
  /\ Continue("running", ok)
  /\ SetWindow(WindowOf(WholePanel), 5)
  /\ rows' = 0
  /\ UNCHANGED <<expanderVars, display, gram, app, pass, drawing>>

PushRow(ok) ==
  LET bar == Rendered(Row(rows), BarColour(rows))
  IN /\ LcdTest /\ rows \in 0 .. rows_per_bar * Bars - 1
     /\ Continue("running", ok)
     /\ UNCHANGED window
     /\ \E n \in 0 .. WIDTH : (ok => n = WIDTH) /\ PushPixels(rows * WIDTH, bar, n)
     /\ rows' = rows + 1
     /\ frame' = [p \in Places |-> IF p \in InArea(Row(rows)) THEN BarColour(rows) ELSE frame[p]]
     /\ lost' = lost \ InArea(Row(rows))
     /\ UNCHANGED <<expanderVars, display, app, pass>>

lcd_test == \E ok \in BOOLEAN : OpenWindow(ok) \/ PushRow(ok)

PanelNext ==
  \/ (\E power \in BOOLEAN : Reset(power))
  \/ Boot
  \/ Render \/ flush_task
  \/ lcd_test

(* The render loop runs; a stripe handed over wakes flush_task. *)
PanelSpec ==
  /\ PanelInit /\ [][PanelNext]_panelVars
  /\ WF_panelVars(Render) /\ WF_panelVars(flush_task)

---------------------------------------------------------------------------

(* Writing whole registers from the shadows never disturbs the other pins, *)
(* and once the sequence is through the chip holds what the shadows say,   *)
(* refused writes and resets at any point of earlier boots included.       *)
ExpanderUndisturbed ==
  /\ Pins \ {EXIO_LCD_RST} \subseteq CONFIG \cap OUTPUT
  /\ at \in {"high", "running"} => registers = shadows

(* display.rs:53, "The hardware reset (TCA9554 EXIO1 pulse) must have      *)
(* happened already": whatever state the expander was left in, the panel   *)
(* gets its first command of a boot in reset and with its reset released.  *)
InitAfterReset ==
  [][(\E ok \in BOOLEAN : InitPanel(ok)) => display = "reset" /\ High(EXIO_LCD_RST)]_panelVars

(* What is on the panel is what was drawn last, each pixel at the place it *)
(* was rendered for: a refused write costs its own stripe until that is    *)
(* drawn again, and leaves the stripes before and after it alone.          *)
StripesLand ==
  at = "running" =>
    \A p \in Places \ lost :
      flushing = None \/ p \notin InArea(flushing.area)
        => gram[p] = [at |-> p, colour |-> frame[p]]

(* main.rs:137, "they can never share an executor": as it is, the wait for *)
(* a flush always ends, and the other tasks of the thread executor, the    *)
(* sensor hub among them, get their turn after every pass.                 *)
UiPassEnds == <>[]Firmware => []<>(thread = "free")
===========================================================================
