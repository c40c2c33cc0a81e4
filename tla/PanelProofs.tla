--------------------------- MODULE PanelProofs -----------------------------
(***************************************************************************)
(* Theorems about the path from reset to pixels, for every panel size,     *)
(* every set of areas and of colours, and wherever a write is refused or   *)
(* the processor reset.                                                    *)
(***************************************************************************)
EXTENDS Panel, TLAPS

---------------------------------------------------------------------------
(* Rows and columns of a pixel counted row by row. *)

LEMMA ProductIsNat == \A m, n \in Nat : m * n \in Nat
OBVIOUS

LEMMA ProductGrows ==
  ASSUME NEW w \in Nat, NEW m \in Nat, NEW n \in Nat, m <= n
  PROVE  m * w <= n * w
OBVIOUS

LEMMA DivMod ==
  ASSUME NEW k \in Nat, NEW w \in Nat \ {0}
  PROVE  /\ k % w \in 0 .. w - 1
         /\ k \div w \in Nat
         /\ k = (k \div w) * w + (k % w)
OBVIOUS

(* Division with remainder is unique. *)
LEMMA DivModOf ==
  ASSUME NEW w \in Nat \ {0}, NEW q \in Nat, NEW r \in 0 .. w - 1
  PROVE  (q * w + r) \div w = q /\ (q * w + r) % w = r
<1> DEFINE k == q * w + r
           d == k \div w
           m == k % w
<1>1. k \in Nat
  BY ProductIsNat
<1>2. m \in 0 .. w - 1 /\ d \in Nat /\ k = d * w + m
  BY <1>1, DivMod
<1>3. ~(d < q)
  <2>1. SUFFICES ASSUME d + 1 <= q PROVE FALSE
    BY <1>2
  <2>2. (d + 1) * w <= q * w
    BY <1>2, <2>1, ProductGrows
  <2>3. (d + 1) * w = d * w + w
    BY <1>2
  <2>4. d * w \in Nat /\ q * w \in Nat
    BY <1>2, ProductIsNat
  <2>5. QED BY <1>2, <2>2, <2>3, <2>4
<1>4. ~(q < d)
  <2>1. SUFFICES ASSUME q + 1 <= d PROVE FALSE
    BY <1>2
  <2>2. (q + 1) * w <= d * w
    BY <1>2, <2>1, ProductGrows
  <2>3. (q + 1) * w = q * w + w
    OBVIOUS
  <2>4. d * w \in Nat /\ q * w \in Nat
    BY <1>2, ProductIsNat
  <2>5. QED BY <1>2, <2>2, <2>3, <2>4
<1>5. d = q
  BY <1>2, <1>3, <1>4
<1>6. QED BY <1>2, <1>5, ProductIsNat

(* The rows of a rectangle of h rows are numbered below h. *)
LEMMA RowBelow ==
  ASSUME NEW w \in Nat \ {0}, NEW h \in Nat, NEW k \in Nat, k < h * w
  PROVE  k \div w < h
<1> DEFINE d == k \div w
           m == k % w
<1>1. m \in 0 .. w - 1 /\ d \in Nat /\ k = d * w + m
  BY DivMod
<1>2. SUFFICES ASSUME h <= d PROVE FALSE
  BY <1>1
<1>3. h * w <= d * w
  BY <1>1, <1>2, ProductGrows
<1>4. h * w \in Nat /\ d * w \in Nat
  BY <1>1, ProductIsNat
<1>5. QED BY <1>1, <1>3, <1>4

LEMMA PixelOf ==
  ASSUME NEW w \in Nat \ {0}, NEW h \in Nat, NEW q \in 0 .. h - 1, NEW r \in 0 .. w - 1
  PROVE  q * w + r \in Nat /\ q * w + r < h * w
<1>1. (q + 1) * w <= h * w
  BY ProductGrows
<1>2. (q + 1) * w = q * w + w
  OBVIOUS
<1>3. q * w \in Nat /\ h * w \in Nat
  BY ProductIsNat
<1>4. QED BY <1>1, <1>2, <1>3

---------------------------------------------------------------------------
(* Drawing an area. *)

LEMMA AreaFacts ==
  ASSUME NEW a \in Areas
  PROVE  /\ a.x \in Nat /\ a.y \in Nat /\ a.w \in Nat \ {0} /\ a.h \in Nat \ {0}
         /\ a.x + a.w <= WIDTH /\ a.y + a.h <= HEIGHT
         /\ a.w * a.h \in Nat /\ a.w * a.h = a.h * a.w
<1>1. /\ a.x \in Nat /\ a.y \in Nat /\ a.w \in Nat \ {0} /\ a.h \in Nat \ {0}
      /\ a.x + a.w <= WIDTH /\ a.y + a.h <= HEIGHT
  BY PanelAssumption DEF Areas
<1>2. QED BY <1>1, ProductIsNat

LEMMA WholeIsArea == WholePanel \in Areas
BY PanelAssumption DEF WholePanel, Areas

(* The panel's cursor goes through an area in the order LVGL rendered it.  *)
LEMMA CursorFollows ==
  ASSUME NEW a \in Areas, NEW k \in 0 .. a.w * a.h - 1
  PROVE  /\ Cursor(WindowOf(a), k) = <<a.x + (k % a.w), a.y + (k \div a.w)>>
         /\ Cursor(WindowOf(a), k) \in InArea(a)
<1>1. /\ a.x \in Nat /\ a.y \in Nat /\ a.w \in Nat \ {0} /\ a.h \in Nat \ {0}
      /\ a.x + a.w <= WIDTH /\ a.y + a.h <= HEIGHT
      /\ k \in Nat /\ k < a.h * a.w
  BY AreaFacts
<1>2. k % a.w \in 0 .. a.w - 1 /\ k \div a.w \in 0 .. a.h - 1
  <2>1. k % a.w \in 0 .. a.w - 1 /\ k \div a.w \in Nat
    BY <1>1, DivMod, Zenon
  <2>2. k \div a.w < a.h
    <3>1. a.h \in Nat
      BY <1>1
    <3>2. QED BY <1>1, <3>1, RowBelow, Zenon
  <2>3. QED BY <1>1, <2>1, <2>2
<1> DEFINE win == WindowOf(a)
<1>3. win.x1 - win.x0 + 1 = a.w /\ win.y1 - win.y0 + 1 = a.h /\ win.x0 = a.x /\ win.y0 = a.y
  BY <1>1 DEF WindowOf
<1>4. (k \div a.w) % a.h = k \div a.w
  BY <1>1, <1>2
<1> HIDE DEF win
<1>5. Cursor(win, k) = <<a.x + (k % a.w), a.y + (k \div a.w)>>
  BY <1>3, <1>4 DEF Cursor
<1>6. <<a.x + (k % a.w), a.y + (k \div a.w)>> \in InArea(a)
  <2>1. /\ a.x + (k % a.w) \in a.x .. a.x + a.w - 1
        /\ a.y + (k \div a.w) \in a.y .. a.y + a.h - 1
    BY <1>1, <1>2
  <2>2. /\ a.x + (k % a.w) \in 0 .. WIDTH - 1
        /\ a.y + (k \div a.w) \in 0 .. HEIGHT - 1
    BY <1>1, <1>2, PanelAssumption
  <2>3. QED BY <2>1, <2>2 DEF InArea, Places
<1>7. QED BY <1>5, <1>6 DEF win

(* It reaches every place of the area. *)
LEMMA CursorReaches ==
  ASSUME NEW a \in Areas, NEW p \in InArea(a)
  PROVE  \E k \in 0 .. a.w * a.h - 1 : Cursor(WindowOf(a), k) = p
<1>1. /\ a.x \in Nat /\ a.y \in Nat /\ a.w \in Nat \ {0} /\ a.h \in Nat \ {0}
      /\ a.w * a.h \in Nat /\ a.w * a.h = a.h * a.w
  BY AreaFacts
<1>2. p \in Places /\ p[1] \in a.x .. a.x + a.w - 1 /\ p[2] \in a.y .. a.y + a.h - 1
  BY DEF InArea
<1> DEFINE r == p[1] - a.x
           q == p[2] - a.y
           k == q * a.w + r
<1>3. r \in 0 .. a.w - 1 /\ q \in 0 .. a.h - 1
  BY <1>1, <1>2
<1>4. k \in Nat /\ k < a.h * a.w
  BY <1>1, <1>3, PixelOf
<1>5. k \in 0 .. a.w * a.h - 1
  BY <1>1, <1>4
<1>6. k \div a.w = q /\ k % a.w = r
  <2>1. q \in Nat
    BY <1>1, <1>3
  <2> HIDE DEF q, r
  <2>2. QED BY <1>1, <1>3, <2>1, DivModOf, Zenon
<1>7. p = <<p[1], p[2]>>
  BY <1>2 DEF Places
<1>8. a.x + r = p[1] /\ a.y + q = p[2]
  BY <1>1, <1>2
<1> HIDE DEF r, q, k
<1>9. Cursor(WindowOf(a), k) = <<a.x + r, a.y + q>>
  BY <1>5, <1>6, CursorFollows
<1>10. QED BY <1>5, <1>7, <1>8, <1>9

(* Once all its pixels are in, an area shows exactly what was rendered for *)
(* it, and nothing else has changed.                                       *)
LEMMA WholeAreaLands ==
  ASSUME NEW a \in Areas, NEW c, NEW g, NEW p \in Places, NEW n, n = a.w * a.h
  PROVE  /\ p \in InArea(a)
              => Filled(g, WindowOf(a), 0, Rendered(a, c), n)[p] = [at |-> p, colour |-> c]
         /\ p \notin InArea(a)
              => Filled(g, WindowOf(a), 0, Rendered(a, c), n)[p] = g[p]
<1> DEFINE data == Rendered(a, c)
           Hits(i) == Cursor(WindowOf(a), 0 + i - 1) = p
<1>1. n \in Nat
  BY AreaFacts
<1>2. Filled(g, WindowOf(a), 0, data, n)[p]
        = IF \E i \in 1 .. n : Hits(i) THEN data[CHOOSE i \in 1 .. n : Hits(i)] ELSE g[p]
  BY DEF Filled
<1>3. \A i \in 1 .. n : i - 1 \in 0 .. n - 1 /\ 0 + i - 1 = i - 1
  BY <1>1
<1>4. CASE p \in InArea(a)
  <2>1. PICK k \in 0 .. n - 1 : Cursor(WindowOf(a), k) = p
    BY <1>4, CursorReaches
  <2>2. k + 1 \in 1 .. n /\ 0 + (k + 1) - 1 = k
    BY <1>1
  <2>3. \E i \in 1 .. n : Hits(i)
    BY <2>1, <2>2
  <2> DEFINE j == CHOOSE i \in 1 .. n : Hits(i)
  <2>4. j \in 1 .. n /\ Hits(j)
    BY <2>3
  <2> HIDE DEF j
  <2>5. Cursor(WindowOf(a), j - 1) = p /\ j - 1 \in 0 .. n - 1
    BY <1>3, <2>4
  <2>6. p = <<a.x + ((j - 1) % a.w), a.y + ((j - 1) \div a.w)>>
    BY <2>5, CursorFollows
  <2>7. data[j] = [at |-> p, colour |-> c]
    BY <2>4, <2>6 DEF Rendered
  <2>8. QED BY <1>2, <1>4, <2>3, <2>7 DEF j
<1>5. CASE p \notin InArea(a)
  <2>1. \A i \in 1 .. n : ~Hits(i)
    BY <1>3, <1>5, CursorFollows
  <2>2. QED BY <1>2, <1>5, <2>1
<1>6. QED BY <1>4, <1>5

(* However early the stream breaks off, it stays within the area. *)
LEMMA PartStaysInArea ==
  ASSUME NEW a \in Areas, NEW data, NEW g, NEW n \in 0 .. a.w * a.h,
         NEW p \in Places, p \notin InArea(a)
  PROVE  Filled(g, WindowOf(a), 0, data, n)[p] = g[p]
<1>1. \A i \in 1 .. n : Cursor(WindowOf(a), 0 + i - 1) # p
  <2>1. TAKE i \in 1 .. n
  <2>2. 0 + i - 1 \in 0 .. a.w * a.h - 1
    BY AreaFacts
  <2>3. QED BY <2>2, CursorFollows
<1>2. QED BY <1>1 DEF Filled

---------------------------------------------------------------------------
(* The boot sequence. *)

Others == Pins \ {EXIO_LCD_RST}

(* What the shadows and the chip hold at each step of the sequence, and    *)
(* that the panel is in reset from the low pulse to its first command.     *)
BootInv ==
  /\ ExpanderTypeOK
  /\ Others \subseteq output /\ Others \subseteq config
  /\ Others \subseteq OUTPUT /\ Others \subseteq CONFIG
  /\ at = "start" => output = Pins /\ config = Pins
  /\ at \in {"directed", "low", "high"} => config = Others /\ CONFIG = Others
  /\ at = "directed" => output = Pins
  /\ at = "low" => output = Others /\ OUTPUT = Others
  /\ at = "high" => output = Pins /\ OUTPUT = Pins
  /\ at \in {"low", "high"} => display = "reset"
  /\ at = "running" => OUTPUT = output /\ CONFIG = config

LEMMA BootInitially == PanelInit => BootInv
BY PinsAssumption DEF PanelInit, BootInv, ExpanderTypeOK, new, Others

LEMMA BootStep ==
  ASSUME BootInv, [PanelNext]_panelVars
  PROVE  BootInv'
<1> USE PinsAssumption DEF BootInv, ExpanderTypeOK, Others
<1>1. ASSUME NEW power \in BOOLEAN, Reset(power)
      PROVE  BootInv'
  BY <1>1 DEF Reset, new, registers
<1>2. ASSUME NEW ok \in BOOLEAN, SetDirection(ok)
      PROVE  BootInv'
  <2>1. /\ at = "start" /\ at' \in {"directed", "panicked"}
        /\ at' = "directed" => ok
    BY <1>2 DEF SetDirection, Continue
  <2>2. /\ config' = config \ {EXIO_LCD_RST}
        /\ CONFIG' = config' \/ (~ok /\ CONFIG' = CONFIG)
        /\ output' = output /\ OUTPUT' = OUTPUT
    BY <1>2 DEF SetDirection, Booting, set_direction_output
  <2>3. QED BY <2>1, <2>2
<1>3. ASSUME NEW ok \in BOOLEAN, PullLow(ok)
      PROVE  BootInv'
  <2>1. /\ at = "directed" /\ at' \in {"low", "panicked"}
        /\ at' = "low" => ok
    BY <1>3 DEF PullLow, Continue
  <2>2. /\ output' = output \ {EXIO_LCD_RST}
        /\ OUTPUT' = output' \/ (~ok /\ OUTPUT' = OUTPUT)
        /\ config' = config /\ CONFIG' = CONFIG
    BY <1>3 DEF PullLow, Booting, set_output
  <2>3. at' = "low" => OUTPUT' = Others /\ CONFIG' = Others
    BY <2>1, <2>2
  <2>4. display' = IF EXIO_LCD_RST \in CONFIG' \cup OUTPUT' THEN display ELSE "reset"
    BY <1>3 DEF PullLow, Booting, PinActs, High
  <2>5. at' = "low" => display' = "reset"
    BY <2>3, <2>4
  <2>6. QED BY <2>1, <2>2, <2>3, <2>5
<1>4. ASSUME NEW ok \in BOOLEAN, PullHigh(ok)
      PROVE  BootInv'
  <2>1. /\ at = "low" /\ at' \in {"high", "panicked"}
        /\ at' = "high" => ok
    BY <1>4 DEF PullHigh, Continue
  <2>2. /\ output' = output \cup {EXIO_LCD_RST}
        /\ OUTPUT' = output' \/ (~ok /\ OUTPUT' = OUTPUT)
        /\ config' = config /\ CONFIG' = CONFIG
    BY <1>4 DEF PullHigh, Booting, set_output
  <2>3. display' = "reset"
    BY <1>4, <2>1 DEF PullHigh, Booting, PinActs
  <2>4. QED BY <2>1, <2>2, <2>3
<1>5. ASSUME NEW ok \in BOOLEAN, InitPanel(ok)
      PROVE  BootInv'
  <2>1. at = "high" /\ at' \in {"running", "panicked"}
    BY <1>5 DEF InitPanel, Continue
  <2>2. UNCHANGED <<output, config, OUTPUT, CONFIG>>
    BY <1>5 DEF InitPanel, expanderVars, shadows, registers
  <2>3. QED BY <2>1, <2>2
<1>6. CASE Render \/ flush_task
  BY <1>6
  DEF Render, PassBegins, HandOver, PassEnds, flush_task, Flush, Firmware,
      expanderVars, shadows, registers, controller
<1>7. ASSUME NEW ok \in BOOLEAN, OpenWindow(ok) \/ PushRow(ok)
      PROVE  BootInv'
  <2>1. at = "running" /\ at' \in {"running", "panicked"}
    BY <1>7 DEF OpenWindow, PushRow, LcdTest, Continue
  <2>2. UNCHANGED <<output, config, OUTPUT, CONFIG>>
    BY <1>7 DEF OpenWindow, PushRow, expanderVars, shadows, registers
  <2>3. QED BY <2>1, <2>2
<1>8. CASE UNCHANGED panelVars
  BY <1>8 DEF panelVars, expanderVars, shadows, registers, controller
<1>9. QED
  BY <1>1, <1>2, <1>3, <1>4, <1>5, <1>6, <1>7, <1>8 DEF PanelNext, Boot, lcd_test

(* Whatever the number of pins, the driver's shadows never reach another   *)
(* pin than the panel's reset, and agree with the chip when the boot is    *)
(* through, wherever earlier boots were cut off.                           *)
THEOREM ExpanderIsUndisturbed == PanelSpec => []ExpanderUndisturbed
<1>1. BootInv => ExpanderUndisturbed
  BY DEF BootInv, Others, ExpanderUndisturbed, registers, shadows
<1>2. BootInv /\ [PanelNext]_panelVars => BootInv'
  BY BootStep
<1>3. QED BY BootInitially, <1>1, <1>2, PTL DEF PanelSpec

(* The panel is told its first command in reset and released, on every     *)
(* boot.                                                                   *)
THEOREM InitFollowsReset == PanelSpec => InitAfterReset
<1>1. BootInv => ((\E ok \in BOOLEAN : InitPanel(ok)) => display = "reset" /\ High(EXIO_LCD_RST))
  BY PinsAssumption DEF BootInv, InitPanel, High
<1>2. BootInv /\ [PanelNext]_panelVars => BootInv'
  BY BootStep
<1>3. QED BY BootInitially, <1>1, <1>2, PTL DEF PanelSpec, InitAfterReset

---------------------------------------------------------------------------
(* What the panel shows. *)

(* A row of lcd-test, counted on from the rows before it, fills its row of *)
(* the window.                                                             *)
LEMMA RowLands ==
  ASSUME NEW r \in 0 .. HEIGHT - 1, NEW c, NEW g, NEW p \in Places
  PROVE  Filled(g, WindowOf(WholePanel), r * WIDTH, Rendered(Row(r), c), WIDTH)[p]
           = IF p \in InArea(Row(r)) THEN [at |-> p, colour |-> c] ELSE g[p]
<1> DEFINE data == Rendered(Row(r), c)
           Hits(i) == Cursor(WindowOf(WholePanel), r * WIDTH + i - 1) = p
<1>1. WIDTH \in Nat \ {0} /\ HEIGHT \in Nat \ {0}
  BY PanelAssumption
<1>2. ASSUME NEW i \in 1 .. WIDTH
      PROVE  Cursor(WindowOf(WholePanel), r * WIDTH + i - 1) = <<i - 1, r>>
  <2> DEFINE k == r * WIDTH + (i - 1)
  <2>1. i - 1 \in 0 .. WIDTH - 1 /\ r \in Nat
    BY <1>1
  <2>2. k \in Nat /\ k < HEIGHT * WIDTH
    BY <1>1, <2>1, PixelOf
  <2>3. k \div WIDTH = r /\ k % WIDTH = i - 1
    BY <1>1, <2>1, DivModOf
  <2>4. WholePanel.x = 0 /\ WholePanel.y = 0 /\ WholePanel.w = WIDTH /\ WholePanel.h = HEIGHT
    BY DEF WholePanel
  <2>5. k \in 0 .. WIDTH * HEIGHT - 1
    BY <1>1, <2>2, ProductIsNat
  <2>6. r * WIDTH + i - 1 = k
    BY <1>1, ProductIsNat
  <2> HIDE DEF k
  <2>7. Cursor(WindowOf(WholePanel), k) = <<0 + (k % WIDTH), 0 + (k \div WIDTH)>>
    BY <2>4, <2>5, WholeIsArea, CursorFollows
  <2>8. QED BY <2>1, <2>3, <2>6, <2>7
<1>3. ASSUME NEW i \in 1 .. WIDTH
      PROVE  data[i] = [at |-> <<i - 1, r>>, colour |-> c]
  <2>1. i - 1 \in 0 .. WIDTH - 1 /\ i \in 1 .. WIDTH * 1
    BY <1>1
  <2>2. (i - 1) % WIDTH = i - 1 /\ (i - 1) \div WIDTH = 0
    <3>1. 0 * WIDTH + (i - 1) = i - 1
      BY <1>1
    <3>2. QED BY <1>1, <2>1, <3>1, DivModOf
  <2>3. QED BY <1>1, <2>1, <2>2 DEF Row, Rendered
<1>4. Filled(g, WindowOf(WholePanel), r * WIDTH, data, WIDTH)[p]
        = IF \E i \in 1 .. WIDTH : Hits(i)
          THEN data[CHOOSE i \in 1 .. WIDTH : Hits(i)] ELSE g[p]
  BY DEF Filled
<1>5. CASE p \in InArea(Row(r))
  <2>1. p = <<p[1], p[2]>> /\ p[1] \in 0 .. WIDTH - 1 /\ p[2] = r
    BY <1>1, <1>5 DEF InArea, Row, Places
  <2>2. p[1] + 1 \in 1 .. WIDTH /\ (p[1] + 1) - 1 = p[1]
    BY <1>1, <2>1
  <2>3. \E i \in 1 .. WIDTH : Hits(i)
    BY <1>2, <2>1, <2>2
  <2> DEFINE j == CHOOSE i \in 1 .. WIDTH : Hits(i)
  <2>4. j \in 1 .. WIDTH /\ Hits(j)
    BY <2>3
  <2> HIDE DEF j
  <2>5. data[j] = [at |-> p, colour |-> c]
    BY <1>2, <1>3, <2>4
  <2>6. QED BY <1>4, <1>5, <2>3, <2>5 DEF j
<1>6. CASE p \notin InArea(Row(r))
  <2>1. ASSUME NEW i \in 1 .. WIDTH, Hits(i) PROVE FALSE
    <3>1. p = <<i - 1, r>> /\ i - 1 \in 0 .. WIDTH - 1
      BY <1>1, <1>2, <2>1
    <3>2. p[1] \in 0 .. 0 + WIDTH - 1 /\ p[2] \in r .. r + 1 - 1
      BY <1>1, <3>1
    <3>3. QED BY <1>6, <3>2 DEF InArea, Row
  <2>2. QED BY <1>4, <1>6, <2>1
<1>7. QED BY <1>5, <1>6

LEMMA RowsOnPanel == rows_per_bar \in Nat \ {0} /\ rows_per_bar * Bars <= HEIGHT
<1>1. Bars \in Nat \ {0} /\ HEIGHT \in Nat \ {0} /\ Bars <= HEIGHT
  BY BarsAssumption, PanelAssumption
<1> DEFINE d == HEIGHT \div Bars
<1>2. d \in Nat /\ HEIGHT % Bars \in 0 .. Bars - 1 /\ HEIGHT = d * Bars + (HEIGHT % Bars)
  BY <1>1, DivMod
<1>3. d * Bars \in Nat
  BY <1>1, <1>2, ProductIsNat
<1>4. d # 0
  BY <1>1, <1>2
<1>5. QED BY <1>1, <1>2, <1>3, <1>4 DEF rows_per_bar

(* Where each program is, what it has handed over and what it may rely on: *)
(* nothing is drawn during the boot, lcd-test flushes no stripes, and its  *)
(* window stays open while it pushes rows.                                 *)
DrawInv ==
  /\ app \in {"firmware", "lcd-test"}
  /\ flushing # None =>
       /\ app = "firmware" /\ flushing.area \in Areas
       /\ \A p \in InArea(flushing.area) : frame[p] = flushing.colour
  /\ rows \in -1 .. HEIGHT
  /\ app = "firmware" => rows = -1
  /\ at \notin {"running", "panicked"} => lost = Places /\ flushing = None /\ rows = -1
  /\ at = "running" /\ rows # -1 => window = WindowOf(WholePanel)
  /\ StripesLand

(* No stripe handed over is mistaken for None. *)
LEMMA ColoursKnown == -1 \notin Colours
BY PanelAssumption

LEMMA DrawInitially == PanelInit => DrawInv
BY PanelAssumption DEF PanelInit, DrawInv, StripesLand

LEMMA ResetDraws ==
  ASSUME DrawInv, NEW power \in BOOLEAN, Reset(power)
  PROVE  DrawInv'
<1>1. at' = "start" /\ rows' = -1 /\ lost' = Places /\ flushing' = None /\ app' = app
  BY DEF Reset
<1>2. -1 \in -1 .. HEIGHT
  BY PanelAssumption
<1>3. StripesLand'
  BY <1>1 DEF StripesLand
<1>4. QED BY <1>1, <1>2, <1>3 DEF DrawInv, None, WholePanel

LEMMA BootDraws ==
  ASSUME DrawInv, Boot
  PROVE  DrawInv'
<1>1. UNCHANGED <<app, flushing, frame, lost, rows>>
  BY DEF Boot, SetDirection, PullLow, PullHigh, InitPanel, Booting, pass, drawing
<1>2. at \notin {"running", "panicked"}
  BY DEF Boot, SetDirection, PullLow, PullHigh, InitPanel
<1>3. lost = Places /\ flushing = None /\ rows = -1
  BY <1>2 DEF DrawInv
<1>4. StripesLand'
  BY <1>1, <1>3 DEF StripesLand
<1>5. QED BY <1>1, <1>3, <1>4 DEF DrawInv, None

LEMMA RenderDraws ==
  ASSUME DrawInv, Render
  PROVE  DrawInv'
<1> USE DEF DrawInv
<1>1. CASE PassBegins \/ PassEnds
  <2>1. UNCHANGED <<app, at, flushing, frame, lost, rows, window, gram>>
    BY <1>1 DEF PassBegins, PassEnds, controller, drawing
  <2>2. StripesLand'
    BY <2>1 DEF StripesLand
  <2>3. QED BY <2>1, <2>2 DEF None
<1>2. ASSUME NEW a \in Dirty, NEW colour \in Colours, HandOver(a, colour)
      PROVE  DrawInv'
  <2>1. /\ app = "firmware" /\ at = "running" /\ flushing = None
        /\ flushing' = [area |-> a, colour |-> colour]
        /\ frame' = [p \in Places |-> IF p \in InArea(a) THEN colour ELSE frame[p]]
        /\ UNCHANGED <<app, at, lost, rows, window, gram>>
    BY <1>2 DEF HandOver, Firmware, controller
  <2>2. a \in Areas
    BY DirtyAssumption
  <2>3. \A p \in InArea(a) : frame'[p] = colour
    BY <2>1 DEF InArea
  <2>4. flushing'.area = a /\ flushing'.colour = colour
    BY <2>1
  <2>5. StripesLand'
    <3>1. SUFFICES ASSUME NEW p \in Places \ lost, flushing' = None' \/ p \notin InArea(a)
                   PROVE  gram[p] = [at |-> p, colour |-> frame'[p]]
      BY <2>1, <2>4 DEF StripesLand, InArea
    <3>2. gram[p] = [at |-> p, colour |-> frame[p]]
      BY <2>1 DEF StripesLand
    <3>3. CASE p \notin InArea(a)
      BY <2>1, <3>2, <3>3
    <3>4. CASE flushing' = None'
      <4>1. colour = -1
        BY <2>1, <3>4 DEF None
      <4>2. QED BY <4>1, ColoursKnown
    <3>5. QED BY <3>1, <3>3, <3>4
  <2>6. QED BY <2>1, <2>2, <2>3, <2>4, <2>5 DEF InArea, Places
<1>3. QED BY <1>1, <1>2 DEF Render

LEMMA FlushDraws ==
  ASSUME DrawInv, NEW ok \in BOOLEAN, Flush(ok)
  PROVE  DrawInv'
<1> DEFINE a == flushing.area
           data == Rendered(a, flushing.colour)
<1>1. /\ app = "firmware" /\ at = "running" /\ flushing # None /\ flushing' = None
      /\ UNCHANGED <<app, at, frame, rows>>
  BY DEF Flush, Firmware
<1>2. a \in Areas /\ \A p \in InArea(a) : frame[p] = flushing.colour
  BY <1>1 DEF DrawInv
<1>3. show_raw_data(a, data, ok)
  BY DEF Flush
<1> DEFINE colour == flushing.colour
<1>4. data = Rendered(a, colour)
  OBVIOUS
<1> HIDE DEF a, data
<1>5. ASSUME NEW p \in Places
      PROVE  IF p \in InArea(a) THEN ok => gram'[p] = [at |-> p, colour |-> colour]
             ELSE gram'[p] = gram[p]
  <2>1. CASE ok
    <3>1. ShowWhole(a, data)
      BY <1>3, <2>1 DEF show_raw_data
    <3>2. window' = WindowOf(a)
      BY <3>1 DEF ShowWhole, SetWindow, WindowOf
    <3>3. PICK n : n = a.w * a.h /\ gram' = Filled(gram, WindowOf(a), 0, Rendered(a, colour), n)
      BY <1>4, <3>1, <3>2 DEF ShowWhole, PushPixels
    <3>4. a \in Areas
      BY <1>2
    <3>5. /\ p \in InArea(a)
               => Filled(gram, WindowOf(a), 0, Rendered(a, colour), n)[p]
                    = [at |-> p, colour |-> colour]
          /\ p \notin InArea(a)
               => Filled(gram, WindowOf(a), 0, Rendered(a, colour), n)[p] = gram[p]
      BY <3>3, <3>4, WholeAreaLands
    <3>6. QED BY <2>1, <3>3, <3>5
  <2>2. CASE ~ok
    <3>1. CASE ShowWindowRefused(a, data)
      BY <2>2, <3>1 DEF ShowWindowRefused
    <3>2. CASE ShowPixelsRefused(a, data)
      <4>1. window' = WindowOf(a)
        BY <3>2 DEF ShowPixelsRefused, SetWindow, WindowOf
      <4>2. PICK n \in 0 .. a.w * a.h : gram' = Filled(gram, WindowOf(a), 0, data, n)
        BY <3>2, <4>1 DEF ShowPixelsRefused, PushPixels
      <4>3. a \in Areas
        BY <1>2
      <4>4. p \notin InArea(a) => Filled(gram, WindowOf(a), 0, data, n)[p] = gram[p]
        BY <4>3, PartStaysInArea
      <4>5. QED BY <2>2, <4>2, <4>4
    <3>3. QED BY <1>3, <2>2, <3>1, <3>2 DEF show_raw_data
  <2>3. QED BY <2>1, <2>2
<1>6. lost' = IF ok THEN lost \ InArea(a) ELSE lost \cup InArea(a)
  BY DEF Flush, a
<1>7. ASSUME NEW p \in Places, p \notin lost'
      PROVE  gram'[p] = [at |-> p, colour |-> frame'[p]]
  <2>1. CASE p \in InArea(a)
    BY <1>1, <1>2, <1>5, <1>6, <1>7, <2>1 DEF colour
  <2>2. CASE p \notin InArea(a)
    <3>1. p \notin lost
      BY <1>6, <1>7, <2>2
    <3>2. gram[p] = [at |-> p, colour |-> frame[p]]
      BY <1>1, <2>2, <3>1 DEF DrawInv, StripesLand, a
    <3>3. QED BY <1>1, <1>5, <2>2, <3>2
  <2>3. QED BY <2>1, <2>2
<1>8. StripesLand'
  BY <1>7 DEF StripesLand
<1>9. rows = -1
  BY <1>1 DEF DrawInv
<1>10. QED BY <1>1, <1>8, <1>9 DEF DrawInv, None, WholePanel

LEMMA BarsDraw ==
  ASSUME DrawInv, NEW ok \in BOOLEAN, OpenWindow(ok) \/ PushRow(ok)
  PROVE  DrawInv'
<1>1. /\ app = "lcd-test" /\ at = "running" /\ at' = IF ok THEN "running" ELSE "panicked"
      /\ UNCHANGED <<app, flushing>>
  BY DEF OpenWindow, PushRow, LcdTest, Continue, pass
<1>2. flushing = None
  BY <1>1 DEF DrawInv
<1>3. HEIGHT \in Nat \ {0}
  BY PanelAssumption
<1>4. CASE OpenWindow(ok)
  <2>1. rows = -1 /\ rows' = 0 /\ UNCHANGED <<gram, frame, lost>>
    BY <1>4 DEF OpenWindow, drawing
  <2>2. window' = WindowOf(WholePanel)
    BY <1>4 DEF OpenWindow, SetWindow, WindowOf
  <2>3. StripesLand'
    BY <1>1, <1>2, <2>1 DEF DrawInv, StripesLand
  <2>4. QED BY <1>1, <1>2, <1>3, <2>1, <2>2, <2>3 DEF DrawInv, None
<1>5. CASE PushRow(ok)
  <2>1. rows \in 0 .. HEIGHT - 1
    <3>1. rows \in 0 .. rows_per_bar * Bars - 1
      BY <1>5 DEF PushRow
    <3>2. rows_per_bar * Bars \in Nat
      BY RowsOnPanel, BarsAssumption, ProductIsNat
    <3>3. QED BY <1>3, <3>1, <3>2, RowsOnPanel
  <2>2. rows' = rows + 1 /\ window' = window /\ window = WindowOf(WholePanel)
    BY <1>1, <1>5, <2>1 DEF PushRow, DrawInv
  <2>3. rows' \in -1 .. HEIGHT
    BY <1>3, <2>1, <2>2
  <2>4. ASSUME ok, NEW p \in Places, p \notin lost'
        PROVE  gram'[p] = [at |-> p, colour |-> frame'[p]]
    <3>1. gram' = Filled(gram, WindowOf(WholePanel), rows * WIDTH,
                         Rendered(Row(rows), BarColour(rows)), WIDTH)
      BY <1>5, <2>2, <2>4 DEF PushRow, PushPixels
    <3>2. gram'[p] = IF p \in InArea(Row(rows)) THEN [at |-> p, colour |-> BarColour(rows)]
                     ELSE gram[p]
      BY <2>1, <3>1, RowLands
    <3>3. frame'[p] = IF p \in InArea(Row(rows)) THEN BarColour(rows) ELSE frame[p]
      BY <1>5 DEF PushRow
    <3>4. p \notin InArea(Row(rows)) => p \notin lost
      BY <1>5, <2>4 DEF PushRow
    <3>5. p \notin lost => gram[p] = [at |-> p, colour |-> frame[p]]
      BY <1>1, <1>2 DEF DrawInv, StripesLand
    <3>6. QED BY <3>2, <3>3, <3>4, <3>5
  <2>5. StripesLand'
    BY <1>1, <2>4 DEF StripesLand
  <2>6. QED BY <1>1, <1>2, <2>2, <2>3, <2>5 DEF DrawInv, None
<1>6. QED BY <1>4, <1>5

LEMMA DrawStutter == DrawInv /\ UNCHANGED panelVars => DrawInv'
<1> SUFFICES ASSUME DrawInv, UNCHANGED panelVars PROVE DrawInv'
  OBVIOUS
<1>1. UNCHANGED <<app, at, flushing, frame, lost, rows, window, gram>>
  BY DEF panelVars, controller, pass, drawing
<1>2. StripesLand'
  BY <1>1 DEF DrawInv, StripesLand
<1>3. QED BY <1>1, <1>2 DEF DrawInv, None

LEMMA DrawStep == DrawInv /\ [PanelNext]_panelVars => DrawInv'
BY ResetDraws, BootDraws, RenderDraws, FlushDraws, BarsDraw, DrawStutter
DEF PanelNext, flush_task, lcd_test

(* For every size of the panel and all areas on it: what was drawn is what *)
(* is shown, where it was drawn, whichever writes were refused before.     *)
THEOREM DrawingsLand == PanelSpec => []StripesLand
<1>1. DrawInv => StripesLand
  BY DEF DrawInv
<1>2. QED BY DrawInitially, DrawStep, <1>1, PTL DEF PanelSpec

---------------------------------------------------------------------------
(* The types of the panel. *)

Contents == [Places -> Pixel \cup {Undefined}]

LEMMA RenderedPixels ==
  ASSUME NEW a \in Areas, NEW c \in Colours, NEW i \in 1 .. a.w * a.h
  PROVE  Rendered(a, c)[i] \in Pixel
<1>1. a.w * a.h \in Nat
  BY AreaFacts
<1>2. i - 1 \in 0 .. a.w * a.h - 1
  BY <1>1
<1>3. <<a.x + ((i - 1) % a.w), a.y + ((i - 1) \div a.w)>> \in InArea(a)
  BY <1>2, CursorFollows
<1>4. <<a.x + ((i - 1) % a.w), a.y + ((i - 1) \div a.w)>> \in Places
  BY <1>3 DEF InArea
<1>5. QED BY <1>4 DEF Rendered, Pixel

LEMMA FilledKeepsType ==
  ASSUME NEW g \in Contents, NEW win, NEW k, NEW data, NEW n \in Nat,
         \A i \in 1 .. n : data[i] \in Pixel
  PROVE  Filled(g, win, k, data, n) \in Contents
<1>1. ASSUME NEW p \in Places
      PROVE  (IF \E i \in 1 .. n : Cursor(win, k + i - 1) = p
              THEN data[CHOOSE i \in 1 .. n : Cursor(win, k + i - 1) = p]
              ELSE g[p]) \in Pixel \cup {Undefined}
  <2>1. CASE \E i \in 1 .. n : Cursor(win, k + i - 1) = p
    <3> DEFINE j == CHOOSE i \in 1 .. n : Cursor(win, k + i - 1) = p
    <3>1. j \in 1 .. n
      BY <2>1
    <3> HIDE DEF j
    <3>2. data[j] \in Pixel
      BY <3>1
    <3>3. QED BY <2>1, <3>2 DEF j
  <2>2. CASE ~\E i \in 1 .. n : Cursor(win, k + i - 1) = p
    <3>1. g[p] \in Pixel \cup {Undefined}
      BY DEF Contents
    <3>2. QED BY <2>2, <3>1
  <2>3. QED BY <2>1, <2>2
<1>2. QED BY <1>1 DEF Filled, Contents

Windows == [x0 : 0 .. WIDTH - 1, x1 : 0 .. WIDTH - 1, y0 : 0 .. HEIGHT - 1, y1 : 0 .. HEIGHT - 1]

LEMMA WindowType ==
  ASSUME NEW a \in Areas
  PROVE  WindowOf(a) \in Windows
BY AreaFacts, PanelAssumption DEF WindowOf, Windows

LEMMA SetWindowKeepsType ==
  ASSUME window \in Windows, NEW win \in Windows, NEW taken \in 0 .. 5, SetWindow(win, taken)
  PROVE  window' \in Windows
BY DEF SetWindow, Windows

(* Whatever part of a drawing is taken, the controller keeps its types. *)
LEMMA ShowKeepsType ==
  ASSUME window \in Windows, gram \in Contents,
         NEW a \in Areas, NEW c \in Colours, NEW ok \in BOOLEAN,
         show_raw_data(a, Rendered(a, c), ok)
  PROVE  window' \in Windows /\ gram' \in Contents
<1>1. WindowOf(a) \in Windows /\ a.w * a.h \in Nat
  BY WindowType, AreaFacts
<1>2. ASSUME NEW n \in 0 .. a.w * a.h, PushPixels(0, Rendered(a, c), n)
      PROVE  gram' \in Contents
  <2>1. \A i \in 1 .. n : Rendered(a, c)[i] \in Pixel
    BY <1>1, RenderedPixels
  <2>2. QED BY <1>1, <1>2, <2>1, FilledKeepsType DEF PushPixels
<1>3. CASE ShowWhole(a, Rendered(a, c))
  <2>1. a.w * a.h \in 0 .. a.w * a.h
    BY <1>1
  <2>2. QED BY <1>1, <1>2, <1>3, <2>1, SetWindowKeepsType DEF ShowWhole
<1>4. CASE ShowWindowRefused(a, Rendered(a, c))
  BY <1>1, <1>4, SetWindowKeepsType DEF ShowWindowRefused
<1>5. CASE ShowPixelsRefused(a, Rendered(a, c))
  BY <1>1, <1>2, <1>5, SetWindowKeepsType DEF ShowPixelsRefused
<1>6. QED BY <1>3, <1>4, <1>5 DEF show_raw_data

LEMMA BarColours ==
  ASSUME NEW r \in Nat
  PROVE  BarColour(r) \in Colours
<1>1. r \div rows_per_bar \in Nat
  BY RowsOnPanel, DivMod, Zenon
<1>2. (r \div rows_per_bar) % 2 \in 0 .. 1
  BY <1>1
<1>3. QED BY <1>2, PanelAssumption DEF BarColour

(* PanelTypeOK without the expander, whose types BootInv keeps. *)
DrawTypes ==
  /\ display \in {"unknown", "reset", "on"}
  /\ window \in Windows /\ gram \in Contents
  /\ app \in {"firmware", "lcd-test"}
  /\ at \in {"start", "directed", "low", "high", "running", "panicked"}
  /\ thread \in {"free", "lvgl"} /\ stripes \in 0 .. MaxStripes
  /\ flushing \in Stripes \cup {None}
  /\ frame \in [Places -> Colours] /\ lost \subseteq Places
  /\ rows \in -1 .. HEIGHT

LEMMA Blank ==
  /\ [p \in Places |-> Undefined] \in Contents
  /\ WindowOf(WholePanel) \in Windows
  /\ [p \in Places |-> 0] \in [Places -> Colours]
  /\ 0 \in 0 .. MaxStripes /\ -1 \in -1 .. HEIGHT
BY WholeIsArea, WindowType, PanelAssumption, BarsAssumption DEF Contents

LEMMA DrawTypesInitially == PanelInit => DrawTypes
BY Blank DEF PanelInit, DrawTypes

LEMMA BootKeepsTypes ==
  ASSUME DrawTypes, Boot
  PROVE  DrawTypes'
<1>1. UNCHANGED <<app, thread, stripes, flushing, frame, lost, rows>>
  BY DEF Boot, SetDirection, PullLow, PullHigh, InitPanel, Booting, pass, drawing
<1>2. at' \in {"directed", "low", "high", "running", "panicked"}
  BY DEF Boot, SetDirection, PullLow, PullHigh, InitPanel, Continue
<1>3. CASE UNCHANGED <<window, gram>> /\ PinActs
  BY <1>1, <1>2, <1>3 DEF DrawTypes, PinActs
<1>4. ASSUME NEW ok \in BOOLEAN, init(ok)
      PROVE  DrawTypes'
  <2>1. display' \in {"reset", "on"} /\ gram' \in Contents /\ window' \in Windows
    BY <1>4, Blank DEF init
  <2>2. QED BY <1>1, <1>2, <2>1 DEF DrawTypes
<1>5. QED BY <1>3, <1>4 DEF Boot, SetDirection, PullLow, PullHigh, InitPanel, Booting

LEMMA RenderKeepsTypes ==
  ASSUME DrawTypes, Render
  PROVE  DrawTypes'
<1> USE DEF DrawTypes
<1>1. UNCHANGED <<display, window, gram, app, at, lost, rows>>
  BY DEF Render, PassBegins, HandOver, PassEnds, controller, drawing
<1>2. CASE PassBegins \/ PassEnds
  <2>1. /\ thread' \in {"free", "lvgl"} /\ stripes' \in 0 .. MaxStripes
        /\ UNCHANGED <<flushing, frame>>
    BY <1>2 DEF PassBegins, PassEnds, drawing
  <2>2. QED BY <1>1, <2>1 DEF None
<1>3. ASSUME NEW a \in Dirty, NEW colour \in Colours, HandOver(a, colour)
      PROVE  DrawTypes'
  <2>1. stripes' \in 0 .. MaxStripes
    BY <1>3, BarsAssumption DEF HandOver
  <2>2. flushing' \in Stripes
    BY <1>3 DEF HandOver, Stripes
  <2>3. frame' \in [Places -> Colours]
    BY <1>3 DEF HandOver
  <2>4. thread' = thread
    BY <1>3 DEF HandOver
  <2>5. QED BY <1>1, <2>1, <2>2, <2>3, <2>4
<1>4. QED BY <1>2, <1>3 DEF Render

LEMMA FlushKeepsTypes ==
  ASSUME DrawTypes, NEW ok \in BOOLEAN, Flush(ok)
  PROVE  DrawTypes'
<1>1. flushing \in Stripes
  BY DEF Flush, DrawTypes
<1>2. flushing.area \in Areas /\ flushing.colour \in Colours
  BY <1>1, DirtyAssumption DEF Stripes
<1>3. window' \in Windows /\ gram' \in Contents
  BY <1>2, ShowKeepsType DEF Flush, DrawTypes
<1>4. lost' \subseteq Places
  BY DEF Flush, DrawTypes, InArea
<1>5. flushing' = None /\ UNCHANGED <<display, app, at, thread, stripes, frame, rows>>
  BY DEF Flush
<1>6. QED BY <1>3, <1>4, <1>5 DEF DrawTypes, None

LEMMA BarsKeepTypes ==
  ASSUME DrawTypes, DrawInv, NEW ok \in BOOLEAN, OpenWindow(ok) \/ PushRow(ok)
  PROVE  DrawTypes'
<1>1. at' \in {"running", "panicked"} /\ UNCHANGED <<display, app, thread, stripes, flushing>>
  BY DEF OpenWindow, PushRow, Continue, pass
<1>2. CASE OpenWindow(ok)
  <2>1. window' \in Windows
    <3>1. SetWindow(WindowOf(WholePanel), 5) /\ 5 \in 0 .. 5
      BY <1>2 DEF OpenWindow
    <3>2. QED BY <3>1, Blank, SetWindowKeepsType DEF DrawTypes
  <2>2. rows' = 0 /\ 0 \in -1 .. HEIGHT /\ UNCHANGED <<gram, frame, lost>>
    BY <1>2, PanelAssumption DEF OpenWindow, drawing
  <2>3. QED BY <1>1, <2>1, <2>2 DEF DrawTypes, None
<1>3. CASE PushRow(ok)
  <2>1. rows \in Nat /\ rows \in 0 .. HEIGHT - 1
    <3>1. rows \in 0 .. rows_per_bar * Bars - 1
      BY <1>3 DEF PushRow
    <3>2. rows_per_bar * Bars \in Nat
      BY RowsOnPanel, BarsAssumption, ProductIsNat
    <3>3. QED BY <3>1, <3>2, RowsOnPanel, PanelAssumption
  <2>2. Row(rows) \in Areas /\ Row(rows).w * Row(rows).h = WIDTH
    BY <2>1, PanelAssumption DEF Row, Areas
  <2>3. BarColour(rows) \in Colours
    BY <2>1, BarColours
  <2>4. gram' \in Contents
    <3>1. PICK n \in 0 .. WIDTH : PushPixels(rows * WIDTH, Rendered(Row(rows), BarColour(rows)), n)
      BY <1>3 DEF PushRow
    <3>2. \A i \in 1 .. n : Rendered(Row(rows), BarColour(rows))[i] \in Pixel
      <4>1. \A i \in 1 .. Row(rows).w * Row(rows).h :
              Rendered(Row(rows), BarColour(rows))[i] \in Pixel
        BY <2>2, <2>3, RenderedPixels
      <4>2. 1 .. n \subseteq 1 .. WIDTH
        BY PanelAssumption
      <4>3. QED BY <2>2, <4>1, <4>2
    <3>3. n \in Nat
      BY PanelAssumption
    <3>4. QED BY <3>1, <3>2, <3>3, FilledKeepsType DEF PushPixels, DrawTypes
  <2>5. frame' \in [Places -> Colours]
    BY <1>3, <2>3 DEF PushRow, DrawTypes
  <2>6. lost' \subseteq Places /\ rows' \in -1 .. HEIGHT /\ window' = window
    BY <1>3, <2>1, PanelAssumption DEF PushRow, DrawTypes
  <2>7. QED BY <1>1, <2>4, <2>5, <2>6 DEF DrawTypes, None
<1>4. QED BY <1>2, <1>3

(* Every register, pixel and counter keeps its range: no cursor leaves the *)
(* panel, whatever was refused.                                            *)
THEOREM PanelTypes == PanelSpec => []PanelTypeOK
<1> DEFINE Inv == BootInv /\ DrawInv /\ DrawTypes
<1>1. PanelInit => Inv
  BY BootInitially, DrawInitially, DrawTypesInitially
<1>2. Inv /\ [PanelNext]_panelVars => Inv'
  <2> SUFFICES ASSUME Inv, [PanelNext]_panelVars PROVE Inv'
    OBVIOUS
  <2>1. BootInv' /\ DrawInv'
    BY BootStep, DrawStep
  <2>2. ASSUME NEW power \in BOOLEAN, Reset(power)
        PROVE  DrawTypes'
    BY <2>2, Blank DEF Reset, DrawTypes
  <2>3. UNCHANGED panelVars => DrawTypes'
    BY DEF DrawTypes, panelVars, controller, pass, drawing, None
  <2>4. DrawTypes'
    BY <2>2, <2>3, BootKeepsTypes, RenderKeepsTypes, FlushKeepsTypes, BarsKeepTypes
    DEF PanelNext, flush_task, lcd_test
  <2>5. QED BY <2>1, <2>4, Zenon
<1>3. Inv => PanelTypeOK
  BY DEF BootInv, DrawTypes, PanelTypeOK, ControllerTypeOK, Windows, Contents
<1>4. QED BY <1>1, <1>2, <1>3, PTL DEF PanelSpec

---------------------------------------------------------------------------
(* Liveness of the render loop.  tlapm does not reason about ENABLED, so   *)
(* the theorem has as its hypothesis that the guards named below enable    *)
(* their actions; it holds in every state that can be reached.             *)

(* What LVGL and flush_task wait for. *)
RenderReady ==
  /\ Firmware
  /\ thread = "lvgl" /\ stripes > 0 => flushing = None /\ Dirty # {}
FlushReady == Firmware /\ flushing # None

(* A stripe not acknowledged is all that holds LVGL up, and the end of a   *)
(* pass all that holds up flush_task: the two actions PanelSpec is fair to.*)
PanelCanStep ==
  /\ RenderReady => ENABLED <<Render>>_panelVars
  /\ FlushReady => ENABLED <<flush_task>>_panelVars

Running == Firmware
Free == thread = "free"
Waiting == flushing # None
StripesLeft(n) == thread = "lvgl" /\ stripes = n

(* While the firmware runs nothing else touches its pass. *)
LEMMA RunningSteps ==
  ASSUME Firmware, Firmware', [PanelNext]_panelVars
  PROVE  Render \/ flush_task \/ UNCHANGED pass
BY DEF PanelNext, Boot, SetDirection, PullLow, PullHigh, InitPanel, Reset, lcd_test, OpenWindow,
       PushRow, LcdTest, Firmware, panelVars

AtMost(n) == thread = "lvgl" /\ stripes <= n

(* While n stripes are left LVGL hands over the next one as soon as        *)
(* flush_task has acknowledged the one before.                             *)
LEMMA StripeStep ==
  ASSUME PanelTypeOK, Running, Running', [PanelNext]_panelVars,
         NEW n \in Nat, StripesLeft(n)
  PROVE  /\ n = 0 => StripesLeft(0)' \/ Free'
         /\ n > 0 => StripesLeft(n)' \/ StripesLeft(n - 1)'
         /\ Waiting' /\ StripesLeft(n)' => Waiting
         /\ <<Render>>_panelVars => ~StripesLeft(n)'
         /\ <<flush_task>>_panelVars => ~Waiting'
<1> USE DEF Running, Free, Waiting, StripesLeft, pass
<1>1. Render => (n = 0 /\ Free') \/ (n > 0 /\ StripesLeft(n - 1)')
  <2>1. ~PassBegins
    BY DEF PassBegins
  <2>2. ASSUME NEW a \in Dirty, NEW colour \in Colours, HandOver(a, colour)
        PROVE  n > 0 /\ StripesLeft(n - 1)'
    BY <2>2 DEF HandOver
  <2>3. PassEnds => n = 0 /\ Free'
    BY DEF PassEnds
  <2>4. QED BY <2>1, <2>2, <2>3 DEF Render
<1>2. flush_task => ~Waiting' /\ StripesLeft(n)'
  BY DEF flush_task, Flush
<1>3. UNCHANGED pass => StripesLeft(n)' /\ (Waiting' => Waiting)
  OBVIOUS
<1>4. ~(Free' /\ StripesLeft(n)') /\ ~(StripesLeft(n - 1)' /\ StripesLeft(n)')
  OBVIOUS
<1>5. Render \/ flush_task \/ UNCHANGED pass
  BY RunningSteps
<1> HIDE DEF Running, Free, Waiting, StripesLeft, pass
<1>6. QED BY <1>1, <1>2, <1>3, <1>4, <1>5

(* main.rs:137, "they can never share an executor": LVGL waits for each    *)
(* flush on the thread executor, and flush_task answers on the other.  So  *)
(* a pass of at most twelve stripes, what a full refresh takes at 40 rows  *)
(* each (display.rs:23), always ends, and the tasks of the thread executor *)
(* get their turn.                                                         *)
THEOREM PassesEnd ==
  ASSUME MaxStripes <= 12, Dirty # {}
  PROVE  PanelSpec /\ []PanelCanStep => UiPassEnds
<1> DEFINE Step == PanelTypeOK /\ Running /\ Running' /\ [PanelNext]_panelVars
           Drawn(n, m) ==
             /\ Step /\ StripesLeft(n) =>
                  /\ StripesLeft(n)' \/ AtMost(m)'
                  /\ Waiting' /\ StripesLeft(n)' => Waiting
                  /\ <<Render>>_panelVars => ~StripesLeft(n)'
                  /\ <<flush_task>>_panelVars => ~Waiting'
             /\ PanelTypeOK /\ AtMost(n) => StripesLeft(n) \/ AtMost(m)
           Ends(n) ==
             PanelSpec /\ []PanelCanStep /\ <>[]Running => <>[](AtMost(n) => <>Free)
<1>1. PanelTypeOK => Free \/ AtMost(12)
  BY BarsAssumption DEF PanelTypeOK, Free, AtMost
<1>2. /\ Step /\ StripesLeft(0) =>
           /\ StripesLeft(0)' \/ Free'
           /\ <<Render>>_panelVars => ~StripesLeft(0)'
      /\ PanelTypeOK /\ AtMost(0) => StripesLeft(0)
  <2>1. PanelTypeOK /\ AtMost(0) => StripesLeft(0)
    BY BarsAssumption DEF PanelTypeOK, StripesLeft, AtMost
  <2>2. QED BY <2>1, StripeStep
<1>3. ASSUME NEW n \in Nat, NEW m \in Nat, n = m + 1
      PROVE  Drawn(n, m)
  <2>1. PanelTypeOK /\ AtMost(n) => StripesLeft(n) \/ AtMost(m)
    BY <1>3, BarsAssumption DEF PanelTypeOK, StripesLeft, AtMost
  <2>2. StripesLeft(n - 1)' => AtMost(m)'
    BY <1>3 DEF StripesLeft, AtMost
  <2>3. n > 0
    BY <1>3
  <2>4. QED BY <2>1, <2>2, <2>3, StripeStep
<1>4. /\ Running /\ StripesLeft(0) => RenderReady
      /\ Running /\ Waiting => FlushReady
  BY DEF Running, Waiting, StripesLeft, RenderReady, FlushReady
<1>5. Running /\ ~Waiting => RenderReady
  BY Zenon DEF Running, Waiting, RenderReady
<1> HIDE DEF Running, Free, Waiting, StripesLeft, AtMost
<1>6. Ends(0)
  BY <1>2, <1>4, PanelTypes, PTL DEF PanelSpec, PanelCanStep
<1>7. Ends(1)
  <2>1. Drawn(1, 0)
    BY <1>3
  <2>2. QED BY <1>4, <1>5, <1>6, <2>1, PanelTypes, PTL DEF PanelSpec, PanelCanStep
<1>8. Ends(2)
  <2>1. Drawn(2, 1)
    BY <1>3
  <2>2. QED BY <1>4, <1>5, <1>7, <2>1, PanelTypes, PTL DEF PanelSpec, PanelCanStep
<1>9. Ends(3)
  <2>1. Drawn(3, 2)
    BY <1>3
  <2>2. QED BY <1>4, <1>5, <1>8, <2>1, PanelTypes, PTL DEF PanelSpec, PanelCanStep
<1>10. Ends(4)
  <2>1. Drawn(4, 3)
    BY <1>3
  <2>2. QED BY <1>4, <1>5, <1>9, <2>1, PanelTypes, PTL DEF PanelSpec, PanelCanStep
<1>11. Ends(5)
  <2>1. Drawn(5, 4)
    BY <1>3
  <2>2. QED BY <1>4, <1>5, <1>10, <2>1, PanelTypes, PTL DEF PanelSpec, PanelCanStep
<1>12. Ends(6)
  <2>1. Drawn(6, 5)
    BY <1>3
  <2>2. QED BY <1>4, <1>5, <1>11, <2>1, PanelTypes, PTL DEF PanelSpec, PanelCanStep
<1>13. Ends(7)
  <2>1. Drawn(7, 6)
    BY <1>3
  <2>2. QED BY <1>4, <1>5, <1>12, <2>1, PanelTypes, PTL DEF PanelSpec, PanelCanStep
<1>14. Ends(8)
  <2>1. Drawn(8, 7)
    BY <1>3
  <2>2. QED BY <1>4, <1>5, <1>13, <2>1, PanelTypes, PTL DEF PanelSpec, PanelCanStep
<1>15. Ends(9)
  <2>1. Drawn(9, 8)
    BY <1>3
  <2>2. QED BY <1>4, <1>5, <1>14, <2>1, PanelTypes, PTL DEF PanelSpec, PanelCanStep
<1>16. Ends(10)
  <2>1. Drawn(10, 9)
    BY <1>3
  <2>2. QED BY <1>4, <1>5, <1>15, <2>1, PanelTypes, PTL DEF PanelSpec, PanelCanStep
<1>17. Ends(11)
  <2>1. Drawn(11, 10)
    BY <1>3
  <2>2. QED BY <1>4, <1>5, <1>16, <2>1, PanelTypes, PTL DEF PanelSpec, PanelCanStep
<1>18. Ends(12)
  <2>1. Drawn(12, 11)
    BY <1>3
  <2>2. QED BY <1>4, <1>5, <1>17, <2>1, PanelTypes, PTL DEF PanelSpec, PanelCanStep
<1>19. PanelSpec /\ []PanelCanStep /\ <>[]Running => []<>Free
  BY <1>1, <1>18, PanelTypes, PTL
<1>20. QED BY <1>19 DEF UiPassEnds, Running, Free
===========================================================================
