------------------------------- MODULE St7796 ------------------------------
(***************************************************************************)
(* The panel's driver and its controller.  A drawing sets a window with    *)
(* three commands and streams pixels, which fill the window row by row and *)
(* start over at its end.  A pixel on the wire is modelled by the place it *)
(* was rendered for and a colour.                                          *)
(***************************************************************************)
EXTENDS Integers, Sequences

CONSTANTS WIDTH, HEIGHT,
          Colours,
          Dirty       \* areas LVGL may find to be drawn anew

ASSUME PanelAssumption ==
  /\ WIDTH \in Nat \ {0} /\ HEIGHT \in Nat \ {0}
  /\ Colours \subseteq Nat /\ 0 \in Colours /\ 1 \in Colours

VARIABLES display,    \* the controller: "unknown", "reset" or "on"
          window,     \* the drawing window, inclusive
          gram        \* what each pixel of the panel shows

controller == <<display, window, gram>>

Places == (0 .. WIDTH - 1) \X (0 .. HEIGHT - 1)
Pixel == [at : Places, colour : Colours]
Undefined == [at |-> <<-1, -1>>, colour |-> 0]

(* The rectangles on the panel. *)
Areas ==
  {a \in [x : 0 .. WIDTH - 1, y : 0 .. HEIGHT - 1, w : 1 .. WIDTH, h : 1 .. HEIGHT] :
     a.x + a.w <= WIDTH /\ a.y + a.h <= HEIGHT}

InArea(a) == {p \in Places : p[1] \in a.x .. a.x + a.w - 1 /\ p[2] \in a.y .. a.y + a.h - 1}

ASSUME DirtyAssumption == Dirty \subseteq Areas

WholePanel == [x |-> 0, y |-> 0, w |-> WIDTH, h |-> HEIGHT]

(* Mutant of WindowOf: the ends are exclusive.                             *)
WindowOfExclusive(a) == [x0 |-> a.x, y0 |-> a.y, x1 |-> a.x + a.w, y1 |-> a.y + a.h]

WindowOf(a) == [x0 |-> a.x, y0 |-> a.y, x1 |-> a.x + a.w - 1, y1 |-> a.y + a.h - 1]

(* The pixels of an area of one colour, row by row. *)
Rendered(a, colour) ==
  [k \in 1 .. a.w * a.h |->
     [at |-> <<a.x + ((k - 1) % a.w), a.y + ((k - 1) \div a.w)>>, colour |-> colour]]

(* The check at the head of show_raw_data.  What LVGL hands over fits, so  *)
(* its error return is not among the outcomes below.                       *)
Fits(a, data) == a.x + a.w <= WIDTH /\ a.y + a.h <= HEIGHT /\ Len(data) >= a.w * a.h

(* Where the k-th pixel since the RAM write command goes. *)
Cursor(win, k) ==
  LET cols == win.x1 - win.x0 + 1
      rows == win.y1 - win.y0 + 1
  IN <<win.x0 + (k % cols), win.y0 + ((k \div cols) % rows)>>

(* The contents g after n pixels of data have gone into a window that had  *)
(* taken k before; n never exceeds what the window holds.                  *)
Filled(g, win, k, data, n) ==
  [p \in Places |->
     IF \E i \in 1 .. n : Cursor(win, k + i - 1) = p
     THEN data[CHOOSE i \in 1 .. n : Cursor(win, k + i - 1) = p]
     ELSE g[p]]

ControllerTypeOK ==
  /\ display \in {"unknown", "reset", "on"}
  /\ window \in [x0 : 0 .. WIDTH - 1, x1 : 0 .. WIDTH - 1,
                 y0 : 0 .. HEIGHT - 1, y1 : 0 .. HEIGHT - 1]
  /\ gram \in [Places -> Pixel \cup {Undefined}]

(* set_window: CASET and RASET, each a command byte and its parameters,    *)
(* then RAMWR.  The first taken of the five writes have an effect.         *)
SetWindow(win, taken) ==
  window' = [x0 |-> IF taken >= 2 THEN win.x0 ELSE window.x0,
             x1 |-> IF taken >= 2 THEN win.x1 ELSE window.x1,
             y0 |-> IF taken >= 4 THEN win.y0 ELSE window.y0,
             y1 |-> IF taken >= 4 THEN win.y1 ELSE window.y1]

(* push_pixels: the first n pixels of data go into the window that has     *)
(* taken k since its RAM write command.                                    *)
PushPixels(k, data, n) == gram' = Filled(gram, window', k, data, n)

ShowWhole(a, data) ==
  /\ Fits(a, data)
  /\ SetWindow(WindowOf(a), 5)
  /\ PushPixels(0, data, a.w * a.h)

(* Mutant of ShowWindowRefused: the pixels follow whatever became of the   *)
(* window.                                                                 *)
ShowWindowRefusedGoesOn(a, data) ==
  /\ Fits(a, data)
  /\ \E taken \in 0 .. 5 : SetWindow(WindowOf(a), taken)
  /\ PushPixels(0, data, a.w * a.h)

(* One of the writes of set_window is refused: no pixel follows.  The      *)
(* refused write may have been taken.                                      *)
ShowWindowRefused(a, data) ==
  /\ Fits(a, data)
  /\ \E taken \in 0 .. 5 : SetWindow(WindowOf(a), taken)
  /\ UNCHANGED gram

(* The stream of pixels breaks off. *)
ShowPixelsRefused(a, data) ==
  /\ Fits(a, data)
  /\ SetWindow(WindowOf(a), 5)
  /\ \E n \in 0 .. a.w * a.h : PushPixels(0, data, n)

show_raw_data(a, data, ok) ==
  IF ok THEN ShowWhole(a, data) ELSE ShowWindowRefused(a, data) \/ ShowPixelsRefused(a, data)

(* SWRESET to DISPON, without an await.  The soft reset leaves the memory  *)
(* undefined and the window whole.                                         *)
init(ok) ==
  /\ display' = IF ok THEN "on" ELSE "reset"
  /\ gram' = [p \in Places |-> Undefined]
  /\ window' = WindowOf(WholePanel)
===========================================================================
