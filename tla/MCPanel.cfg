SPECIFICATION PanelSpec
CONSTANTS
  Pins = {1, 7}
  EXIO_LCD_RST = 1
  WIDTH = 2
  HEIGHT = 2
  Colours = {0, 1}
  Dirty <- FourAreas
  MaxStripes = 2
  Bars = 2
INVARIANTS PanelTypeOK ExpanderUndisturbed StripesLand
PROPERTIES InitAfterReset UiPassEnds
