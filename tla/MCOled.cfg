CONSTANTS
  W = 2
  H = 2
  Tab = 2
  Letters = {"a", "b"}
  Blank = "blank"
  Width = 8
  Chips = {"SH1106", "SSD1306"}
SPECIFICATION Spec
PROPERTIES
  Prints
  NoGhost
