SPECIFICATION Spec
CONSTANTS
  Texts <- MCTexts
  PanicTexts <- MCPanicTexts
  FONT_WIDTH = 1
  FONT_HEIGHT = 2
  FONT_SPACE_Y = 3
  DEFAULT_FG = DEFAULT_FG
  defaultX = 2
  Height = 15
  MaxStrings = 3
  MaxExceptions = 2
INVARIANTS
  TypeOK
  ColourFollowsText
  CursorFollowsText
  NumberFits
