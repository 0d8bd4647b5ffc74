SPECIFICATION Spec
CONSTANTS
  None = None
  ByteSize = 6
  Pens <- MCPens
  Brushes <- MCBrushes
  DrawModes <- MCDrawModes
  Fonts <- MCFonts
  Rows <- MCRows
  LineCaps <- MCLineCaps
  MAXSOFTFONTS = 2
  MaxDepth = 1
  Programs <- MCEnds
INVARIANT EndsAsAsked
