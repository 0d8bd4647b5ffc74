----------------------------- MODULE MCPsState -----------------------------
(* Small sets of pens, brushes, fonts and rows for PsState.                *)
EXTENDS PsState

MCPens == {[style |-> "solid", width |-> 0, color |-> "black"],
           [style |-> "dash",  width |-> 2, color |-> "red"],
           [style |-> LSNoLine, width |-> 1, color |-> "red"]}
MCBrushes == {[style |-> "solid",   color |-> "red",   bk |-> None,  tile |-> None],
              [style |-> "hatched", color |-> "black", bk |-> "red", tile |-> "cross"],
              [style |-> "pattern", color |-> None,    bk |-> None,  tile |-> "bits"],
              [style |-> "pattern", color |-> None,    bk |-> None,  tile |-> "dots"],
              Hollow}
MCDrawModes == {[opaque |-> FALSE, bkColor |-> "white", TextColor |-> "red"],
                [opaque |-> TRUE,  bkColor |-> "red",   TextColor |-> "black"]}
MCFonts == {[lid |-> "resident", iFont |-> 1, soft |-> FALSE],
            [lid |-> "soft10",   iFont |-> 2, soft |-> TRUE],
            [lid |-> "soft12",   iFont |-> 2, soft |-> TRUE],
            [lid |-> "other",    iFont |-> 3, soft |-> TRUE],
            [lid |-> "third",    iFont |-> 4, soft |-> TRUE]}
MCLineCaps == {Default, 2}
\* The codes tell only whether bytes are alike: each row begins with 1.
MCRows == {row \in UNION {[1 .. n -> {1, 2}] : n \in {1, 2, 3, 6}} : row[1] = 1}
MCPrograms ==
  {{"PATBLT", "ExtTextOut", "NEWFRAME"},
   {"PATBLT", "Image", "NEWFRAME"},
   {"POLYLINE", "Image", "NEWFRAME"},
   {"RECTANGLE", "ELLIPSE", "POLYLINE", "NEWFRAME"},
   {"POLYGON", "SCANLINES", "NEWFRAME"},
   {"ARC", "POLYLINE", "BEGIN_PATH"},
   {"ARC", "SET_ARC_DIRECTION", "NEWFRAME"},
   {"POLYLINE", "SCANLINES", "BEGIN_PATH"},
   {"POLYLINE", "SETLINECAP", "NEWFRAME"},
   {"PATBLT", "POLYLINE", "CLIP_TO_PATH"},
   {"ExtTextOut", "CLIP_TO_PATH", "NEWFRAME"},
   {"Image", "CLIP_TO_PATH"}}

MCEnds == {{"POLYLINE", "NEWFRAME"}}
=============================================================================
