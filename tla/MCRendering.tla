---------------------------- MODULE MCRendering ----------------------------
(* The sources of a phone's library, for TLC. *)
EXTENDS Rendering

Stream(shows, area, gray) == [codec |-> "video", area |-> area, gray |-> gray, shows |-> shows]
Sound == [codec |-> "audio", area |-> 0, gray |-> FALSE, shows |-> "sound"]
Group(shows, primary, tiles) == [primary |-> primary, tiles |-> tiles, sized |-> TRUE, shows |-> shows]

Photo(groups, streams) == [media |-> "photo", groups |-> groups, streams |-> streams, height |-> 0]
Video(streams, height) == [media |-> "video", groups |-> <<>>, streams |-> streams, height |-> height]

\* An iPhone's grid of tiles with its gain map and its washed-out preview, in
\* three orders, and with no group marked; one whose grid cannot be used; a HEIC
\* of one item with a gain map and a preview, each listed last; a JPEG in colour
\* and one in gray; clips with and without sound, small, large, of unknown height.
Library ==
  LET tiles == <<Stream("tile", 1, FALSE), Stream("tile", 1, FALSE), Stream("gain", 2, TRUE),
                 Stream("preview", 2, FALSE)>>
      grid == Group("photo", TRUE, 2)
      gain == Group("gain", FALSE, 1)
      preview == Group("preview", FALSE, 1)
      photo == Stream("photo", 2, FALSE)
  IN {Photo(<<grid, gain, preview>>, tiles), Photo(<<gain, preview, grid>>, tiles),
      Photo(<<preview, grid, gain>>, tiles),
      Photo(<<gain, preview, [grid EXCEPT !.primary = FALSE]>>, tiles),
      Photo(<<[grid EXCEPT !.sized = FALSE], preview>>,
            <<photo, Stream("gain", 3, TRUE), Stream("preview", 1, FALSE)>>),
      Photo(<<>>, <<Stream("preview", 1, FALSE), photo, Stream("gain", 2, TRUE)>>),
      Photo(<<>>, <<photo>>), Photo(<<>>, <<Stream("photo", 2, TRUE)>>),
      Video(<<Stream("frame", 2, FALSE), Sound>>, 1080), Video(<<Stream("frame", 2, FALSE)>>, 540),
      Video(<<Stream("frame", 2, FALSE), Sound>>, 0)}
=============================================================================
