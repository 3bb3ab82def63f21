----------------------------- MODULE MCDemoDump -----------------------------
(***************************************************************************)
(* DemoDump on every recording of up to MaxFrames frames and a last one,   *)
(* each file cut short by up to MaxCut fields.  Message 3 has no handler.  *)
(* Sizes below zero lead back to the field they are read behind, or in     *)
(* front of the buffer; an int ends at 128.                                *)
(***************************************************************************)
EXTENDS DemoDump

CONSTANTS MaxFrames, Frames, LastFrames

Message(c, size, len) == [cmd |-> c, size |-> size, len |-> len]
FrameOf(c, size, msgs) == [cmd |-> c, size |-> size, msgs |-> msgs]

Known1 == Message(4, 1, 1)
Known2 == Message(26, 2, 2)
Empty == Message(0, 0, 0)
Unknown == Message(3, 1, 1)
TooLong == Message(26, 2, 1)
TooShort == Message(26, 1, 2)
Backwards == Message(26, -2, 0)
FurtherBack == Message(26, -5, 0)
FarBack == Message(3, -16, 1)
Overflowing == Message(3, 126, 1)

Packet(c, msgs) == FrameOf(c, 0, msgs)
Stop == FrameOf(dem_stop, 0, <<>>)
CustomData == FrameOf(dem_customdata, 2, <<>>)

MCFrames ==
    { FrameOf(dem_synctick, 0, <<>>),
      FrameOf(dem_consolecmd, 1, <<>>),
      FrameOf(dem_usercmd, 2, <<>>),
      FrameOf(dem_datatables, 2, <<>>),
      FrameOf(dem_stringtables, 0, <<>>),
      FrameOf(dem_stringtables, 5, <<>>),
      Packet(dem_signon, <<>>),
      Packet(dem_signon, <<Known1, Unknown, Known2>>),
      Packet(dem_packet, <<Unknown, Empty>>),
      Packet(dem_packet, <<Known1, TooLong, Empty>>),
      Packet(dem_packet, <<Known2, Known2, Known2>>),
      Packet(dem_packet, <<Known1, Unknown, TooShort>>),
      CustomData }

(* A few of them, for longer recordings and for those a game may cut.      *)
CustomFrames ==
    { Packet(dem_packet, <<Known1, Unknown, Known2>>), CustomData }

MCLastFrames ==
    { Stop,
      FrameOf(dem_usercmd, 1, <<>>),
      FrameOf(dem_datatables, 1, <<>>),
      Packet(dem_packet, <<Known1, Backwards>>),
      Packet(dem_packet, <<Unknown, FurtherBack>>),
      Packet(dem_packet, <<FarBack, Known1>>),
      Packet(dem_packet, <<Overflowing, Known1>>) }
OnlyStop == {Stop}

MCGarbage ==
    [ cmd |-> {0, 2, 4, 11}, size |-> {2, 11, -4, -100},
      mcmd |-> {3, 26}, msize |-> {1, 11, -2, 126} ]

MCRecordings ==
    {Append(r, last) : r \in UNION {[1 .. n -> Frames] : n \in 0 .. MaxFrames},
                       last \in LastFrames}
=============================================================================
