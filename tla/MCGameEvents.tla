---------------------------- MODULE MCGameEvents ----------------------------
(***************************************************************************)
(* GameEvents with two slots and two users.  Every command line of up to   *)
(* three arguments is tried on files that are not dumped; those that lead  *)
(* to different dumps are tried on a demo.                                 *)
(***************************************************************************)
EXTENDS GameEvents, TLC

File(length, stamp, protocol) ==
    [length |-> length, demofilestamp |-> stamp, demoprotocol |-> protocol]
MCFiles ==
    "demo" :> File(2000, "HL2DEMO", 4) @@ "/demo" :> File(2000, "HL2DEMO", 4)
    @@ "short" :> File(1000, "HL2DEMO", 4) @@ "header" :> File(1072, "HL2DEMO", 4)
    @@ "stamp" :> File(2000, "other", 4) @@ "protocol" :> File(2000, "HL2DEMO", 3)

Arguments == Options \union {"/other", "header", "stamp"}
Refused == UNION {[1 .. n -> Arguments] : n \in 0 .. 3}
Dumped ==
    {<<"demo">>, <<"demo", "gameevents", "extrainfo", "nofootsteps">>,
     <<"gameevents", "demo", "deathscsv", "nowarmup">>,
     <<"/demo", "deathscsv", "packetentities">>,
     <<"deathscsv", "/demo">>, <<"short">>, <<"protocol", "gameevents">>}
MCCommands == Refused \union Dumped

Event(eventid, name) == [eventid |-> eventid, name |-> name]
MCEventLists ==
    {<<Event(8, "player_connect"), Event(9, "player_disconnect"), Event(23, "player_death"),
       Event(31, "round_announce_match_start"), Event(40, "player_footstep"), Event(41, "player_jump")>>,
     <<Event(8, "player_death"), Event(23, "player_connect"), Event(24, "player_disconnect"),
       Event(40, "round_announce_match_start")>>}

MCUpdates == {PropNames, {"m_vecOrigin", "m_iTeamNum"}}
=============================================================================
