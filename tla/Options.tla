------------------------------ MODULE Options ------------------------------
(***************************************************************************)
(* main of src/demoinfogo.cpp and CDemoFile::Open: the arguments decide    *)
(* what is printed and which file is read, in the order in which they are  *)
(* given, and only a file with the header of a demo is dumped.             *)
(***************************************************************************)
EXTENDS Naturals, Sequences

CONSTANTS
    Commands,       \* what the program may be called with, but for its name
    AbsolutePaths,  \* the arguments that begin with a slash
    Files           \* of an argument that names a file, its length and header

ASSUME CommandsAssumption == \A command \in Commands : command \in Seq(STRING)
ASSUME FilesAssumption == \A f \in DOMAIN Files : Files[f].length \in Nat

VARIABLES
    argv,
    i,              \* the argument at hand
    nFileArgument,
    flags,          \* the g_b variables that are true
    main            \* "arguments", "open", "exit", "dump"

mainVars == <<argv, i, nFileArgument, flags, main>>
-----------------------------------------------------------------------------
(* The variables that select something, and those that leave some of it out*)
Dumps ==
    {"g_bDumpGameEvents", "g_bShowExtraPlayerInfoInGameEvents", "g_bDumpDeaths", "g_bDumpStringTables",
     "g_bDumpDataTables", "g_bDumpPacketEntities", "g_bDumpNetMessages"}
Suppressions == {"g_bSupressFootstepEvents", "g_bSupressWarmupDeaths"}

(* What an option switches on, and what it switches off.                   *)
On ==
    [gameevents |-> "g_bDumpGameEvents", nofootsteps |-> "g_bSupressFootstepEvents",
     extrainfo |-> "g_bShowExtraPlayerInfoInGameEvents", deathscsv |-> "g_bDumpDeaths",
     nowarmup |-> "g_bSupressWarmupDeaths", stringtables |-> "g_bDumpStringTables",
     datatables |-> "g_bDumpDataTables", packetentities |-> "g_bDumpPacketEntities",
     netmessages |-> "g_bDumpNetMessages"]
Off(option) ==
    CASE option = "gameevents" -> {"g_bSupressFootstepEvents", "g_bShowExtraPlayerInfoInGameEvents"}
      [] option = "deathscsv"  -> {"g_bSupressWarmupDeaths"}
      [] OTHER                 -> {}

Options == DOMAIN On
StartsAsOption(arg) == arg \in Options \union AbsolutePaths

(* Mutant: what leaves something out stays.                                *)
OnlyOn(option) == flags \union {On[option]}
Switched(option) == (flags \ Off(option)) \union {On[option]}
-----------------------------------------------------------------------------
MainInit ==
    /\ argv \in Commands
    /\ i = 1 /\ nFileArgument = 1
    /\ flags = Suppressions
    /\ main = "arguments"

Usage ==
    /\ main = "arguments" /\ argv = <<>>
    /\ main' = "exit"
    /\ UNCHANGED <<argv, i, nFileArgument, flags>>

(* A single argument is the file, whatever it looks like.                  *)
DumpEverything ==
    /\ main = "arguments" /\ Len(argv) = 1
    /\ flags' = Dumps
    /\ main' = "open"
    /\ UNCHANGED <<argv, i, nFileArgument>>

More == main = "arguments" /\ Len(argv) > 1 /\ i <= Len(argv)

(* What starts as an option and is none of them is passed over.            *)
Option ==
    /\ More
    /\ StartsAsOption(argv[i])
    /\ flags' = IF argv[i] \in Options THEN Switched(argv[i]) ELSE flags
    /\ i' = i + 1
    /\ UNCHANGED <<argv, nFileArgument, main>>

(* Mutant: the file stays the first argument.                              *)
FirstArgument(n) == nFileArgument
ThisArgument(n) == n
FileArgument ==
    /\ More
    /\ ~StartsAsOption(argv[i])
    /\ nFileArgument' = ThisArgument(i)
    /\ i' = i + 1
    /\ UNCHANGED <<argv, flags, main>>

EndArguments ==
    /\ main = "arguments" /\ Len(argv) > 1 /\ i > Len(argv)
    /\ main' = "open"
    /\ UNCHANGED <<argv, i, nFileArgument, flags>>

(* A file that ends with its header is taken for one that was not opened.  *)
HeaderSize == 1072
DEMO_PROTOCOL == 4
Opens(name) ==
    /\ name \in DOMAIN Files
    /\ Files[name].length >= HeaderSize
    /\ Files[name].demofilestamp = "HL2DEMO"
    /\ Files[name].demoprotocol = DEMO_PROTOCOL
    /\ Files[name].length - HeaderSize > 0

Open ==
    /\ main = "open"
    /\ main' = IF Opens(argv[nFileArgument]) THEN "dump" ELSE "exit"
    /\ UNCHANGED <<argv, i, nFileArgument, flags>>

MainStep == Usage \/ DumpEverything \/ Option \/ FileArgument \/ EndArguments \/ Open
-----------------------------------------------------------------------------
Given(option) == \E k \in DOMAIN argv : argv[k] = option
Everything == Len(argv) = 1

(* usage: "Should be after -gameevents", "Should be after -deaths".        *)
After(option, first) ==
    \A j, k \in DOMAIN argv : argv[j] = option /\ argv[k] = first => k < j
InOrder ==
    /\ After("nofootsteps", "gameevents") /\ After("extrainfo", "gameevents")
    /\ After("nowarmup", "deathscsv")

(* The file is the first argument, as in the usage, or the only one that   *)
(* does not start as an option.                                            *)
Named(name) ==
    LET files == {k \in DOMAIN argv : ~StartsAsOption(argv[k])}
    IN  \/ argv # <<>> /\ argv[1] = name /\ files \subseteq {1}
        \/ \E k \in DOMAIN argv : argv[k] = name /\ files = {k}
=============================================================================
