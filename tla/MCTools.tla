------------------------------ MODULE MCTools ------------------------------
(***************************************************************************)
(* Model checking instance of the programs that are one thread.  They have *)
(* nothing in common; one of them runs, on one of its inputs, and the      *)
(* others wait in one of their initial states.                             *)
(***************************************************************************)
EXTENDS MicrocodeWalk, SpeedControl, FirmwareExtract, TextFilters, AecramUtil,
        HeldResource, MCSessions, BacklightLookup, DaemonStart, Container, AccessBlocker,
        KdumpTransfer

VARIABLE tool

filters == <<urlVars, caseVars>>
files   == <<walkVars, speedVars, extractVars>>
queries == <<utilVars, holdVars, sessVars, lookVars>>
rest    == <<startVars, conVars, hookVars, kdumpVars>>
MCVars  == <<tool, filters, files, queries, rest>>

-----------------------------------------------------------------------------
(* Inputs *)

\* The number of characters of a line.
MaxUrl  == 6
MaxCase == 5

\* '%', "2" and "5", which encode it, and a character that is no digit.
MCUrlLines  == UNION {[1 .. n -> {Percent, 50, 53, 97}] : n \in 0 .. MaxUrl}
MCCaseLines == UNION {[1 .. n -> {"A", "b", " ", "1"}] : n \in 0 .. MaxCase}

\* Offsets and lengths at the bounds, and those that are 0 as a field.
MCDumps == [offset: {0, 1, 4, 6, 7, 15, 16}, length: {0, 1, 2, 3, 4, 7, 8, 10}]

\* Up to three nodes; what is no link, or has another name, can be anything.
MCPaths == {<<"bus">>, <<"ours">>, <<"bus", "ours">>, <<"other", "ours">>, <<"bus", "other">>}
MCNodes == [link: {TRUE}, prefix: {TRUE}, path: MCPaths]
           \cup [link: BOOLEAN, prefix: {FALSE}, path: {<<"ours">>}]
MCLookDirectories == UNION {[1 .. n -> MCNodes] : n \in 0 .. 3}

\* The daemon is started as root, with a group of root's, or as the user.
MCCreds   == {[uid |-> 0, gid |-> 0, groups |-> {0, 10}], [uid |-> 7, gid |-> 9, groups |-> {8}]}
MCPasswds == {[uid |-> 0, groups |-> {}], [uid |-> 7, groups |-> {9}]}

-----------------------------------------------------------------------------
(* One tool *)

FilesInit ==
    /\ IF tool = "walk" THEN WalkInit
       ELSE walkPc = "outer" /\ size = 0 /\ pos = 0 /\ available = 0 /\ tableLeft = 0
            /\ tableRead = 0 /\ entries = 0 /\ patches = 0
    /\ IF tool = "speed" THEN SpeedInit
       ELSE speedPc = "start" /\ speed = 0 /\ readSize = 0 /\ restore = FALSE /\ drive = "nothing"
    /\ IF tool = "extract" THEN ExtractInit
       ELSE extractPc = "locate" /\ len = 0 /\ idents = {} /\ headers = {} /\ it = 0

FiltersInit ==
    /\ IF tool = "url" THEN UrlInit
       ELSE urlLine = <<>> /\ urlPos = 1 /\ urlOut = <<>>
    /\ IF tool = "case" THEN CaseInit
       ELSE caseLine = <<>> /\ casePos = 1 /\ caseOut = <<>> /\ lineBegin = TRUE /\ wordBegin = FALSE

QueriesInit ==
    /\ IF tool = "util" THEN UtilInit
       ELSE utilPc = "check" /\ dump = [offset |-> 0, length |-> 0] /\ printed = <<>>
            /\ request = [offset |-> 0, length |-> 0, buffer |-> NothingRead]
    /\ IF tool = "hold" THEN HoldInit
       ELSE holdPc = "acquire" /\ holder = "pulse_bs2b" /\ handlers = 2 /\ held = FALSE
    /\ IF tool = "sessions" THEN SessInit
       ELSE sessPc = "walk" /\ program = "active_user" /\ sessions = <<>> /\ s = 1 /\ ret = 0
            /\ userId = Nobody /\ euid = 1000 /\ lost = FALSE
    /\ IF tool = "lookup" THEN LookInit
       ELSE lookPc = "next" /\ dir = <<>> /\ at = 0 /\ climb = 1 /\ vanished = FALSE

RestInit ==
    /\ IF tool = "start" THEN StartInit
       ELSE startPc = "config" /\ hasUser = FALSE /\ hasGroup = FALSE /\ passwd = None
            /\ group = None /\ begun = [uid |-> 0, gid |-> 0, groups |-> {}] /\ cred = begun
            /\ socket = None
    /\ IF tool = "container" THEN ContainerInit
       ELSE conPc = "idle" /\ mode = "open" /\ name = "home" /\ uuid = 1 /\ key = 0
            /\ crypt = "none" /\ stdin = 0 /\ mapping = [n \in Names |-> NoUuid] /\ devices = {}
    /\ IF tool = "blocker" THEN HookInit
       ELSE hookAt = 1 /\ blocked = <<0, 0>> /\ made = <<1, 2>> /\ nodes = <<NoInode, NoInode>>
            /\ seen = nodes /\ realFunc = [f \in Functions |-> TRUE]
            /\ call = [fn |-> "drmGetVersion", fs |-> "dev", ino |-> 0, stat |-> TRUE, real |-> TRUE]
    /\ IF tool = "kdump" THEN KdumpInit
       ELSE kernel = <<"up", "up">> /\ pong = <<0, 0>> /\ online = Machines /\ now = 1
            /\ recv = <<>> /\ dumps = <<NoFile, NoFile>>

Ending   == {"walk", "speed", "extract", "url", "case", "util", "hold", "sessions", "lookup"}
Repeated == {"start", "container", "blocker", "kdump"}

MCInit == tool \in Ending \cup Repeated /\ FilesInit /\ FiltersInit /\ QueriesInit /\ RestInit

FilesNext ==
    \/ tool = "walk" /\ WalkNext /\ UNCHANGED <<speedVars, extractVars>>
    \/ tool = "speed" /\ SpeedNext /\ UNCHANGED <<walkVars, extractVars>>
    \/ tool = "extract" /\ ExtractNext /\ UNCHANGED <<walkVars, speedVars>>

FiltersNext ==
    \/ tool = "url" /\ UrlNext /\ UNCHANGED caseVars
    \/ tool = "case" /\ CaseNext /\ UNCHANGED urlVars

QueriesNext ==
    \/ tool = "util" /\ UtilNext /\ UNCHANGED <<holdVars, sessVars, lookVars>>
    \/ tool = "hold" /\ HoldNext /\ UNCHANGED <<utilVars, sessVars, lookVars>>
    \/ tool = "sessions" /\ SessNext /\ UNCHANGED <<utilVars, holdVars, lookVars>>
    \/ tool = "lookup" /\ LookNext /\ UNCHANGED <<utilVars, holdVars, sessVars>>

RestNext ==
    \/ tool = "start" /\ StartNext /\ UNCHANGED <<conVars, hookVars, kdumpVars>>
    \/ tool = "container" /\ ContainerNext /\ UNCHANGED <<startVars, hookVars, kdumpVars>>
    \/ tool = "blocker" /\ HookNext /\ UNCHANGED <<startVars, conVars, kdumpVars>>
    \/ tool = "kdump" /\ KdumpNext /\ UNCHANGED <<startVars, conVars, hookVars>>

MCNext ==
    /\ UNCHANGED tool
    /\ \/ FilesNext /\ UNCHANGED <<filters, queries, rest>>
       \/ FiltersNext /\ UNCHANGED <<files, queries, rest>>
       \/ QueriesNext /\ UNCHANGED <<files, filters, rest>>
       \/ RestNext /\ UNCHANGED <<files, filters, queries>>

\* A tool does not stop on its own before its end, and a signal comes in the end.
MCSpec == MCInit /\ [][MCNext]_MCVars /\ WF_MCVars(MCNext)

-----------------------------------------------------------------------------

\* Every tool that does one thing ends, on every input: no file makes the search
\* for a blob or the walk over the sections go on forever, no line a filter, no
\* chain of devices or sessions a lookup; and who waits for a signal ends with
\* one, even when another was lost before.
ToolsEnd ==
    <>CASE tool = "walk"     -> walkPc \in {"done", "error"}
        [] tool = "speed"    -> speedPc \in {"done", "failed", "refused"}
        [] tool = "extract"  -> extractPc \in {"done", "failed", "not found", "no space"}
        [] tool = "url"      -> urlPos = Len(urlLine) + 1
        [] tool = "case"     -> casePos = Len(caseLine) + 1
        [] tool = "util"     -> utilPc \in {"done", "failed"}
        [] tool = "hold"     -> holdPc \in {"ended", "failed", "killed"}
        [] tool = "sessions" -> sessPc \in {"found", "none"}
        [] tool = "lookup"   -> lookPc \in {"found", "none"}
        [] tool \in Repeated -> TRUE

=============================================================================
