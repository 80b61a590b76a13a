----------------------------- MODULE MCAgentHost -----------------------------
(***************************************************************************)
(* The components of an agent's host that share no state, side by side: a  *)
(* behaviour is one of the component that the variable "part" names, and   *)
(* the others stay in an initial state.                                    *)
(***************************************************************************)
EXTENDS GridMap, Grouping, FileCommands, AgentBoot, StorageRate, HostCommands, DiskUsage

CONSTANTS f1, f2    \* command threads of FileCommands
VARIABLE part

MCSystemLines == << <<"sys", 1>>, <<"sys", 2>> >>
MCPushes == {<<"a">>, <<"a", "b">>}

\* Trees with a subdirectory, empty files, a link and files above the bound
MCGroupRoot == <<"r">>
MCTrees == { (<<"r">> :> DirOf({}) @@ <<"r","a">> :> FileOf(x, 1, {}) @@ <<"r","d">> :> DirOf({})
      @@ <<"r","d","b">> :> FileOf(y, 2, {}) @@ <<"r","d","c">> :> FileOf(z, 3, {}) @@ <<"r","e">> :> e) :
          x \in 0..2, y \in 0..2, z \in 0..2,
          e \in {LinkTo(<<"r","a">>, {}), FileOf(0, 4, {}), FileOf(3, 4, {})} }
MCOrders == { <<"a","b","c","d","e">>, <<"e","d","c","b","a">>, <<"d","a","e","c","b">> }

\* A directory with a file the user cannot read, links into and out of the data
\* folders, and a directory of equal files
MCSource == (<<"r">> :> DirOf({"u"}) @@ <<"r","a">> :> FileOf(3, 1, {"u"}) @@ <<"r","d">> :> DirOf({"u"})
    @@ <<"r","d","b">> :> FileOf(1, 2, {"u"}) @@ <<"r","d","c">> :> FileOf(1, 3, {})
    @@ <<"r","l">> :> LinkTo(<<"x">>, {"u"}) @@ <<"x">> :> FileOf(3, 5, {"u"})
    @@ <<"r","m">> :> LinkTo(<<"r","a">>, {"u"})
    @@ <<"k">> :> DirOf({"u"}) @@ <<"k","a">> :> FileOf(1, 6, {"u"})
    @@ <<"k","b">> :> FileOf(1, 7, {"u"}) @@ <<"k","c">> :> FileOf(1, 8, {"u"}))
MCTarget == <<"z">> :> DirOf({"u"})
MCDirOrder == [source |-> <<"a","b","c","d","l","m">>, target |-> <<"d","c","b","a","m","l">>]
MCNameOrder == <<"a","b","c","d","k","l","m","r","x","z">>
MCFolders == << <<"r">>, <<"k">> >>
MCFragile == {<<"r","a">>}
MCDst == <<"z">>
MCRequests ==
    f1 :> [cmd : {"v2"}, paths : {{<<"r">>}, {<<"k">>}, {<<"r","a">>, <<"r","d">>}}, checksum : {TRUE}, db : {TRUE}, user : {"none"}]
    @@ f2 :> ([cmd : {"sum"}, path : {<<"r","d">>}]
              \cup [cmd : {"list", "expand", "group", "size"}, path : {<<"r">>, <<"r","m">>, <<"x">>}, user : {"u"},
                    slash : BOOLEAN, checksum : {FALSE}])

\* A block of two files and one larger file
MCSourceBlock == (<<"r">> :> DirOf({"u"}) @@ <<"r","a">> :> FileOf(1, 1, {"u"})
    @@ <<"r","b">> :> FileOf(1, 2, {"u"}) @@ <<"r","c">> :> FileOf(2, 3, {"u"}))
MCRequestsBlock ==
    f1 :> [cmd : {"v2"}, paths : {{<<"r">>}}, checksum : {TRUE}, db : {TRUE}, user : {"none"}] @@ f2 :> {}

MCMounts == (<<>> :> "disk0" @@ <<"a">> :> "disk1" @@ <<"a","b">> :> "disk2")
DtnConf(id, fs, shares, iozones, valid) ==
    [type |-> "DTN", id |-> id, device |-> "", folders |-> fs, scan |-> TRUE, shared |-> shares,
     iozone |-> iozones, work |-> FALSE, valid |-> valid]
StorageConfOf(type, fs, work0) ==
    [type |-> type, id |-> <<"store">>, device |-> "", folders |-> fs, scan |-> FALSE, shared |-> FALSE,
     iozone |-> TRUE, work |-> work0, valid |-> TRUE]
LauncherConf ==
    [type |-> "Launcher", id |-> <<>>, device |-> "", folders |-> <<>>, scan |-> FALSE, shared |-> FALSE,
     iozone |-> TRUE, work |-> FALSE, valid |-> TRUE]
MCUnwritable == {<<"c">>}
MCMac == <<"mac">>
MCConfigs == {
    <<LauncherConf, DtnConf(<<>>, << <<"a">>, <<"c">> >>, FALSE, TRUE, TRUE)>>,
    <<DtnConf(<<>>, << <<"a">> >>, TRUE, TRUE, TRUE), DtnConf(<<"dtn2">>, << <<"a","b","d">> >>, FALSE, FALSE, TRUE)>>,
    <<DtnConf(<<>>, << <<"c">> >>, FALSE, TRUE, TRUE), DtnConf(<<>>, << >>, FALSE, TRUE, TRUE)>>,
    <<StorageConfOf("LocalStorage", << <<"a">>, <<"c">> >>, TRUE)>>,
    <<StorageConfOf("LocalStorage", << <<"a">>, <<"a","e">> >>, TRUE), LauncherConf,
      DtnConf(<<>>, << <<"c">> >>, FALSE, TRUE, FALSE)>>,
    <<StorageConfOf("SharedStorage", << <<"a">> >>, FALSE)>>,
    <<StorageConfOf("SharedStorage", << <<"c">> >>, FALSE)>> }

OutputOf(w, r) == [write |-> w, read |-> r]
MCIostat == {OutputOf(TooShort, TooShort), OutputOf(1, 2), OutputOf(Garbled, 1)}
MCScanOutputs == {<<OutputOf(1, 2), OutputOf(2, Garbled)>>, <<OutputOf(1, 2), OutputOf(TooShort, 1)>>}

\* Quotas around their limits: nothing used, below, at and above
MCQuotas == [bsoft : {0, 2}, isoft : {0, 3}, space : {0, 3, 5, 7, 8, 9, 12}, files : {0, 2, 3, 4}]
MCFileSystems == {[frsize |-> 8, blocks |-> 4, bavail |-> 3, files |-> 5, favail |-> 5],
                  [frsize |-> 8, blocks |-> 0, bavail |-> 0, files |-> 0, favail |-> 0]}
MCDiskRequests ==
    [inside : BOOLEAN, kinds : {{}, {"user"}, {"group"}}, user : BOOLEAN, works : BOOLEAN, quota : MCQuotas, fs : MCFileSystems]

-----------------------------------------------------------------------------
Parts == {"grid", "grouping", "files", "boot", "local", "shared", "host", "disk"}

Init ==
    /\ part \in Parts
    /\ GridInit /\ (part # "grid" => site = <<>>)
    /\ FilesInit /\ BootInit /\ RateInit
    /\ HostInit /\ (part # "host" => ignore = {})
    /\ IF part = "grouping" THEN GroupingInit ELSE input = NoInput
    /\ IF part = "disk" THEN DiskInit ELSE diskRequest = NoInput /\ diskReply = [code |-> -2]

Next ==
    \/ part = "grid" /\ GridNext
       /\ UNCHANGED <<part, input, fileVars, bootVars, rateVars, hostVars, diskVars>>
    \/ part = "files" /\ FilesNext
       /\ UNCHANGED <<part, gridVars, input, bootVars, rateVars, hostVars, diskVars>>
    \/ part = "boot" /\ BootNext
       /\ UNCHANGED <<part, gridVars, input, fileVars, rateVars, hostVars, diskVars>>
    \/ part = "local" /\ LocalNext
       /\ UNCHANGED <<part, gridVars, input, fileVars, bootVars, hostVars, diskVars>>
    \/ part = "shared" /\ SharedNext
       /\ UNCHANGED <<part, gridVars, input, fileVars, bootVars, hostVars, diskVars>>
    \/ part = "host" /\ HostNext
       /\ UNCHANGED <<part, gridVars, input, fileVars, bootVars, rateVars, diskVars>>
    \/ part = "disk" /\ DiskNext
       /\ UNCHANGED <<part, gridVars, input, fileVars, bootVars, rateVars, hostVars>>

hostSideVars == <<part, gridVars, input, fileVars, bootVars, rateVars, hostVars, diskVars>>

MCSpec == Init /\ [][Next]_hostSideVars
=============================================================================
