------------------------------ MODULE GridMap ------------------------------
(***************************************************************************)
(* The grid map file of a DTN (utils/grid-mapfile.cc): the commands        *)
(* dtn_push_gridmap_entries and dtn_get_gridmap_entries of the DTN agent,  *)
(* each run by one of the agent's worker threads, and the end of the       *)
(* process at any point of a push.                                         *)
(*                                                                         *)
(* A file is a sequence of lines.  A line is a marker, a line of the site  *)
(* (SystemLines) or an entry <<"bde", dn, quoted>>.  A distinguished name  *)
(* holds blanks, so an entry without quotes cannot be read back.           *)
(***************************************************************************)
EXTENDS Naturals, SequencesExt

CONSTANTS
    MapThreads,     \* worker threads that run the commands
    SystemLines,    \* the lines of the site, in the order of the file
    Pushes,         \* what a push may carry: a set of sequences of names
    MaxPushes,      \* bound: pushes in a behaviour
    MaxMapCrash     \* bound: ends of the process in the middle of a push

VARIABLES
    name,       \* the file each of the three names stands for
    data,       \* the lines of each file
    mapPc,      \* where each thread is
    out,        \* the file that the output stream of a thread writes
    lines,      \* the lines a push has composed
    entries,    \* what the push of a thread carries
    answer,     \* what the last command of a thread answered
    pushes,     \* number of pushes begun
    crashes,    \* number of ends of the process within a push
    overlap,    \* whether two pushes have overlapped
    made,       \* whether a push has made a new map file
    site,       \* the lines of the site that the map file had at first
    current     \* the names of the last push that was installed

gridVars == <<name, data, mapPc, out, lines, entries, answer, pushes, crashes,
              overlap, made, site, current>>

\* grid-mapfile, its backup grid-mapfile.save.bde, and the work file
FileNames == {"map", "save", "work"}
Inodes == 1..(3 + Cardinality(MapThreads))
None == 0

Begin == <<"begin">>
End == <<"end">>

Quoted(es) == [i \in DOMAIN es |-> <<"bde", es[i], TRUE>>]
Unquoted(es) == [i \in DOMAIN es |-> <<"bde", es[i], FALSE>>]

\* The lines outside the section of BigData Express.
SystemPart(f) == SelectSeq(f, LAMBDA l : l[1] = "sys")
\* The names in the file's section.
Names(f) == LET s == SelectSeq(f, LAMBDA l : l[1] = "bde")
            IN  [i \in DOMAIN s |-> s[i][2]]

-----------------------------------------------------------------------------
(* grid_mapfile_push_entries, as a function of the lines read *)

IndexOf(f, l, from) ==
    IF \E i \in from..Len(f) : f[i] = l
    THEN CHOOSE i \in from..Len(f) : f[i] = l /\ \A j \in from..(i - 1) : f[j] # l
    ELSE 0

\* The new section replaces what is between the markers and leaves both.
ReplaceReversed(f, es) ==
    LET b == IndexOf(f, Begin, 1)
        e == IndexOf(f, End, b)
    IN  SubSeq(f, 1, b) \o Quoted(Reverse(es)) \o SubSeq(f, e, Len(f))

ReplaceSection(f, es) ==
    LET b == IndexOf(f, Begin, 1)
        e == IndexOf(f, End, b)
    IN  SubSeq(f, 1, b) \o Quoted(es) \o SubSeq(f, e, Len(f))

HasSection(f) == IndexOf(f, Begin, 1) # 0
SectionEnds(f) == IndexOf(f, End, IndexOf(f, Begin, 1)) # 0

FreshSection(es) == <<Begin>> \o Unquoted(es) \o <<End>>

\* Two streams open on one file each start at offset 0: what the longer content
\* has beyond the shorter one stays.
Overlay(new, old) ==
    IF Len(old) <= Len(new) THEN new
    ELSE new \o SubSeq(old, Len(new) + 1, Len(old))

-----------------------------------------------------------------------------
(* The commands *)

Busy == {t \in MapThreads : mapPc[t] # "idle"}
Fresh == CHOOSE i \in Inodes : \A n \in FileNames, t \in MapThreads : i # name[n] /\ i # out[t]
Lines(n) == IF name[n] = None THEN <<>> ELSE data[name[n]]

Reply(k, s, n) == [kind |-> k, system |-> s, names |-> n]
Goto(t, l) == mapPc' = [mapPc EXCEPT ![t] = l]
Answer(t, k) ==
    /\ Goto(t, "idle")
    /\ answer' = [answer EXCEPT ![t] = Reply(k, <<>>, <<>>)]
    /\ lines' = [lines EXCEPT ![t] = <<>>]
    /\ entries' = [entries EXCEPT ![t] = <<>>]

\* std::ofstream(n): an existing file is emptied, a missing one made.
Open(t, n) ==
    LET i == IF name[n] = None THEN Fresh ELSE name[n] IN
    /\ name' = [name EXCEPT ![n] = i]
    /\ data' = [data EXCEPT ![i] = <<>>]
    /\ out' = [out EXCEPT ![t] = i]

\* ostream.close()
Close(t, ls) ==
    /\ data' = [data EXCEPT ![out[t]] = Overlay(ls, @)]
    /\ out' = [out EXCEPT ![t] = None]

\* A push begins: does the map file exist?
PushBegin(t, es) ==
    /\ mapPc[t] = "idle" /\ pushes < MaxPushes
    /\ pushes' = pushes + 1
    /\ entries' = [entries EXCEPT ![t] = es]
    /\ overlap' = (overlap \/ Busy # {})
    /\ Goto(t, IF name["map"] = None THEN "create" ELSE "read")
    /\ UNCHANGED <<name, data, out, lines, answer, crashes, made, site, current>>

\* No map file: one is made with the entries alone.
PushCreate(t) ==
    /\ mapPc[t] = "create"
    /\ Open(t, "map") /\ Goto(t, "fill")
    /\ made' = TRUE
    /\ UNCHANGED <<lines, entries, answer, pushes, crashes, overlap, site, current>>

PushFill(t) ==
    /\ mapPc[t] = "fill"
    /\ Close(t, FreshSection(entries[t]))
    /\ Answer(t, "ok") /\ current' = entries[t]
    /\ UNCHANGED <<name, pushes, crashes, overlap, made, site>>

\* The file is read and its new content composed, and the work file opened.  A
\* section without its end marker is refused.
PushRead(t) ==
    /\ mapPc[t] = "read"
    /\ \/ /\ HasSection(Lines("map")) /\ ~SectionEnds(Lines("map"))
          /\ Answer(t, "error")
          /\ UNCHANGED <<name, data, out>>
       \/ /\ HasSection(Lines("map")) => SectionEnds(Lines("map"))
          /\ lines' = [lines EXCEPT ![t] =
                 IF HasSection(Lines("map")) THEN ReplaceSection(Lines("map"), entries[t])
                 ELSE Lines("map") \o FreshSection(entries[t])]
          /\ Open(t, "work") /\ Goto(t, "write") /\ UNCHANGED <<entries, answer>>
    /\ UNCHANGED <<pushes, crashes, overlap, made, site, current>>

\* The lines are written and the work file closed.
PushWrite(t) ==
    /\ mapPc[t] = "write"
    /\ Close(t, lines[t]) /\ Goto(t, "save")
    /\ UNCHANGED <<name, lines, entries, answer, pushes, crashes, overlap, made, site, current>>

\* rename(from, to), which fails when there is no file of that name
Rename(from, to) == name' = [name EXCEPT ![to] = name[from], ![from] = None]

\* The map file becomes the backup.
PushSaveRemoves(t) ==
    /\ mapPc[t] = "save" /\ name["map"] # None
    /\ name' = [name EXCEPT !["map"] = None] /\ Goto(t, "install")
    /\ UNCHANGED <<lines, entries, answer, data, out, pushes, crashes, overlap, made, site, current>>

PushSave(t) ==
    /\ mapPc[t] = "save"
    /\ \/ /\ name["map"] = None
          /\ Answer(t, "error") /\ UNCHANGED name
       \/ /\ name["map"] # None
          /\ Rename("map", "save") /\ Goto(t, "install") /\ UNCHANGED <<lines, entries, answer>>
    /\ UNCHANGED <<data, out, pushes, crashes, overlap, made, site, current>>

\* The work file becomes the map file.
PushInstall(t) ==
    /\ mapPc[t] = "install"
    /\ \/ /\ name["work"] = None
          /\ Answer(t, "error") /\ UNCHANGED <<name, current>>
       \/ /\ name["work"] # None
          /\ Rename("work", "map") /\ Answer(t, "ok") /\ current' = entries[t]
    /\ UNCHANGED <<data, out, pushes, crashes, overlap, made, site>>

\* grid_mapfile_get_entries: an error when the file is missing or a line has no
\* quotes (the fields of such a line are taken from past its end).
GetEntries(t) ==
    /\ mapPc[t] = "idle"
    /\ answer' = [answer EXCEPT ![t] =
           IF name["map"] = None \/ \E l \in ToSet(Lines("map")) : l[1] = "bde" /\ ~l[3]
           THEN Reply("error", <<>>, <<>>)
           ELSE Reply("read", SystemPart(Lines("map")), Names(Lines("map")))]
    /\ UNCHANGED <<name, data, mapPc, out, lines, entries, pushes, crashes, overlap, made, site, current>>

\* The process ends within a push and starts again; the files stay.
MapCrash ==
    /\ crashes < MaxMapCrash /\ Busy # {}
    /\ crashes' = crashes + 1
    /\ mapPc' = [t \in MapThreads |-> "idle"]
    /\ out' = [t \in MapThreads |-> None]
    /\ answer' = [t \in MapThreads |-> Reply("none", <<>>, <<>>)]
    /\ lines' = [t \in MapThreads |-> <<>>]
    /\ entries' = [t \in MapThreads |-> <<>>]
    /\ UNCHANGED <<name, data, pushes, overlap, made, site, current>>

GridInit ==
    /\ site \in {SystemLines, <<>>}
    /\ name = [n \in FileNames |-> IF n = "map" /\ site # <<>> THEN 1 ELSE None]
    /\ \E cut \in {<<>>, <<Begin>>} :   \* a section whose end somebody has removed
          data = [i \in Inodes |-> IF i = 1 /\ site # <<>> THEN site \o cut ELSE <<>>]
    /\ mapPc = [t \in MapThreads |-> "idle"]
    /\ out = [t \in MapThreads |-> None]
    /\ lines = [t \in MapThreads |-> <<>>]
    /\ entries = [t \in MapThreads |-> <<>>]
    /\ answer = [t \in MapThreads |-> Reply("none", <<>>, <<>>)]
    /\ pushes = 0 /\ crashes = 0 /\ overlap = FALSE /\ made = FALSE /\ current = <<>>

GridNext ==
    \/ \E t \in MapThreads :
          \/ \E es \in Pushes : PushBegin(t, es)
          \/ PushCreate(t) \/ PushFill(t) \/ PushRead(t) \/ PushWrite(t)
          \/ PushSave(t) \/ PushInstall(t) \/ GetEntries(t)
    \/ MapCrash

GridSpec == GridInit /\ [][GridNext]_gridVars

-----------------------------------------------------------------------------
(* Properties *)

\* Pushes that do not overlap lose no line of the site.  They keep the lines in their
\* order, since grid_mapfile_push_entries replaces its own section only, and the map
\* file is missing only between the two renames; when the process ends there, the
\* backup has all lines, until a later push makes a map file of its own.
SiteLinesKept ==
    ~overlap =>
        /\ crashes = 0 =>
              /\ SystemPart(Lines("map")) = site \/ \E t \in MapThreads : mapPc[t] = "install"
              /\ site # <<>> /\ name["map"] = None => \E t \in MapThreads : mapPc[t] = "install"
        /\ ~made /\ name["map"] = None => SystemPart(Lines("save")) = site

\* A get that runs between the steps of a push answers an error or the whole map:
\* all lines of the site and the names of the push installed last.
ReadIsWhole ==
    [][\A t \in MapThreads :
          /\ answer'[t] # answer[t] /\ answer'[t].kind = "read"
          /\ ~overlap /\ crashes = 0
          => answer'[t].system = site /\ answer'[t].names = current]_gridVars
=============================================================================
