------------------------------ MODULE PathTree ------------------------------
(***************************************************************************)
(* Directory trees and what utils/paths computes from them: the walk of a  *)
(* tree (DirectoryWalker), its division into groups of bounded size        *)
(* (DirectoryTree::divide), the grouping of a list of paths                *)
(* (PathGroupsHelper::group_by_size), and the partition of the files of a  *)
(* tree over a number of threads (DirectoryWalker::partition).             *)
(*                                                                         *)
(* A path is a sequence of names.  A tree fs is a function from its paths  *)
(* to records [kind, size, text, to, readers]; `order' is a sequence of    *)
(* names, in the order in which readdir(3) returns them: a caller has no   *)
(* say in it, and two hosts may differ in it.                              *)
(***************************************************************************)
EXTENDS Integers, SequencesExt

Nowhere == <<>>

FileOf(size, text, readers) ==
    [kind |-> "file", size |-> size, text |-> text, to |-> Nowhere, readers |-> readers]
DirOf(readers) ==
    [kind |-> "dir", size |-> 0, text |-> 0, to |-> Nowhere, readers |-> readers]
LinkTo(path, readers) ==
    [kind |-> "link", size |-> 1, text |-> 0, to |-> path, readers |-> readers]

-----------------------------------------------------------------------------
(* utils::Path *)

Exists(fs, p) == p \in DOMAIN fs
IsDir(fs, p) == Exists(fs, p) /\ fs[p].kind = "dir"
IsFile(fs, p) == Exists(fs, p) /\ fs[p].kind = "file"
IsLink(fs, p) == Exists(fs, p) /\ fs[p].kind = "link"

\* A directory counts for nothing, a link for itself.
PathSize(fs, p) == IF Exists(fs, p) THEN fs[p].size ELSE 0

\* realpath(3).  A link leads to a path that is no link; Nowhere is its failure.
RealPath(fs, p) ==
    IF IsLink(fs, p)
    THEN IF Exists(fs, fs[p].to) THEN fs[p].to ELSE Nowhere
    ELSE IF Exists(fs, p) THEN p ELSE Nowhere

BaseName(p) == Last(p)
DirName(p) == Front(p)
JoinPaths(p, name) == Append(p, name)
ReadableBy(fs, p, user) == Exists(fs, p) /\ user \in fs[p].readers

\* All that is below a directory.
Below(fs, d) == {p \in DOMAIN fs : IsStrictPrefix(d, p)}
FilesBelow(fs, d) == {p \in Below(fs, d) : IsFile(fs, p)}

-----------------------------------------------------------------------------
(* DirectoryWalker *)

\* What a loop over readdir(3) yields.
Children(fs, order, d) ==
    LET here == {n \in ToSet(order) : Exists(fs, JoinPaths(d, n))}
        names == SelectSeq(order, LAMBDA n : n \in here)
    IN  [i \in DOMAIN names |-> JoinPaths(d, names[i])]

\* recurse(): a directory comes before what is in it.
Walk(fs, order, root, recurse) ==
    LET dirs == {p \in DOMAIN fs : IsDir(fs, p)}
        walk[d \in dirs] ==
            LET cs == Children(fs, order, d)
            IN  FlattenSeq([i \in DOMAIN cs |->
                    IF recurse /\ IsDir(fs, cs[i]) THEN <<cs[i]>> \o walk[cs[i]]
                                                   ELSE <<cs[i]>>])
    IN  IF IsDir(fs, root) THEN walk[root] ELSE <<>>

TotalSize(fs, paths) == FoldSeq(LAMBDA p, sum : sum + PathSize(fs, p), 0, paths)
RegularFiles(fs, paths) == SelectSeq(paths, LAMBDA p : IsFile(fs, p))

\* sort_by_size(): descending.  Ties fall as the walk has them.
SortBySize(fs, paths) ==
    LET place == SetToSortSeq(DOMAIN paths,
                     LAMBDA i, j : \/ PathSize(fs, paths[i]) > PathSize(fs, paths[j])
                                   \/ PathSize(fs, paths[i]) = PathSize(fs, paths[j]) /\ i < j)
    IN  [k \in DOMAIN place |-> paths[place[k]]]

\* The size at which a group is full: the mean, or what the first few files have.
GroupSize(fs, sorted, n) ==
    LET mean == TotalSize(fs, RegularFiles(fs, sorted)) \div n
        heads == {i \in 1..(Len(sorted) \div n) :
                    TotalSize(fs, SubSeq(sorted, 1, i)) >= mean}
    IN  IF heads = {} THEN mean
        ELSE TotalSize(fs, SubSeq(sorted, 1, CHOOSE i \in heads : \A j \in heads : i <= j))

\* partition(): a file goes to the first group that is not full, and nowhere when
\* all of them are.
Partition(fs, paths, n) ==
    LET sorted == SortBySize(fs, paths)
        full == GroupSize(fs, sorted, n)
        Place(groups, p) ==
            LET open == {g \in DOMAIN groups : TotalSize(fs, groups[g]) < full}
            IN  IF open = {} THEN groups
                ELSE [groups EXCEPT ![CHOOSE g \in open : \A h \in open : g <= h] =
                                        Append(@, p)]
    IN  FoldLeft(Place, [g \in 1..n |-> <<>>], RegularFiles(fs, sorted))

-----------------------------------------------------------------------------
(* DirectoryTree *)

\* nftw(3) follows links: a link to a file counts for that file.
DirSize(fs, d) ==
    LET Counts(p) == LET r == RealPath(fs, p) IN IF IsFile(fs, r) THEN PathSize(fs, r) ELSE 0
    IN  MapThenSumSet(Counts, Below(fs, d))

TreeSize(fs, root) == IF IsDir(fs, root) THEN DirSize(fs, root) ELSE PathSize(fs, root)

\* The order in which divide_helper meets a tree.  A directory that fits in a group
\* is not entered.
Visits(fs, order, root, maxSize) ==
    LET dirs == {p \in DOMAIN fs : IsDir(fs, p)}
        visit[d \in dirs] ==
            LET cs == Children(fs, order, d) IN
            IF DirSize(fs, d) <= maxSize THEN << <<"whole", d>> >>
            ELSE << <<"enter", d>> >>
                 \o FlattenSeq([i \in DOMAIN cs |->
                        IF IsDir(fs, cs[i]) THEN visit[cs[i]]
                        ELSE IF IsFile(fs, cs[i]) THEN << <<"file", cs[i]>> >> ELSE <<>>])
                 \o << <<"leave", d>> >>
    IN  visit[root]

NewGroup == [paths |-> {}, size |-> 0]
AddToGroup(g, p, size) == [paths |-> g.paths \union {p}, size |-> g.size + size]

\* The group under construction is complete.
FlushGroup(acc) == [acc EXCEPT !.groups = Append(@, acc.group), !.group = NewGroup]

\* Is the group full before a file of this size?
FullFor(g, size, maxSize, maxFiles) ==
    /\ g.size > 0 /\ g.paths # {}
    /\ \/ g.size + size > maxSize
       \/ maxFiles # 0 /\ Cardinality(g.paths) + 1 > maxFiles

\* One entry of divide_helper's loop.
FileVisit(fs, acc, p, maxSize, maxFiles) ==
    LET size == PathSize(fs, p)
        room == IF FullFor(acc.group, size, maxSize, maxFiles) THEN FlushGroup(acc) ELSE acc
        next == [room EXCEPT !.group = AddToGroup(@, p, size)]
    IN  IF next.group.size + size = maxSize THEN FlushGroup(next) ELSE next

DivideVisitNoRest(fs, acc, v, maxSize, maxFiles) ==
    CASE v[1] = "whole" -> [acc EXCEPT !.groups =
                                Append(@, AddToGroup(NewGroup, v[2], DirSize(fs, v[2])))]
      [] v[1] = "enter" -> [acc EXCEPT !.dirs = @ \union {v[2]}]
      [] v[1] = "file" -> FileVisit(fs, acc, v[2], maxSize, maxFiles)
      [] v[1] = "leave" -> [acc EXCEPT !.group = NewGroup]

DivideVisit(fs, acc, v, maxSize, maxFiles) ==
    CASE v[1] = "whole" -> [acc EXCEPT !.groups =
                                Append(@, AddToGroup(NewGroup, v[2], DirSize(fs, v[2])))]
      [] v[1] = "enter" -> [acc EXCEPT !.dirs = @ \union {v[2]}]
      [] v[1] = "file" -> FileVisit(fs, acc, v[2], maxSize, maxFiles)
      [] v[1] = "leave" -> IF acc.group.paths = {} THEN acc ELSE FlushGroup(acc)

\* divide().  The first group starts with the root itself, at size 0.
Divide(fs, order, root, maxSize, maxFiles) ==
    IF IsFile(fs, root)
    THEN [groups |-> <<AddToGroup(NewGroup, root, PathSize(fs, root))>>, dirs |-> {}]
    ELSE IF ~IsDir(fs, root) THEN [groups |-> <<>>, dirs |-> {}]
    ELSE LET start == [groups |-> <<>>, dirs |-> {root}, group |-> AddToGroup(NewGroup, root, 0)]
             end == FoldLeft(LAMBDA acc, v : DivideVisit(fs, acc, v, maxSize, maxFiles),
                             start, Visits(fs, order, root, maxSize))
         IN  [groups |-> end.groups, dirs |-> end.dirs]

-----------------------------------------------------------------------------
(* PathGroupsHelper *)

\* add_sub_path() for each input path.  A path that does not exist is an exception,
\* for which the caller looks first.
InterimPaths(fs, order, inputs) ==
    FlattenSeq([i \in DOMAIN inputs |->
        CASE IsFile(fs, inputs[i]) -> <<inputs[i]>>
          [] IsDir(fs, inputs[i]) -> <<inputs[i]>> \o Walk(fs, order, inputs[i], TRUE)
          [] OTHER -> <<>>])

\* One path of group_by_size's loop.
BySizeStepNoMax(fs, acc, p, maxSize, maxFiles) ==
    [acc EXCEPT !.current = Append(@, p), !.size = @ + PathSize(fs, p)]

BySizeStep(fs, acc, p, maxSize, maxFiles) ==
    LET size == PathSize(fs, p)
        with == [acc EXCEPT !.current = Append(@, p), !.size = @ + size]
        Save(a, rest, n) == [groups |-> Append(a.groups, a.current), current |-> rest, size |-> n]
    IN  CASE ~(IsFile(fs, p) \/ IsDir(fs, p)) -> acc
          [] size > maxSize -> [acc EXCEPT !.groups = Append(@, <<p>>)]
          [] size + acc.size > maxSize -> Save(acc, <<p>>, size)
          [] OTHER ->
                IF with.size >= maxSize \/ (maxFiles > 0 /\ Len(with.current) >= maxFiles)
                THEN Save(with, <<>>, 0)
                ELSE with

GroupBySize(fs, paths, maxSize, maxFiles) ==
    LET end == FoldLeft(LAMBDA acc, p : BySizeStep(fs, acc, p, maxSize, maxFiles),
                        [groups |-> <<>>, current |-> <<>>, size |-> 0], paths)
    IN  IF end.current = <<>> THEN end.groups ELSE Append(end.groups, end.current)
=============================================================================
