------------------------------ MODULE Grouping ------------------------------
(***************************************************************************)
(* What the algorithms of PathTree promise, over every tree and parameter  *)
(* of a bounded set: the state is one input and never changes.             *)
(***************************************************************************)
EXTENDS PathTree

CONSTANTS
    Trees,          \* the directory trees
    GroupRoot,      \* the path all of them have as their root directory
    Orders,         \* orders of readdir(3)
    GroupSizes,     \* bounds on the bytes of a group; partition() takes it as their number
    GroupCounts,    \* bounds on the files of a group, 0 for none
    NoInput         \* the input where none is looked at

VARIABLE input

GroupingInit ==
    input \in [fs : Trees, order : Orders, size : GroupSizes, files : GroupCounts]

Division == Divide(input.fs, input.order, GroupRoot, input.size, input.files)
ByWalk == Walk(input.fs, input.order, GroupRoot, TRUE)

\* The files that a group of a division carries.  A root that was entered stands for
\* itself alone.
Carried(division, g) ==
    LET whole == {d \in g.paths : d # GroupRoot \/ DirSize(input.fs, d) <= input.size}
    IN  {f \in FilesBelow(input.fs, GroupRoot) :
            f \in g.paths \/ \E d \in whole : IsStrictPrefix(d, f)}

LinkFree == \A p \in DOMAIN input.fs : ~IsLink(input.fs, p)

-----------------------------------------------------------------------------
(* Properties *)

\* Every file below the root is carried by exactly one group of divide(), whatever
\* the order of the directories: divide_helper shares one group between a directory
\* and its subdirectories and closes it at the end of each.  A group keeps within the
\* bound on bytes, unless one file of it is larger and all others are empty.  Without
\* links the sizes of the groups add up to what nftw(3) counts and to what
\* dtn_path_size sums up.
DivideSound == input # NoInput =>
    LET division == Division
        groups == division.groups
        carried == [i \in DOMAIN groups |-> Carried(division, groups[i])]
        big(g) == {p \in g.paths : IsFile(input.fs, p) /\ PathSize(input.fs, p) > 0}
    IN  /\ UNION {carried[i] : i \in DOMAIN carried} = FilesBelow(input.fs, GroupRoot)
        /\ \A i, j \in DOMAIN carried : i # j => carried[i] \intersect carried[j] = {}
        /\ \A i \in DOMAIN groups : groups[i].size <= input.size \/ Cardinality(big(groups[i])) = 1
        /\ LinkFree =>
              /\ DirSize(input.fs, GroupRoot) = TotalSize(input.fs, ByWalk)
              /\ DirSize(input.fs, GroupRoot) = MapThenSumSet(LAMBDA i : groups[i].size, DOMAIN groups)

\* group_by_size() puts each file and directory into exactly one group, leaves no
\* group empty and no group of several non-empty files above the bound.
GroupsPartition == input # NoInput =>
    LET paths == InterimPaths(input.fs, input.order, <<GroupRoot>>)
        groups == GroupBySize(input.fs, paths, input.size, input.files)
        all == FlattenSeq(groups)
        kept == {p \in ToSet(paths) : ~IsLink(input.fs, p)}
    IN  /\ ToSet(all) = kept /\ Len(all) = Cardinality(kept)
        /\ \A i \in DOMAIN groups :
              /\ groups[i] # <<>>
              /\ TotalSize(input.fs, groups[i]) <= input.size \/ Len(groups[i]) = 1
=============================================================================
