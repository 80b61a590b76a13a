----------------------------- MODULE DiskUsage -----------------------------
(***************************************************************************)
(* dtn_get_disk_usage: the space that is left to a user, from the quota of *)
(* the user where the file system has quotas and a limit is set, else from *)
(* statvfs().  The arithmetic is that of unsigned integers.                *)
(***************************************************************************)
EXTENDS Integers

CONSTANTS
    Modulus,        \* 2^w for the w bits of an unsigned long
    QuotaBlock,     \* QIF_DQBLKSIZE
    DiskRequests    \* requests, each with the state of the disk that it meets

VARIABLES diskRequest, diskReply
diskVars == <<diskRequest, diskReply>>

Minus(x, y) == (x - y) % Modulus

\* percent_usage keeps two digits; the reply drops them.
PercentUsage(used, max) == IF max = 0 THEN 100 ELSE ((used * 10000 + max \div 2) \div max) \div 100

\* get_fs_usage
FsUsage(fs) ==
    [type |-> "filesystem usage", unit |-> fs.frsize,
     blocks |-> fs.bavail, blocksUsage |-> PercentUsage(Minus(fs.blocks, fs.bavail), fs.blocks),
     size |-> (fs.bavail * fs.frsize) % Modulus,
     sizeUsage |-> PercentUsage(Minus(fs.blocks * fs.frsize, fs.bavail * fs.frsize), (fs.blocks * fs.frsize) % Modulus),
     inodes |-> fs.favail, inodeUsage |-> PercentUsage(Minus(fs.files, fs.favail), fs.files)]

\* get_generic_quota_usage: a limit of 0 is no limit.
QuotaUsageRounded(q, fs) ==
    LET used == q.space \div QuotaBlock + 1
        s == FsUsage(fs)
    IN  [type |-> "quota", unit |-> IF q.bsoft = 0 THEN s.unit ELSE QuotaBlock,
         blocks |-> IF q.bsoft = 0 THEN s.blocks ELSE Minus(q.bsoft, used),
         blocksUsage |-> IF q.bsoft = 0 THEN s.blocksUsage ELSE PercentUsage(used, q.bsoft),
         size |-> IF q.bsoft = 0 THEN s.size ELSE Minus(q.bsoft * QuotaBlock, q.space),
         sizeUsage |-> IF q.bsoft = 0 THEN s.sizeUsage ELSE PercentUsage(q.space, q.bsoft * QuotaBlock),
         inodes |-> IF q.isoft = 0 THEN s.inodes ELSE Minus(q.isoft, q.files),
         inodeUsage |-> IF q.isoft = 0 THEN s.inodeUsage ELSE PercentUsage(q.files, q.isoft)]

QuotaUsage(q, fs) ==
    LET used == q.space \div QuotaBlock
        s == FsUsage(fs)
    IN  [type |-> "quota", unit |-> IF q.bsoft = 0 THEN s.unit ELSE QuotaBlock,
         blocks |-> IF q.bsoft = 0 THEN s.blocks ELSE Minus(q.bsoft, used),
         blocksUsage |-> IF q.bsoft = 0 THEN s.blocksUsage ELSE PercentUsage(used, q.bsoft),
         size |-> IF q.bsoft = 0 THEN s.size ELSE Minus(q.bsoft * QuotaBlock, q.space),
         sizeUsage |-> IF q.bsoft = 0 THEN s.sizeUsage ELSE PercentUsage(q.space, q.bsoft * QuotaBlock),
         inodes |-> IF q.isoft = 0 THEN s.inodes ELSE Minus(q.isoft, q.files),
         inodeUsage |-> IF q.isoft = 0 THEN s.inodeUsage ELSE PercentUsage(q.files, q.isoft)]

\* quota_enabled: quotas of users, groups or projects
QuotaEnabled(r) == r.kinds # {}

\* get_quota_usage asks for the quota of the user, whichever kind is enabled, and the
\* user must exist.
QuotaKnown(r) == "user" \in r.kinds /\ r.user

\* handle_get_disk_usage_command: statvfs() and quotactl() may fail.
GetDiskUsage(r) ==
    CASE ~r.inside \/ ~r.works -> [code |-> 1]
      [] r.inside /\ r.works /\ ~QuotaEnabled(r) -> [code |-> 0, usage |-> FsUsage(r.fs)]
      [] r.inside /\ r.works /\ QuotaEnabled(r) ->
            IF QuotaKnown(r) THEN [code |-> 0, usage |-> QuotaUsage(r.quota, r.fs)] ELSE [code |-> 1]

DiskInit == diskRequest \in DiskRequests /\ diskReply = [code |-> -1]

DiskNext ==
    /\ diskReply.code = -1
    /\ diskReply' = GetDiskUsage(diskRequest) /\ UNCHANGED diskRequest

\* Below the limit, and where the file system says so, the three numbers of a reply
\* agree: the free blocks cover the free bytes to within one block, both are within
\* what is there, and the share in use is 100 exactly when not even half a hundredth
\* of a per cent is left.  The unit reported is that of the blocks.
UsageAgrees ==
    LET r == diskRequest
        u == diskReply.usage
        limited == QuotaEnabled(r) /\ r.quota.bsoft # 0
        total == IF limited THEN r.quota.bsoft * QuotaBlock ELSE r.fs.blocks * r.fs.frsize
    IN  /\ diskReply.code = 0 /\ (limited => r.quota.space <= total)
           => /\ u.size <= total /\ u.size <= u.blocks * u.unit /\ u.blocks * u.unit - u.size < u.unit
              /\ u.sizeUsage = 100 <=> u.size * 20000 <= total
        /\ diskReply.code = 0 /\ (QuotaEnabled(r) /\ r.quota.isoft # 0 => r.quota.files <= r.quota.isoft)
           => u.inodes <= IF QuotaEnabled(r) /\ r.quota.isoft # 0 THEN r.quota.isoft ELSE r.fs.files
=============================================================================
