------------------------------ MODULE Snapshots ------------------------------
(***************************************************************************)
(* Snapshots of a directory tree: iter_files of teldrive_lab/resources.py,  *)
(* create_snapshot and verify_snapshot of advanced.py, and the manifests of *)
(* extended.py, which walk and hash file by file in one go.                 *)
(*                                                                          *)
(* A scan reads the tree while other programs edit, touch, remove and move  *)
(* files in it.  A content stands for its digest and size; a file is hashed *)
(* in one step (ContentStore.tla opens it).  Directories stay, every entry  *)
(* can be read, and symlinks, which the walk ignores, are left out.         *)
(***************************************************************************)
EXTENDS Integers, Sequences, FiniteSets, SequencesExt

CONSTANTS
  Dir, Path, Top,   \* directories, possible files, the root of the scan
  Listing,          \* the possible entries of each directory
  DepthOf,          \* how far below Top each directory is
  Initially,          \* the files there at the beginning
  MaxDepth, MaxFiles, \* the limits of the walk
  MaxEvents         \* bound on the changes of the tree

\* Directories and files are numbered in the order of their names, and are the
\* entries of one directory each.
ASSUME TreeAssumption ==
  /\ Dir \cup Path \subseteq Nat /\ IsFiniteSet(Dir \cup Path) /\ Dir \cap Path = {}
  /\ Top \in Dir /\ Initially \subseteq Path
  /\ Listing \in [Dir -> SUBSET (Dir \cup Path)]
  /\ UNION {Listing[d] : d \in Dir} = (Dir \ {Top}) \cup Path
  /\ \A d, e \in Dir : d # e => Listing[d] \cap Listing[e] = {}
  /\ DepthOf \in [Dir -> Nat] /\ DepthOf[Top] = 0
  /\ \A d \in Dir : \A e \in Listing[d] \cap Dir : DepthOf[e] = DepthOf[d] + 1
  /\ MaxDepth \in Nat /\ MaxFiles \in Nat /\ MaxEvents \in Nat

VARIABLES
  tree,     \* each file's content and mtime
  scan,     \* the scan: its task, and the walk and the hashing
  saved,    \* the document written last
  events,   \* changes of the tree so far
  disturbed \* history: the files changed since the scan began

snapVars == <<tree, scan, saved, events, disturbed>>

NoEntry  == [sha |-> -1, mtime |-> -1]
NoFiles  == [p \in Path |-> NoEntry]
Unsaved  == [by |-> "none", files |-> NoFiles, parent |-> NoFiles, changed |-> NoFiles, deleted |-> {}]
Asleep   == [task |-> "none", at |-> "idle", stack |-> <<>>, depth |-> 0, entries |-> {},
             children |-> <<>>, listed |-> <<>>, count |-> 0, found |-> NoFiles]
Known(files) == {p \in Path : files[p] # NoEntry}

SnapInit ==
  /\ tree = [p \in Path |-> IF p \in Initially THEN [sha |-> 0, mtime |-> 0] ELSE NoEntry]
  /\ scan = Asleep
  /\ saved = Unsaved
  /\ events = 0
  /\ disturbed = {}

\* What a scan returns: "saved", "verified", "differs" or an exception.
Returns(outcome) == scan' = [Asleep EXCEPT !.task = scan.task, !.at = outcome]

-----------------------------------------------------------------------------
(* The walk.                                                                 *)

\* verify_snapshot reads a snapshot, verify_snapshot_manifest a manifest.
StartScan(task) ==
  /\ scan.at \in {"idle", "saved", "verified", "differs", "raised"}
  /\ task = "verify" => saved.by = "snapshot"
  /\ task = "check" => saved.by = "manifest"
  /\ scan' = [Asleep EXCEPT !.task = task, !.at = "walk", !.stack = <<<<Top, 0>>>>]
  /\ disturbed' = {}
  /\ UNCHANGED <<tree, saved, events>>

\* The next directory: the last one's children, in the order of their names,
\* before what was on the stack.  Its entries are read all at once.
OpenDir ==
  LET stack == scan.children \o scan.stack IN
  /\ scan.at = "walk" /\ scan.entries = {} /\ stack # <<>>
  /\ scan' = [scan EXCEPT !.stack = Tail(stack), !.children = <<>>, !.depth = Head(stack)[2],
                          !.entries = {e \in Listing[Head(stack)[1]] : e \in Dir \/ tree[e] # NoEntry}]
  /\ UNCHANGED <<tree, saved, events, disturbed>>

\* A directory at the depth limit is an error if there is anything in it.
TooDeep(d) ==
  scan.depth = MaxDepth /\ \E e \in Listing[d] : e \in Dir \/ tree[e] # NoEntry

\* Mutant of VisitDir: a directory at the depth limit is left out.
VisitDirQuietly ==
  LET d == Min(scan.entries) IN
  /\ scan.at = "walk" /\ scan.entries # {} /\ d \in Dir
  /\ scan' = [scan EXCEPT !.entries = @ \ {d}, !.children =
                IF scan.depth < MaxDepth THEN Append(@, <<d, scan.depth + 1>>) ELSE @]
  /\ UNCHANGED <<tree, saved, events, disturbed>>

VisitDir ==
  LET d == Min(scan.entries) IN
  /\ scan.at = "walk" /\ scan.entries # {} /\ d \in Dir
  /\ IF TooDeep(d) THEN Returns("raised") ELSE
       scan' = [scan EXCEPT !.entries = @ \ {d}, !.children =
                  IF scan.depth < MaxDepth THEN Append(@, <<d, scan.depth + 1>>) ELSE @]
  /\ UNCHANGED <<tree, saved, events, disturbed>>

\* A listed file that is gone is passed over; a manifest hashes a file as soon
\* as it is yielded, the other scans when the walk is over.
VisitFile ==
  LET p == Min(scan.entries) IN
  /\ scan.at = "walk" /\ scan.entries # {} /\ p \in Path
  /\ IF tree[p] = NoEntry THEN scan' = [scan EXCEPT !.entries = @ \ {p}]
     ELSE IF scan.count = MaxFiles THEN Returns("raised")
     ELSE scan' = [scan EXCEPT !.entries = @ \ {p}, !.listed = Append(@, p),
                     !.count = @ + 1, !.at = IF scan.task = "manifest" THEN "hash" ELSE "walk"]
  /\ UNCHANGED <<tree, saved, events, disturbed>>

-----------------------------------------------------------------------------
(* The hashing, and what becomes of it.                                      *)

WalkEnds ==
  /\ scan.at = "walk" /\ scan.task # "manifest"
  /\ scan.entries = {} /\ scan.children = <<>> /\ scan.stack = <<>>
  /\ scan' = [scan EXCEPT !.at = "hash"]
  /\ UNCHANGED <<tree, saved, events, disturbed>>

\* The files that a manifest does not have are not hashed against it.
PassUnknown ==
  /\ scan.at = "hash" /\ scan.listed # <<>>
  /\ scan.task = "check" /\ Head(scan.listed) \notin Known(saved.files)
  /\ scan' = [scan EXCEPT !.listed = Tail(@)]
  /\ UNCHANGED <<tree, saved, events, disturbed>>

\* stream_sha256 of the next file raises if it is gone.  The mtime, which a
\* manifest has not, is read after it.
HashFile ==
  LET p == Head(scan.listed) IN
  /\ scan.at = "hash" /\ scan.listed # <<>>
  /\ scan.task = "check" => p \in Known(saved.files)
  /\ IF tree[p] = NoEntry THEN Returns("raised")
     ELSE IF scan.task \in {"snapshot", "verify"}
     THEN scan' = [scan EXCEPT !.found[p] = [sha |-> tree[p].sha, mtime |-> 0], !.at = "stat"]
     ELSE scan' = [scan EXCEPT !.found[p] = [sha |-> tree[p].sha, mtime |-> 0], !.listed = Tail(@),
                               !.at = IF scan.task = "manifest" THEN "walk" ELSE "hash"]
  /\ UNCHANGED <<tree, saved, events, disturbed>>

StatFile ==
  LET p == Head(scan.listed) IN
  /\ scan.at = "stat"
  /\ IF tree[p] = NoEntry THEN Returns("raised")
     ELSE scan' = [scan EXCEPT !.found[p].mtime = tree[p].mtime, !.listed = Tail(@), !.at = "hash"]
  /\ UNCHANGED <<tree, saved, events, disturbed>>

\* The incremental part of a snapshot, against its parent.
Changed(files, parent) == [p \in Path |-> IF files[p] # parent[p] THEN files[p] ELSE NoEntry]

\* create_snapshot, with the last snapshot as parent or with none.
Save ==
  /\ scan.at = "hash" /\ scan.listed = <<>> /\ scan.task = "snapshot"
  /\ \E parent \in {NoFiles} \cup (IF saved.by = "snapshot" THEN {saved.files} ELSE {}) :
       saved' = [by |-> "snapshot", files |-> scan.found, parent |-> parent,
                 changed |-> Changed(scan.found, parent),
                 deleted |-> Known(parent) \ Known(scan.found)]
  /\ Returns("saved")
  /\ UNCHANGED <<tree, events, disturbed>>

\* create_snapshot_manifest ends when the walk does.
SaveManifest ==
  /\ scan.at = "walk" /\ scan.task = "manifest"
  /\ scan.entries = {} /\ scan.children = <<>> /\ scan.stack = <<>>
  /\ saved' = [Unsaved EXCEPT !.by = "manifest", !.files = scan.found]
  /\ Returns("saved")
  /\ UNCHANGED <<tree, events, disturbed>>

\* A snapshot must be matched exactly; a manifest says nothing of other files.
Same(files) ==
  /\ \A p \in Known(saved.files) : files[p].sha = saved.files[p].sha
  /\ scan.task = "verify" => Known(files) \subseteq Known(saved.files)

Judge ==
  /\ scan.at = "hash" /\ scan.listed = <<>> /\ scan.task \in {"verify", "check"}
  /\ Returns(IF Same(scan.found) THEN "verified" ELSE "differs")
  /\ UNCHANGED <<tree, saved, events, disturbed>>

-----------------------------------------------------------------------------
(* The environment.                                                          *)

\* Other programs change the tree: they write a file, touch it, remove it, or
\* move it to another place, with its mtime.
Disturb(paths, t) ==
  /\ events < MaxEvents
  /\ events' = events + 1
  /\ tree' = t
  /\ disturbed' = disturbed \cup paths
  /\ UNCHANGED <<scan, saved>>

ChangeTree ==
  \/ \E p \in Path :
       \/ Disturb({p}, [tree EXCEPT ![p] = [sha |-> events + 1, mtime |-> events + 1]])
       \/ tree[p] # NoEntry /\ Disturb({p}, [tree EXCEPT ![p].mtime = events + 1])
       \/ tree[p] # NoEntry /\ Disturb({p}, [tree EXCEPT ![p] = NoEntry])
  \/ \E p, q \in Path :
       /\ tree[p] # NoEntry /\ p # q
       /\ Disturb({p, q}, [tree EXCEPT ![q] = tree[p], ![p] = NoEntry])

SnapNext ==
  \/ \E task \in {"snapshot", "verify", "manifest", "check"} : StartScan(task)
  \/ OpenDir \/ VisitDir \/ VisitFile \/ WalkEnds
  \/ PassUnknown \/ HashFile \/ StatFile \/ Save \/ SaveManifest \/ Judge
  \/ ChangeTree

SnapSpec == SnapInit /\ [][SnapNext]_snapVars

-----------------------------------------------------------------------------
(* Properties.                                                               *)

Depths == 0..(MaxDepth + 1)

SnapTypes ==
  LET entry == [sha : -1..MaxEvents, mtime : -1..MaxEvents] IN
  /\ tree \in [Path -> entry] /\ events \in 0..MaxEvents /\ disturbed \subseteq Path
  /\ scan.found \in [Path -> entry] /\ scan.count \in 0..MaxFiles /\ scan.depth \in Depths
  /\ ToSet(scan.listed) \subseteq Path /\ scan.entries \subseteq Dir \cup Path
  /\ ToSet(scan.children) \cup ToSet(scan.stack) \subseteq Dir \X Depths
  /\ saved.files \in [Path -> entry] /\ saved.deleted \subseteq Path

\* What a snapshot or manifest says of a file that nobody changed during the
\* scan is exact, and says that it is absent only if it is, whatever was moved,
\* added or removed around it; and the incremental part of a snapshot rebuilds
\* its files, mtimes included, from those of its parent.
SnapshotExact ==
  /\ scan.at = "saved" => \A p \in Path \ disturbed :
       /\ saved.files[p].sha = tree[p].sha
       /\ saved.by = "snapshot" => saved.files[p] = tree[p]
  /\ saved.by = "snapshot" => \A p \in Path :
       saved.files[p] = IF p \in saved.deleted THEN NoEntry
                        ELSE IF saved.changed[p] # NoEntry THEN saved.changed[p]
                        ELSE saved.parent[p]

\* The tree is within the limits of the walk.
Within ==
  /\ Cardinality(Known(tree)) <= MaxFiles
  /\ \A d \in Dir : DepthOf[d] > MaxDepth =>
       \A e \in Listing[d] : e \in Path /\ tree[e] = NoEntry

\* A verdict is right about the files nobody changed during the scan.
VerdictRight ==
  /\ scan.at = "verified" => \A p \in Path \ disturbed :
       tree[p].sha = saved.files[p].sha \/ (scan.task = "check" /\ p \notin Known(saved.files))
  /\ scan.at = "differs" => disturbed # {} \/ \E p \in Path : tree[p].sha # saved.files[p].sha

\* A scan of iter_files, create_snapshot or verify_snapshot is right about every
\* file that stays as it is while the others are edited, moved and removed; and
\* a scan of a quiet tree raises exactly when the tree is beyond the limits of
\* the walk: it never passes over what it should have refused.
ScanRight ==
  /\ SnapTypes /\ SnapshotExact /\ VerdictRight
  /\ scan.at \in {"saved", "verified", "differs", "raised"} /\ disturbed = {} =>
       (scan.at = "raised" <=> ~Within)
=============================================================================
