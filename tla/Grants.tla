------------------------------- MODULE Grants -------------------------------
(***************************************************************************)
(* The grant table of policy.rs: check, set_grant and revoke on the table  *)
(* in memory, save_grants writing it to grants.json through a temporary    *)
(* file and a rename, and load_grants after a restart.                     *)
(*                                                                         *)
(* The table is copied under the mutex and written after it is dropped, so *)
(* two threads may be writing at once, to one temporary name.  A file is   *)
(* an inode: opening the temporary name truncates the inode it has, or     *)
(* makes a new one; a rename gives that inode the real name, while another *)
(* thread may still have it open.  A crash is that of the daemon's         *)
(* process, which leaves what it wrote in the file system.                 *)
(*                                                                         *)
(* All the capabilities are those of one identity, and no configuration    *)
(* rule names it: consent comes from polkit.                               *)
(***************************************************************************)
EXTENDS Naturals, FiniteSets

CONSTANTS Threads,       \* session threads and threads that serve the bus
          Capabilities,
          MaxCrashes,    \* bound of the model on crashes
          MaxFailures    \* bound of the model on writes cut short

ASSUME GrantsAssumption == /\ IsFiniteSet(Threads)
                           /\ {MaxCrashes, MaxFailures} \subseteq Nat

Decisions == {"allow", "deny"}

Tables == [Capabilities -> Decisions \cup {"none"}]

Empty == [k \in Capabilities |-> "none"]

\* Enough inodes for both names and one open in every thread; zero is no file.
Inodes == 1..(Cardinality(Threads) + 2)

VARIABLES doing,    \* where each thread is
          asking,   \* the capability each thread is asking about
          polkit,   \* who holds the mutex of that name
          grants,   \* State.grants
          snapshot, \* the copy each thread is saving
          fd,       \* the inode each thread has open, zero for none
          tmp,      \* the inode named grants.json.tmp, zero for none
          path,     \* the inode named grants.json, zero for none
          disk,     \* the table each inode holds, as a set: {} if it is not whole
          said,     \* decisions somebody really made
          overlap,  \* whether a save has begun during another
          crashes,  \* crashes so far
          failures  \* writes cut short so far

memory == <<asking, polkit, grants, snapshot>>
files  == <<fd, tmp, path, disk>>
bounds == <<crashes, failures>>
grantsVars == <<doing, memory, files, said, overlap, bounds>>

GrantsInit == /\ doing = [t \in Threads |-> "idle"]
              /\ asking \in [Threads -> Capabilities]
              /\ polkit = {}
              /\ grants = Empty
              /\ snapshot = [t \in Threads |-> Empty]
              /\ fd = [t \in Threads |-> 0]
              /\ tmp = 0
              /\ path = 0
              /\ disk = [i \in Inodes |-> {}]
              /\ said = {}
              /\ overlap = FALSE
              /\ crashes = 0
              /\ failures = 0

MoveTo(t, l) == doing' = [doing EXCEPT ![t] = l]

-----------------------------------------------------------------------------
(* The table in memory.                                                    *)

\* What remember and revoke do under the mutex: the new table, and a copy.
Remember(t, table) == /\ grants' = table
                      /\ snapshot' = [snapshot EXCEPT ![t] = table]
                      /\ MoveTo(t, "save")

\* check of a capability that nothing is known about.
Check(t, k) ==
  /\ doing[t] = "idle"
  /\ grants[k] = "none"
  /\ asking' = [asking EXCEPT ![t] = k]
  /\ MoveTo(t, "wanting")
  /\ UNCHANGED <<polkit, grants, snapshot, files, said, overlap, bounds>>

\* ask_polkit holds its mutex for as long as the prompt is up.
Prompt(t) ==
  /\ doing[t] = "wanting"
  /\ polkit = {}
  /\ polkit' = {t}
  /\ MoveTo(t, "prompting")
  /\ UNCHANGED <<asking, grants, snapshot, files, said, overlap, bounds>>

Answer(t, d) ==
  /\ doing[t] = "prompting"
  /\ polkit' = {}
  /\ said' = said \cup {<<asking[t], d>>}
  /\ Remember(t, [grants EXCEPT ![asking[t]] = d])
  /\ UNCHANGED <<asking, files, overlap, bounds>>

\* Nobody could be asked: the check is refused and nothing is recorded.
RecordsRefusal(t) ==
  /\ doing[t] = "prompting"
  /\ polkit' = {}
  /\ Remember(t, [grants EXCEPT ![asking[t]] = "deny"])
  /\ UNCHANGED <<asking, files, said, overlap, bounds>>

KeepsPolkit(t) ==
  /\ doing[t] = "prompting"
  /\ MoveTo(t, "idle")
  /\ UNCHANGED <<memory, files, said, overlap, bounds>>

Unreachable(t) ==
  /\ doing[t] = "prompting"
  /\ polkit' = {}
  /\ MoveTo(t, "idle")
  /\ UNCHANGED <<asking, grants, snapshot, files, said, overlap, bounds>>

SetGrant(t, k, d) ==
  /\ doing[t] = "idle"
  /\ said' = said \cup {<<k, d>>}
  /\ Remember(t, [grants EXCEPT ![k] = d])
  /\ UNCHANGED <<asking, polkit, files, overlap, bounds>>

Revoke(t) ==
  /\ doing[t] = "idle"
  /\ Remember(t, Empty)
  /\ UNCHANGED <<asking, polkit, files, said, overlap, bounds>>

-----------------------------------------------------------------------------
(* save_grants.                                                            *)

Saving == {t \in Threads : doing[t] \in {"write", "rename"}}

InUse == {tmp, path} \cup {fd[t] : t \in Threads}

\* fs::write opens the temporary file and truncates it.
WritesInPlace(t) ==
  /\ doing[t] = "save"
  /\ overlap' = (overlap \/ Saving # {})
  /\ LET i == IF path # 0 THEN path ELSE 1
     IN  /\ path' = i
         /\ fd' = [fd EXCEPT ![t] = i]
         /\ disk' = [disk EXCEPT ![i] = {}]
  /\ MoveTo(t, "write")
  /\ UNCHANGED <<memory, tmp, said, bounds>>

OpenTmp(t) ==
  /\ doing[t] = "save"
  /\ overlap' = (overlap \/ Saving # {})
  /\ LET i == IF tmp # 0 THEN tmp
              ELSE CHOOSE j \in Inodes : j \notin InUse
     IN  /\ tmp' = i
         /\ fd' = [fd EXCEPT ![t] = i]
         /\ disk' = [disk EXCEPT ![i] = {}]
  /\ MoveTo(t, "write")
  /\ UNCHANGED <<memory, path, said, bounds>>

Known(table) == {k \in Capabilities : table[k] # "none"}

\* It writes from the start of the file.  Where another thread has written a
\* table no shorter meanwhile, the end of that table may stay behind.
Write(t) ==
  /\ doing[t] = "write"
  /\ \/ disk' = [disk EXCEPT ![fd[t]] = {snapshot[t]}]
     \/ /\ \E old \in disk[fd[t]] \ {snapshot[t]} :
              Cardinality(Known(old)) >= Cardinality(Known(snapshot[t]))
        /\ disk' = [disk EXCEPT ![fd[t]] = {}]
  /\ fd' = [fd EXCEPT ![t] = 0]
  /\ MoveTo(t, "rename")
  /\ UNCHANGED <<memory, tmp, path, said, overlap, bounds>>

\* The write is cut short, a full disk, and the save ends there.
WriteFails(t) ==
  /\ doing[t] = "write"
  /\ failures < MaxFailures
  /\ failures' = failures + 1
  /\ fd' = [fd EXCEPT ![t] = 0]
  /\ snapshot' = [snapshot EXCEPT ![t] = Empty]
  /\ MoveTo(t, "idle")
  /\ UNCHANGED <<asking, polkit, grants, tmp, path, disk, said, overlap,
                 crashes>>

\* The rename, which fails when another thread has renamed the file already.
Rename(t) ==
  /\ doing[t] = "rename"
  /\ path' = IF tmp # 0 THEN tmp ELSE path
  /\ tmp' = 0
  /\ snapshot' = [snapshot EXCEPT ![t] = Empty]
  /\ MoveTo(t, "idle")
  /\ UNCHANGED <<asking, polkit, grants, fd, disk, said, overlap, bounds>>

-----------------------------------------------------------------------------
(* The daemon dies and starts again.                                       *)

\* No file, or one that is not a whole table, is no grants.
load_grants == IF \E table \in Tables : path # 0 /\ disk[path] = {table}
               THEN CHOOSE table \in Tables : disk[path] = {table}
               ELSE Empty

Restart ==
  /\ crashes < MaxCrashes
  /\ crashes' = crashes + 1
  /\ doing' = [t \in Threads |-> "idle"]
  /\ polkit' = {}
  /\ grants' = load_grants
  /\ snapshot' = [t \in Threads |-> Empty]
  /\ fd' = [t \in Threads |-> 0]
  /\ UNCHANGED <<asking, tmp, path, disk, said, overlap, failures>>

Saves(t) == OpenTmp(t) \/ Write(t) \/ WriteFails(t) \/ Rename(t)

Decides(t) == \/ \E k \in Capabilities : Check(t, k)
              \/ Prompt(t)
              \/ \E d \in Decisions : Answer(t, d)
              \/ Unreachable(t)
              \/ \E k \in Capabilities, d \in Decisions : SetGrant(t, k, d)
              \/ Revoke(t)

GrantsNext == Restart \/ \E t \in Threads : Decides(t) \/ Saves(t)

GrantsSpec == GrantsInit /\ [][GrantsNext]_grantsVars

-----------------------------------------------------------------------------
(* Properties.                                                             *)

\* Every variable keeps its type, and the polkit mutex is held exactly by a
\* thread that is prompting.
GrantsTypeOK ==
  /\ doing \in [Threads -> {"idle", "wanting", "prompting", "save", "write", "rename"}]
  /\ asking \in [Threads -> Capabilities]
  /\ polkit = {t \in Threads : doing[t] = "prompting"} /\ \A t, u \in polkit : t = u
  /\ grants \in Tables
  /\ snapshot \in [Threads -> Tables]
  /\ fd \in [Threads -> Inodes \cup {0}]
  /\ {tmp, path} \subseteq Inodes \cup {0}
  /\ disk \in [Inodes -> {{}} \cup {{table} : table \in Tables}]
  /\ said \subseteq Capabilities \X Decisions
  /\ overlap \in BOOLEAN
  /\ crashes \in 0..MaxCrashes /\ failures \in 0..MaxFailures

Made(table) == \A k \in Capabilities : table[k] # "none" => <<k, table[k]>> \in said

\* No decision is invented: whatever the table says, now or as it is found
\* after a restart, somebody said once.  An authority that could not be
\* reached has not answered (unreachable).
DecisionsAreReal == Made(grants) /\ Made(load_grants)

\* So is whatever a thread is about to save, and whatever any file holds.
DecisionsKept ==
  /\ Made(grants)
  /\ \A t \in Threads : Made(snapshot[t])
  /\ \A i \in Inodes : \A table \in disk[i] : Made(table)

\* A thread has a file open exactly while it writes.  Saves that have never
\* overlapped come one at a time, and have the temporary file to themselves.
SavesInOrder ==
  /\ \A t \in Threads : fd[t] # 0 <=> doing[t] = "write"
  /\ ~ overlap => /\ \A t, u \in Saving : t = u
                  /\ \A t \in Threads : doing[t] = "write" => fd[t] = tmp /\ disk[tmp] = {}
                  /\ Saving # {} => tmp # 0
                  /\ tmp # 0 => tmp # path

\* The table and the polkit mutex are in order, each decision in memory or on
\* disk is one that somebody made (check, unreachable, load_grants), and saves
\* keep out of the file in use (save_grants).
GrantsInv == GrantsTypeOK /\ DecisionsAreReal /\ DecisionsKept /\ SavesInOrder

\* As long as no two saves have overlapped, a crash or a failed write at any
\* point leaves a whole table in the file (save_grants: the old table, not an
\* empty one), and a rename puts there the table its own thread copied.
SavedIsWhole ==
  ~ overlap => /\ path # 0 => disk[path] # {}
               /\ \A t \in Threads : doing[t] = "rename" => disk[tmp] = {snapshot[t]}

-----------------------------------------------------------------------------
(* What the comment on revoke says.                                        *)

\* What was revoked stays revoked: with every save done, a capability that
\* memory has forgotten is not granted in the file that the next start reads
\* (revoke: forget everything about an identity).
RevokedIsForgotten ==
  (\A t \in Threads : doing[t] = "idle") =>
    \A k \in Capabilities : grants[k] = "none" => load_grants[k] # "allow"
=============================================================================
