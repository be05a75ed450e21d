----------------------------- MODULE ModelStore -----------------------------
(***************************************************************************)
(* The model store: install.rs, registry.rs and the ai-daemon-fetch helper.*)
(*                                                                         *)
(* Every InstallModel runs on a thread of its own and talks to a helper    *)
(* process of its own; RemoveModel and ListModels run one after the other  *)
(* on the bus thread.  All of them meet in the file system, one system     *)
(* call at a time.  A file is an inode, named by the installation whose    *)
(* helper created it; its bytes are a digest (the file whose SHA-256 that  *)
(* is), the installation still writing it, or Junk.  write_atomic's        *)
(* temporary file is named after the model, and so is the download.        *)
(***************************************************************************)
EXTENDS Naturals, FiniteSets, Functions

CONSTANTS Installs,  \* calls of InstallModel
          JobOf,     \* JobOf[i] = [name, want]: the model and its digest
          Remote,    \* the want of a remote: source, which has no bytes
          Junk,      \* bytes no digest was asked for
          Nothing,   \* an absent file, an absent cache
          Removals   \* bound on the calls of RemoveModel and ListModels

ASSUME StoreJobsAssumption == IsFiniteSet(Installs) /\ Nothing \notin Installs

Models == {JobOf[i].name : i \in Installs}
Wanted == {JobOf[i].want : i \in Installs} \ {Remote}

VARIABLES ipc,        \* where each installation is
          helper,     \* what each installation's helper is doing
          fd,         \* the inode each helper writes
          content,    \* the bytes of each inode
          staged,     \* staging/NAME.part: its inode
          blobs,      \* blobs/sha256/HEX: its inode
          tmp,        \* manifests/NAME.tmp: the installation it describes
          manifests,  \* manifests/NAME.json: likewise
          cache,      \* Registry.cache
          bus,        \* the call on the bus thread: [op, at, name, of, saw]
          calls,      \* bus calls so far
          overlap,    \* installations that ran beside a removal
          missed      \* a publication fell between a list's two steps

storeVars == <<ipc, helper, fd, content, staged, blobs, tmp, manifests, cache,
               bus, calls, overlap, missed>>

files == <<staged, blobs, tmp, manifests>>

NoCall == [op |-> "none", at |-> "none", name |-> Nothing, of |-> Nothing,
           saw |-> Nothing]

StoreInit == /\ ipc = [i \in Installs |-> "idle"]
             /\ helper = [i \in Installs |-> "off"]
             /\ fd = [i \in Installs |-> Nothing]
             /\ content = [i \in Installs |-> Nothing]
             /\ staged = [n \in Models |-> Nothing]
             /\ blobs = [d \in Wanted |-> Nothing]
             /\ tmp = [n \in Models |-> Nothing]
             /\ manifests = [n \in Models |-> Nothing]
             /\ cache = Nothing
             /\ bus = NoCall /\ calls = 0 /\ overlap = {} /\ missed = FALSE

Name(i) == JobOf[i].name
Want(i) == JobOf[i].want
IsRemote(i) == Want(i) = Remote
StoreStep(i, to) == ipc' = [ipc EXCEPT ![i] = to]
Unlink(table, key) == [table EXCEPT ![key] = Nothing]
Removing == bus.op = "remove"

-----------------------------------------------------------------------------
(* install: the fetch.                                                     *)

\* A local source clears the download's name and starts the helper; a
\* remote: one goes straight to register_remote, or is refused.
InstallBegin(i) ==
  /\ ipc[i] = "idle"
  /\ IF IsRemote(i)
       THEN /\ StoreStep(i, "publish") \/ StoreStep(i, "failed")
            /\ UNCHANGED <<helper, staged>>
       ELSE /\ StoreStep(i, "fetch")
            /\ staged' = Unlink(staged, Name(i))
            /\ helper' = [helper EXCEPT ![i] = "started"]
  /\ UNCHANGED <<fd, content, blobs, tmp, manifests, cache, bus, calls,
                 overlap, missed>>

\* The helper opens its output, truncating a file already there.  Once the
\* daemon gave up its job file is gone, and the helper fails at once.
HelperOpen(i) ==
  /\ helper[i] = "started"
  /\ IF ipc[i] = "fetch"
       THEN LET ino == IF staged[Name(i)] = Nothing THEN i ELSE staged[Name(i)]
            IN  /\ staged' = [staged EXCEPT ![Name(i)] = ino]
                /\ content' = [content EXCEPT ![ino] = i]
                /\ fd' = [fd EXCEPT ![i] = ino]
                /\ helper' = [helper EXCEPT ![i] = "writing"]
       ELSE /\ helper' = [helper EXCEPT ![i] = "failed"]
            /\ UNCHANGED <<staged, content, fd>>
  /\ UNCHANGED <<ipc, blobs, tmp, manifests, cache, bus, calls, overlap, missed>>

\* The last byte arrives: what was asked for, or something else.  Two
\* helpers on one inode leave neither's bytes.
HelperFinish(i) ==
  /\ helper[i] = "writing"
  /\ \E got \in {Want(i), Junk} :
       content' = [content EXCEPT ![fd[i]] = IF @ = i THEN got ELSE Junk]
  /\ helper' = [helper EXCEPT ![i] = "written"]
  /\ UNCHANGED <<ipc, fd, files, cache, bus, calls, overlap, missed>>

\* The helper hashes its output by name and reports; it removes the output
\* when the transfer or the hashing failed.
HelperReport(i) ==
  /\ \/ /\ helper[i] = "written" /\ staged[Name(i)] # Nothing
        /\ helper' = [helper EXCEPT ![i] = "ok"]
        /\ UNCHANGED staged
     \/ /\ \/ helper[i] = "writing"
           \/ helper[i] = "written" /\ staged[Name(i)] = Nothing
        /\ helper' = [helper EXCEPT ![i] = "failed"]
        /\ staged' = Unlink(staged, Name(i))
  /\ UNCHANGED <<ipc, fd, content, blobs, tmp, manifests, cache, bus, calls,
                 overlap, missed>>

\* The report is read, or an hour has passed.  A failed fetch, a file without
\* the GGUF magic and a model no backend serves have their download removed.
InstallReport(i) ==
  /\ ipc[i] = "fetch"
  /\ \/ helper[i] = "ok" /\ StoreStep(i, "check") /\ UNCHANGED staged
     \/ /\ StoreStep(i, "failed")
        /\ staged' = Unlink(staged, Name(i))
  /\ UNCHANGED <<helper, fd, content, blobs, tmp, manifests, cache, bus, calls,
                 overlap, missed>>

-----------------------------------------------------------------------------
(* accept_staged and register_remote.                                      *)

\* The digest of the bytes on disk.
CheckSkipped(i) ==
  /\ ipc[i] = "check"
  /\ StoreStep(i, IF staged[Name(i)] = Nothing THEN "failed" ELSE "place")
  /\ overlap' = IF Removing THEN overlap \cup {i} ELSE overlap
  /\ UNCHANGED <<helper, fd, content, files, cache, bus, calls, missed>>

InstallCheck(i) ==
  /\ ipc[i] = "check"
  /\ LET ino == staged[Name(i)]
         good == ino # Nothing /\ content[ino] = Want(i)
     IN  /\ StoreStep(i, IF good THEN "place" ELSE "failed")
         /\ staged' = IF good THEN staged ELSE Unlink(staged, Name(i))
  /\ overlap' = IF Removing THEN overlap \cup {i} ELSE overlap
  /\ UNCHANGED <<helper, fd, content, blobs, tmp, manifests, cache, bus, calls,
                 missed>>

\* Into the store by rename, or dropped when the store has that digest.
PlaceCopyKept(i) ==
  /\ ipc[i] = "place" /\ staged[Name(i)] # Nothing
  /\ StoreStep(i, "publish")
  /\ blobs' = [blobs EXCEPT ![Want(i)] =
                 IF @ = Nothing THEN staged[Name(i)] ELSE @]
  /\ staged' = IF blobs[Want(i)] = Nothing THEN Unlink(staged, Name(i)) ELSE staged
  /\ UNCHANGED <<helper, fd, content, tmp, manifests, cache, bus, calls,
                 overlap, missed>>

InstallPlace(i) ==
  /\ ipc[i] = "place"
  /\ \/ /\ blobs[Want(i)] # Nothing
        /\ StoreStep(i, "publish") /\ UNCHANGED blobs
     \/ /\ blobs[Want(i)] = Nothing /\ staged[Name(i)] = Nothing
        /\ StoreStep(i, "failed") /\ UNCHANGED blobs
     \/ /\ blobs[Want(i)] = Nothing /\ staged[Name(i)] # Nothing
        /\ StoreStep(i, "publish")
        /\ blobs' = [blobs EXCEPT ![Want(i)] = staged[Name(i)]]
  /\ staged' = Unlink(staged, Name(i))
  /\ UNCHANGED <<helper, fd, content, tmp, manifests, cache, bus, calls,
                 overlap, missed>>

\* write_atomic's write, and its rename.
InstallWriteTmp(i) ==
  /\ ipc[i] = "publish"
  /\ tmp' = [tmp EXCEPT ![Name(i)] = i]
  /\ StoreStep(i, "rename")
  /\ UNCHANGED <<helper, fd, content, staged, blobs, manifests, cache, bus,
                 calls, overlap, missed>>

InstallRename(i) ==
  /\ ipc[i] = "rename"
  /\ IF tmp[Name(i)] = Nothing
       THEN StoreStep(i, "failed") /\ UNCHANGED <<tmp, manifests>>
       ELSE /\ manifests' = [manifests EXCEPT ![Name(i)] = tmp[Name(i)]]
            /\ tmp' = Unlink(tmp, Name(i))
            /\ StoreStep(i, "invalidate")
  /\ UNCHANGED <<helper, fd, content, staged, blobs, cache, bus, calls,
                 overlap, missed>>

InvalidateForgotten(i) ==
  /\ ipc[i] = "invalidate"
  /\ missed' = (bus.at = "store")
  /\ StoreStep(i, "done")
  /\ UNCHANGED <<helper, fd, content, files, cache, bus, calls, overlap>>

InstallInvalidate(i) ==
  /\ ipc[i] = "invalidate"
  /\ cache' = Nothing
  /\ missed' = (bus.at = "store")
  /\ StoreStep(i, "done")
  /\ UNCHANGED <<helper, fd, content, files, bus, calls, overlap>>

-----------------------------------------------------------------------------
(* The bus thread: list, and remove, which also reads the manifests.       *)

ListBegin ==
  /\ bus = NoCall /\ calls < Removals
  /\ calls' = calls + 1
  /\ bus' = [NoCall EXCEPT !.op = "list", !.at = "scan"]
  /\ UNCHANGED <<ipc, helper, fd, content, files, cache, overlap, missed>>

RemoveBegin(n) ==
  /\ bus = NoCall /\ calls < Removals /\ manifests[n] # Nothing
  /\ calls' = calls + 1
  /\ bus' = [op |-> "remove", at |-> "unlink", name |-> n, of |-> manifests[n],
             saw |-> Nothing]
  /\ overlap' = overlap \cup
       {i \in Installs : ipc[i] \in {"place", "publish", "rename"}}
  /\ UNCHANGED <<ipc, helper, fd, content, files, cache, missed>>

\* The manifest goes, and the cache with it.
UnlinkCacheKept ==
  /\ bus.at = "unlink"
  /\ manifests' = Unlink(manifests, bus.name)
  /\ bus' = [bus EXCEPT !.at = "scan"]
  /\ UNCHANGED <<ipc, helper, fd, content, staged, blobs, tmp, cache, calls,
                 overlap, missed>>

RemoveUnlink ==
  /\ bus.at = "unlink"
  /\ manifests' = Unlink(manifests, bus.name)
  /\ cache' = Nothing
  /\ missed' = FALSE
  /\ bus' = [bus EXCEPT !.at = "scan"]
  /\ UNCHANGED <<ipc, helper, fd, content, staged, blobs, tmp, calls, overlap>>

\* system_manifests: the cache, or the directory, which is then cached.
SystemManifests ==
  /\ bus.at = "scan"
  /\ IF cache # Nothing
       THEN bus' = [bus EXCEPT !.at = "use", !.saw = cache]
       ELSE bus' = [bus EXCEPT !.at = "store", !.saw = manifests]
  /\ UNCHANGED <<ipc, helper, fd, content, files, cache, calls, overlap, missed>>

StoreCache ==
  /\ bus.at = "store"
  /\ cache' = bus.saw
  /\ bus' = [bus EXCEPT !.at = "use"]
  /\ UNCHANGED <<ipc, helper, fd, content, files, calls, overlap, missed>>

\* The blob goes unless a manifest of the same digest was seen.
SameName(saw, i) == saw[Name(i)] # Nothing /\ Want(saw[Name(i)]) = Want(i)

StillReferenced(saw, i) ==
  \E n \in Models : saw[n] # Nothing /\ Want(saw[n]) = Want(i)

BusReturn ==
  /\ bus.at = "use"
  /\ blobs' = IF /\ bus.op = "remove"
                 /\ ~ StillReferenced(bus.saw, bus.of)
                 /\ ~ IsRemote(bus.of)
                THEN Unlink(blobs, Want(bus.of)) ELSE blobs
  /\ bus' = NoCall
  /\ UNCHANGED <<ipc, helper, fd, content, staged, tmp, manifests, cache, calls,
                 overlap, missed>>

StoreNext ==
  \/ \E i \in Installs :
       \/ InstallBegin(i) \/ HelperOpen(i) \/ HelperFinish(i) \/ HelperReport(i)
       \/ InstallReport(i) \/ InstallCheck(i) \/ InstallPlace(i)
       \/ InstallWriteTmp(i) \/ InstallRename(i) \/ InstallInvalidate(i)
  \/ ListBegin \/ RemoveUnlink \/ SystemManifests \/ StoreCache \/ BusReturn
  \/ \E n \in Models : RemoveBegin(n)

StoreSpec == StoreInit /\ [][StoreNext]_storeVars

-----------------------------------------------------------------------------
Quiet == /\ bus = NoCall
         /\ \A i \in Installs : ipc[i] \in {"idle", "done", "failed"}

(* Under every digest the store holds the bytes of that digest, also when  *)
(* a helper goes on writing after the daemon gave up on it (accept_staged: *)
(* the digest is verified over the bytes actually on disk).                *)
BlobsMatchDigest ==
  \A d \in Wanted : blobs[d] # Nothing => content[blobs[d]] = d

(* The weights of every installed local model are in the store, unless its *)
(* installation ran beside a removal: removing one model never takes the   *)
(* blob another one was installed with (remove's reference count).         *)
ManifestHasBlob ==
  \A n \in Models : LET i == manifests[n] IN
    (i # Nothing /\ i \notin overlap /\ ~ IsRemote(i)) => blobs[Want(i)] # Nothing

(* When nothing is in progress every blob belongs to some model, so a      *)
(* removal leaves no weights behind that no later removal could reach.     *)
NoOrphanBlob ==
  Quiet => \A d \in Wanted : blobs[d] # Nothing =>
             \E n \in Models : manifests[n] # Nothing /\ Want(manifests[n]) = d

(* The list of models never goes on showing an old state of the store,     *)
(* except after an installation published between the moment a list read   *)
(* the directory and the moment it filled the cache.                       *)
CacheFollowsStore ==
  (cache # Nothing /\ ~ missed /\ Quiet) => cache = manifests

(* A failed or finished installation leaves no download behind, unless its *)
(* helper outlived it (install and the helper remove NAME.part).           *)
StagingEmptied ==
  \A i \in Installs : (ipc[i] \in {"done", "failed"} /\
                       helper[i] \in {"ok", "failed"}) => staged[Name(i)] = Nothing

\* Manifests, blobs, downloads and the cached list agree, but for the races
\* that overlap and missed record (accept_staged, remove, list).
StoreAgrees ==
  ManifestHasBlob /\ NoOrphanBlob /\ CacheFollowsStore /\ StagingEmptied
=============================================================================
