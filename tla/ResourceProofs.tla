--------------------------- MODULE ResourceProofs ---------------------------
(***************************************************************************)
(* Proofs about what the daemon keeps for its sessions: the instances of   *)
(* BackendPool, for any number of them and of sessions, and the files of   *)
(* ModelStore, for any models.                                             *)
(***************************************************************************)
EXTENDS BackendPool, ModelStore, TLAPS

-----------------------------------------------------------------------------
(* BackendPool.  The inductive invariant is PoolInv.  NoSenderOutlives     *)
(* holds because begin registers its sender before it looks at the alive   *)
(* flag and the reader lowers the flag before it drops the senders;        *)
(* PoolBooks says when the flag is up.  RequestsApart holds because an id  *)
(* in use was drawn before the next one.                                   *)

\* The worker's and the canceller's threads of sessions are distinct.
LEMMA ThreadsApart ==
  /\ \A s \in Sessions : W(s) \in Threads /\ C(s) \in Threads
  /\ \A s, t \in Sessions : W(s) # C(t) /\ (W(s) = W(t) => s = t)
  BY Zenon DEF W, C, Threads

\* Initially there is no instance.
LEMMA InitPool == PoolInit => PoolInv
<1>. SUFFICES ASSUME PoolInit PROVE PoolInv
  BY Zenon
<1>1. PoolTypeOK
  BY PoolAssumption DEF PoolInit, PoolTypeOK, PCs, Instances
<1>2. NoSenderOutlives
  BY Zenon DEF PoolInit, NoSenderOutlives
<1>3. RequestsApart
  BY ThreadsApart, Zenon DEF PoolInit, RequestsApart
<1>4. PoolBooks
  BY ThreadsApart, PoolAssumption DEF PoolInit, PoolBooks, Instances
<1>. QED  BY <1>1, <1>2, <1>3, <1>4, Zenon DEF PoolInv

\* A thread that has no request before its step nor after it, and leaves the
\* instances alone, disturbs nobody's request (get, cancel_in_flight).
LEMMA QuietInv ==
  ASSUME NEW t \in Threads, PoolInv, PoolTypeOK',
         place[t] \notin {"send", "streaming"},
         place'[t] \notin {"send", "streaming"},
         \A u \in Threads \ {t} : /\ place'[u] = place[u]
                                  /\ handle'[u] = handle[u]
                                  /\ req'[u] = req[u],
         handle'[t] <= spawned,
         UNCHANGED <<spawned, alive, reader, next_req, inflight>>
  PROVE  PoolInv'
<1>. USE DEF PoolInv
<1>1. \A s \in Sessions :
        /\ place[W(s)] \in {"send", "streaming"}
             => place'[W(s)] = place[W(s)] /\ Mine(s)' = Mine(s)
        /\ place'[W(s)] \in {"send", "streaming"}
             => /\ place'[W(s)] = place[W(s)] /\ Mine(s)' = Mine(s)
                /\ handle'[W(s)] = handle[W(s)] /\ req'[W(s)] = req[W(s)]
  BY ThreadsApart, Zenon DEF Mine
<1>2. NoSenderOutlives'
  BY <1>1 DEF NoSenderOutlives
<1>3. RequestsApart'
  BY <1>1 DEF RequestsApart
<1>4. PoolBooks'
  BY <1>1, ThreadsApart, Zenon DEF PoolBooks
<1>. QED  BY <1>2, <1>3, <1>4, Zenon

\* get finds an instance alive or none (Backends::get).
LEMMA LookInv ==
  ASSUME NEW t \in Threads, PoolInv, Look(t)
  PROVE  PoolInv'
<1>1. PoolTypeOK'
  BY ThreadsApart, PoolAssumption DEF PoolInv, PoolTypeOK, PCs, Look, MoveTo, PoolBooks
<1>. QED  BY <1>1, QuietInv, ThreadsApart, PoolAssumption
          DEF PoolInv, PoolTypeOK, Look, MoveTo, PoolBooks

\* No process: get returns its error (Backends::get).
LEMMA SpawnFailsInv ==
  ASSUME NEW t \in Threads, PoolInv, SpawnFails(t)
  PROVE  PoolInv'
<1>1. PoolTypeOK'
  BY ThreadsApart, PoolAssumption DEF PoolInv, PoolTypeOK, PCs, SpawnFails, GoIdle, MoveTo,
     PoolBooks
<1>. QED  BY <1>1, QuietInv, ThreadsApart, PoolAssumption, Zenon
          DEF PoolInv, PoolTypeOK, SpawnFails, GoIdle, MoveTo, PoolBooks

\* get stores what it spawned (Backends::get).
LEMMA StoreInv ==
  ASSUME NEW t \in Threads, PoolInv, Store(t)
  PROVE  PoolInv'
<1>1. PoolTypeOK'
  BY ThreadsApart, PoolAssumption DEF PoolInv, PoolTypeOK, PCs, Store, MoveTo, PoolBooks
<1>. QED  BY <1>1, QuietInv, ThreadsApart, PoolAssumption
          DEF PoolInv, PoolTypeOK, Store, MoveTo, PoolBooks

\* A turn begins (Worker::turn).
LEMMA TurnInv ==
  ASSUME NEW s \in Sessions, PoolInv, Turn(s)
  PROVE  PoolInv'
<1>1. PoolTypeOK'
  BY ThreadsApart, PoolAssumption, Zenon DEF PoolInv, PoolTypeOK, PCs, Turn, MoveTo, PoolBooks
<1>. QED  BY <1>1, QuietInv, ThreadsApart, PoolAssumption
          DEF PoolInv, PoolTypeOK, Turn, MoveTo, PoolBooks

\* A canceller reads the worker's id (cancel_in_flight).
LEMMA CancelInv ==
  ASSUME NEW s \in Sessions, PoolInv, Cancel(s)
  PROVE  PoolInv'
<1>1. PoolTypeOK'
  BY ThreadsApart, PoolAssumption, Zenon DEF PoolInv, PoolTypeOK, PCs, Cancel, MoveTo, PoolBooks
<1>. QED  BY <1>1, QuietInv, ThreadsApart, PoolAssumption
          DEF PoolInv, PoolTypeOK, Cancel, MoveTo, PoolBooks

\* A canceller has told an instance (Backend::cancel).
LEMMA CancelSendInv ==
  ASSUME NEW s \in Sessions, PoolInv, CancelSend(s)
  PROVE  PoolInv'
<1>1. PoolTypeOK'
  BY ThreadsApart, PoolAssumption DEF PoolInv, PoolTypeOK, PCs, CancelSend, GoIdle, MoveTo,
     PoolBooks
<1>. QED  BY <1>1, QuietInv, ThreadsApart, PoolAssumption
          DEF PoolInv, PoolTypeOK, CancelSend, GoIdle, MoveTo, PoolBooks

\* A spawned instance is one nobody holds yet (Backend::spawn).
LEMMA SpawnInv ==
  ASSUME NEW t \in Threads, PoolInv, Spawn(t)
  PROVE  PoolInv'
<1>. USE DEF PoolInv, Spawn, MoveTo
<1>1. PoolTypeOK'
  BY PoolAssumption DEF PoolTypeOK, PCs, Instances
<1>2. \A s \in Sessions :
        /\ place[W(s)] \in {"send", "streaming"}
             => place'[W(s)] = place[W(s)] /\ Mine(s)' = Mine(s)
        /\ place'[W(s)] \in {"send", "streaming"}
             => /\ place'[W(s)] = place[W(s)] /\ Mine(s)' = Mine(s)
                /\ handle'[W(s)] = handle[W(s)] /\ req'[W(s)] = req[W(s)]
                /\ reader'[handle[W(s)]] = reader[handle[W(s)]]
  BY ThreadsApart, PoolAssumption DEF PoolTypeOK, PoolBooks, Mine, Instances
<1>3. NoSenderOutlives'
  BY <1>2, PoolAssumption DEF NoSenderOutlives, PoolTypeOK, Instances
<1>4. RequestsApart'
  BY <1>2 DEF RequestsApart
<1>5. PoolBooks'
  BY <1>2, ThreadsApart, PoolAssumption DEF PoolBooks, PoolTypeOK, Instances
<1>. QED  BY <1>1, <1>3, <1>4, <1>5, Zenon

\* A request draws an id that nobody on its instance has (begin).
LEMMA BeginInv ==
  ASSUME NEW s \in Sessions, PoolInv, Begin(s)
  PROVE  PoolInv'
<1>. USE DEF PoolInv, Begin, MoveTo
<1>. DEFINE i == handle[W(s)]
<1>0. /\ W(s) \in Threads /\ place[W(s)] = "have"
      /\ i \in Instances /\ next_req[i] \in 1..MaxRequests
  <2>1. W(s) \in Threads /\ place[W(s)] = "have"
    BY ThreadsApart, Zenon
  <2>2. i \in 0..MaxInstances /\ i # 0
    BY <2>1, Zenon DEF PoolTypeOK
  <2>3. i \in Instances
    BY <2>2, PoolAssumption DEF Instances
  <2>4. next_req[i] \in 1..(MaxRequests + 1) /\ next_req[i] <= MaxRequests
    BY <2>3, Zenon DEF PoolTypeOK
  <2>. QED  BY <2>1, <2>3, <2>4, PoolAssumption
<1>1. PoolTypeOK'
  <2>1. next_req[i] + 1 \in 1..(MaxRequests + 1) /\ next_req[i] \in 0..MaxRequests
    BY <1>0, PoolAssumption
  <2>2. next_req' \in [Instances -> 1..(MaxRequests + 1)] /\ req' \in [Threads -> 0..MaxRequests]
    BY <1>0, <2>1, Zenon DEF PoolTypeOK
  <2>3. inflight' \subseteq Instances \X (1..MaxRequests)
    BY <1>0 DEF PoolTypeOK
  <2>4. /\ place' \in [Threads -> PCs]
        /\ \A t \in Threads : handle'[t] = 0 <=> place'[t] \in {"idle", "get", "spawn"}
    BY <1>0, Zenon DEF PoolTypeOK, PCs
  <2>. QED  BY <2>2, <2>3, <2>4, Zenon DEF PoolTypeOK
<1>2. /\ place'[W(s)] = "send" /\ handle'[W(s)] = i
      /\ req'[W(s)] = next_req[i] /\ Mine(s)' = <<i, next_req[i]>>
  BY <1>0, Zenon DEF PoolTypeOK, Mine
<1>3. \A u \in Sessions \ {s} :
        /\ place'[W(u)] = place[W(u)] /\ handle'[W(u)] = handle[W(u)]
        /\ req'[W(u)] = req[W(u)] /\ Mine(u)' = Mine(u)
  BY ThreadsApart, Zenon DEF PoolTypeOK, Mine
<1>4. inflight' = inflight \cup {<<i, next_req[i]>>}
  BY Zenon
<1>5. \A u \in Sessions \ {s} : place[W(u)] \in {"send", "streaming"}
        => Mine(u) # <<i, next_req[i]>>
  BY <1>0, ThreadsApart, PoolAssumption DEF PoolBooks, PoolTypeOK, Mine, Instances
<1>6. NoSenderOutlives'
  BY <1>0, <1>2, <1>3, <1>4, Zenon DEF NoSenderOutlives
<1>7. RequestsApart'
  BY <1>2, <1>3, <1>4, <1>5 DEF RequestsApart
<1>8. PoolBooks'
  <2>1. next_req' = [next_req EXCEPT ![i] = @ + 1]
    BY Zenon
  <2>2. next_req'[i] = next_req[i] + 1
    BY <1>0, <2>1, Zenon DEF PoolTypeOK
  <2>3. ASSUME NEW u \in Sessions \ {s}, place[W(u)] \in {"send", "streaming"}
        PROVE  req[W(u)] > 0 /\ req[W(u)] < next_req'[handle[W(u)]]
    <3>1. handle[W(u)] \in 0..MaxInstances /\ handle[W(u)] # 0
      BY <2>3, ThreadsApart, Zenon DEF PoolTypeOK
    <3>2. handle[W(u)] \in Instances
      BY <3>1, PoolAssumption DEF Instances
    <3>3. req[W(u)] \in Nat /\ next_req[handle[W(u)]] \in Nat
      BY <3>2, ThreadsApart, PoolAssumption DEF PoolTypeOK
    <3>4. next_req'[handle[W(u)]] = IF handle[W(u)] = i THEN next_req[i] + 1
                                    ELSE next_req[handle[W(u)]]
      BY <2>1, <3>2, Zenon DEF PoolTypeOK
    <3>. QED  BY <2>3, <3>3, <3>4 DEF PoolBooks
  <2>4. req'[W(s)] > 0 /\ req'[W(s)] < next_req'[handle'[W(s)]]
    BY <1>0, <1>2, <2>2
  <2>5. UNCHANGED <<alive, spawned, reader, handle>>
    BY Zenon
  <2>. QED  BY <1>3, <2>3, <2>4, <2>5, Zenon DEF PoolBooks
<1>. QED  BY <1>1, <1>6, <1>7, <1>8, Zenon

\* A request is sent to an instance whose flag is up (send).
LEMMA SentInv ==
  ASSUME NEW s \in Sessions, PoolInv, Sent(s)
  PROVE  PoolInv'
<1>. USE DEF PoolInv, Sent, MoveTo
<1>0. /\ place'[W(s)] = "streaming" /\ place[W(s)] = "send"
      /\ reader[handle[W(s)]] = "reading"
      /\ \A u \in Sessions \ {s} : place'[W(u)] = place[W(u)]
      /\ \A u \in Sessions : Mine(u)' = Mine(u)
  BY ThreadsApart, Zenon DEF PoolTypeOK, PoolBooks, Mine
<1>1. PoolTypeOK'
  BY ThreadsApart, Zenon DEF PoolTypeOK, PCs
<1>2. NoSenderOutlives'
  BY <1>0 DEF NoSenderOutlives, Mine
<1>3. RequestsApart'
  BY <1>0 DEF RequestsApart
<1>4. PoolBooks'
  BY <1>0, Zenon DEF PoolBooks
<1>. QED  BY <1>1, <1>2, <1>3, <1>4, Zenon

\* A worker takes back its own sender and no other (begin's error, finish).
LEMMA TakesBackInv ==
  ASSUME NEW s \in Sessions, PoolInv, place[W(s)] \in {"send", "streaming"},
         inflight' = inflight \ {Mine(s)}, GoIdle(W(s)),
         UNCHANGED <<live, spawned, alive, reader, next_req>>
  PROVE  PoolInv'
<1>. USE DEF PoolInv, GoIdle, MoveTo
<1>1. PoolTypeOK'
  BY ThreadsApart, PoolAssumption DEF PoolTypeOK, PCs
<1>2. /\ place'[W(s)] = "idle" /\ handle'[W(s)] = 0
      /\ \A u \in Sessions \ {s} :
           /\ place'[W(u)] = place[W(u)] /\ handle'[W(u)] = handle[W(u)]
           /\ req'[W(u)] = req[W(u)] /\ Mine(u)' = Mine(u)
  BY ThreadsApart, Zenon DEF PoolTypeOK, Mine
<1>3. NoSenderOutlives'
  BY <1>2, Zenon DEF NoSenderOutlives
<1>4. RequestsApart'
  BY <1>2 DEF RequestsApart
<1>5. PoolBooks'
  BY <1>2, ThreadsApart, PoolAssumption DEF PoolBooks, PoolTypeOK
<1>. QED  BY <1>1, <1>3, <1>4, <1>5, Zenon

\* The flag goes down before the senders go (reader_loop).
LEMMA ReaderEndsInv ==
  ASSUME NEW i \in Instances, PoolInv, ReaderEnds(i)
  PROVE  PoolInv'
<1>. USE DEF PoolInv
<1>0. \A s \in Sessions : /\ Mine(s)' = Mine(s) /\ place'[W(s)] = place[W(s)]
                          /\ handle'[W(s)] = handle[W(s)]
  BY Zenon DEF ReaderEnds, Mine
<1>1. PoolTypeOK'
  BY Zenon DEF ReaderEnds, PoolTypeOK
<1>2. NoSenderOutlives'
  BY <1>0 DEF ReaderEnds, NoSenderOutlives, PoolTypeOK
<1>3. RequestsApart'
  <2>1. \A s \in Sessions : Mine(s)[1] = handle[W(s)]
    BY Zenon DEF Mine
  <2>2. \A s \in Sessions : place[W(s)] \in {"send", "streaming"}
                              => handle[W(s)] \in 1..MaxInstances
    <3>. SUFFICES ASSUME NEW s \in Sessions, place[W(s)] \in {"send", "streaming"}
                  PROVE  handle[W(s)] \in 1..MaxInstances
      BY Zenon
    <3>1. handle[W(s)] \in 0..MaxInstances /\ handle[W(s)] # 0
      BY ThreadsApart, Zenon DEF PoolTypeOK
    <3>. QED  BY <3>1, PoolAssumption
  <2>3. ASSUME NEW s \in Sessions, place[W(s)] \in {"send", "streaming"},
               reader'[handle[W(s)]] = "reading"
        PROVE  Mine(s) \in inflight'
    <3>1. handle[W(s)] # i /\ reader[handle[W(s)]] = "reading"
      BY <2>2, <2>3, Zenon DEF ReaderEnds, PoolTypeOK, Instances
    <3>2. Mine(s) \in inflight
      BY <2>3, <3>1, Zenon DEF RequestsApart
    <3>. QED  BY <2>1, <3>1, <3>2, Zenon DEF ReaderEnds
  <2>. QED  BY <1>0, <2>3, Zenon DEF RequestsApart
<1>4. PoolBooks'
  <2>1. alive' = {j \in 1..spawned' : reader'[j] = "reading"}
    <3>1. 1..spawned \subseteq Instances /\ spawned' = spawned
      BY PoolAssumption DEF ReaderEnds, PoolTypeOK, Instances
    <3>. QED  BY <3>1, Zenon DEF ReaderEnds, PoolBooks, PoolTypeOK
  <2>2. UNCHANGED <<place, handle, req, next_req, spawned>>
    BY Zenon DEF ReaderEnds
  <2>. QED  BY <2>1, <2>2, Zenon DEF PoolBooks
<1>. QED  BY <1>1, <1>2, <1>3, <1>4, Zenon

\* Every step keeps the invariant.
LEMMA NextPool == PoolInv /\ [PoolNext]_poolVars => PoolInv'
<1>. SUFFICES ASSUME PoolInv, [PoolNext]_poolVars PROVE PoolInv'
  BY Zenon
<1>1. CASE UNCHANGED poolVars
  BY <1>1 DEF poolVars, PoolInv, PoolTypeOK, NoSenderOutlives, RequestsApart,
              PoolBooks, Mine
<1>2. ASSUME NEW t \in Threads, Gets(t) PROVE PoolInv'
  BY <1>2, LookInv, SpawnInv, SpawnFailsInv, StoreInv, Zenon DEF Gets
<1>3. ASSUME NEW s \in Sessions, SendFails(s) \/ Done(s) \/ Disconnected(s)
      PROVE  PoolInv'
  BY <1>3, TakesBackInv, Zenon DEF SendFails, Done, Disconnected, Finish
<1>4. ASSUME NEW s \in Sessions, Works(s) \/ Cancel(s) \/ CancelSend(s)
      PROVE  PoolInv'
  BY <1>3, <1>4, TurnInv, BeginInv, SentInv, CancelInv, CancelSendInv, Zenon DEF Works
<1>5. ASSUME NEW i \in Instances, ReaderEnds(i) PROVE PoolInv'
  BY <1>5, ReaderEndsInv, Zenon
<1>. QED  BY <1>1, <1>2, <1>4, <1>5, Zenon DEF PoolNext

\* Requests stay apart and no sender outlives its reader, except inside begin,
\* for any number of sessions, instances and requests (begin, reader_loop).
THEOREM PoolHolds == PoolSpec => []PoolInv
  BY InitPool, NextPool, PTL DEF PoolSpec

\* Once its reader has ended, a streaming request has no sender left, so its
\* worker sees the channel closed and is not left waiting (reader_loop).
THEOREM NobodyHangs ==
  PoolSpec => [](\A s \in Sessions :
                   place[W(s)] = "streaming" /\ reader[handle[W(s)]] = "ended"
                     => Mine(s) \notin inflight)
<1>1. PoolInv => (\A s \in Sessions :
                    place[W(s)] = "streaming" /\ reader[handle[W(s)]] = "ended"
                      => Mine(s) \notin inflight)
  <2>. SUFFICES ASSUME PoolInv, NEW s \in Sessions, place[W(s)] = "streaming",
                       reader[handle[W(s)]] = "ended", Mine(s) \in inflight
                PROVE  FALSE
    BY Zenon
  <2>1. PICK t \in Sessions : place[W(t)] = "send" /\ Mine(t) = Mine(s)
    BY Zenon DEF PoolInv, NoSenderOutlives, Mine
  <2>. QED  BY <2>1, Zenon DEF PoolInv, RequestsApart
<1>. QED  BY PoolHolds, <1>1, PTL

-----------------------------------------------------------------------------
(* ModelStore.  A manifest has its blob only because of what a removal     *)
(* under way knows of the manifests (RemovalFollows), and the cached list  *)
(* is right only because what a scan saw still is (CacheFresh).            *)

\* No two installations are of one model.
DistinctNames == \A i, j \in Installs : Name(i) = Name(j) => i = j

\* What the manifests, or a scan of them, map a name to.
Tables == [Models -> Installs \cup {Nothing}]

\* The types of the files and the installations.
StoreTyped ==
  /\ ipc \in [Installs -> {"idle", "fetch", "check", "place", "publish", "rename", "invalidate",
                           "done", "failed"}]
  /\ helper \in [Installs -> {"off", "started", "writing", "written", "ok", "failed"}]
  /\ DOMAIN fd = Installs /\ fd \in [Installs -> Installs \cup {Nothing}]
  /\ content \in [Installs -> Installs \cup {Want(i) : i \in Installs} \cup {Junk, Nothing}]
  /\ staged \in Tables /\ tmp \in Tables /\ manifests \in Tables
  /\ blobs \in [Wanted -> Installs \cup {Nothing}]
  /\ overlap \subseteq Installs

\* The type of the call on the bus and of the cached list.
BusTyped ==
  /\ bus \in [op : {"none", "list", "remove"}, at : {"none", "unlink", "scan", "store", "use"},
              name : Models \cup {Nothing}, of : Installs \cup {Nothing}, saw : Tables \cup {Nothing}]
  /\ cache \in Tables \cup {Nothing}
  /\ Removing => bus.of \in Installs /\ bus.name \in Models
  /\ bus.at \in {"store", "use"} => bus.saw \in Tables
  /\ bus.op = "none" <=> bus.at = "none"
  /\ bus.at = "unlink" => Removing

\* What the files under a name say of its installation.
FilesFollow ==
  \A i \in Installs :
    /\ staged[Name(i)] \in {i, Nothing}
    /\ tmp[Name(i)] = IF ipc[i] = "rename" THEN i ELSE Nothing
    /\ manifests[Name(i)] \in {i, Nothing}
    /\ manifests[Name(i)] = i => ipc[i] \in {"invalidate", "done"}
    /\ ipc[i] \notin {"fetch", "check", "place"} => staged[Name(i)] = Nothing

\* A download is written once, by its own helper, and has its digest when placed.
FetchFollows ==
  \A i \in Installs :
    /\ ipc[i] = "idle" => helper[i] = "off"
    /\ IsRemote(i) => helper[i] = "off" /\ ipc[i] \notin {"fetch", "check", "place"}
    /\ (~ IsRemote(i) /\ ipc[i] \in {"check", "place", "publish", "rename"}) => helper[i] = "ok"
    /\ helper[i] = "writing" => fd[i] = i
    /\ (ipc[i] = "place" /\ staged[Name(i)] = i) => content[i] = Want(i)

\* A blob in the store is a finished download with the digest in its name.
BlobsWhole ==
  \A d \in Wanted : blobs[d] # Nothing => helper[blobs[d]] = "ok" /\ content[blobs[d]] = d

\* An installation no removal has overlapped has its blob from placing it on.
Weights == \A i \in Installs :
  (/\ ~ IsRemote(i) /\ i \notin overlap
   /\ ipc[i] \in {"publish", "rename"} \/ manifests[Name(i)] = i) => blobs[Want(i)] # Nothing

\* What a removal knows.
RemovalFollows ==
  Removing =>
    /\ \A i \in Installs :
         ~ IsRemote(i) /\ ipc[i] \in {"place", "publish", "rename"} => i \in overlap
    /\ bus.at = "unlink" => manifests[bus.name] = bus.of
    /\ bus.at \in {"scan", "store"} => cache = Nothing
    /\ bus.at \in {"store", "use"} =>
         /\ \A i \in Installs : (~ IsRemote(i) /\ i \notin overlap /\ manifests[Name(i)] = i) =>
                                  bus.saw[Name(i)] = i
         /\ \A n \in Models : bus.saw[n] # Nothing => manifests[n] = bus.saw[n]

\* The blob that a removal under way is about to unlink.
Doomed(d) == /\ Removing /\ Want(bus.of) = d
             /\ \/ bus.at = "scan"
                \/ bus.at \in {"store", "use"} /\ ~ StillReferenced(bus.saw, bus.of)

\* A blob some manifest names, some installation is about to publish, or a
\* removal is about to unlink.
Owned(d) == \/ \E i \in Installs : /\ Want(i) = d
                                   /\ manifests[Name(i)] = i \/ ipc[i] \in {"publish", "rename"}
            \/ Doomed(d)

\* There are no others.
BlobsOwned == \A d \in Wanted : blobs[d] # Nothing => Owned(d)

\* An installation that has published and not yet dropped the cached list.
Invalidating == \E i \in Installs : ipc[i] = "invalidate"

\* But for such an installation and a list read across one, the cached list
\* is what is on disk.
CacheFresh ==
  (~ missed /\ ~ Invalidating) => /\ cache # Nothing => cache = manifests
                                  /\ bus.at = "store" => bus.saw = manifests

\* The inductive invariant.
StoreIInv == /\ StoreTyped /\ BusTyped /\ FilesFollow /\ FetchFollows /\ BlobsWhole
             /\ Weights /\ RemovalFollows /\ BlobsOwned /\ CacheFresh

\* What the jobs are.
LEMMA JobFacts ==
  /\ \A i \in Installs : Name(i) \in Models
  /\ \A n \in Models : \E i \in Installs : Name(i) = n
  /\ \A i \in Installs : IsRemote(i) <=> Want(i) \notin Wanted
  /\ Nothing \notin Installs
BY StoreJobsAssumption, Zenon DEF Models, Wanted, Name, Want, IsRemote

\* It holds of the empty store.
LEMMA InitStore == ASSUME StoreInit PROVE StoreIInv
<1>1. StoreTyped
  BY Zenon DEF StoreInit, StoreTyped, Tables
<1>2. BusTyped
  BY Zenon DEF StoreInit, BusTyped, NoCall, Removing
<1>3. FilesFollow
  BY JobFacts, Zenon DEF StoreInit, FilesFollow
<1>4. FetchFollows
  BY Zenon DEF StoreInit, FetchFollows
<1>5. BlobsWhole /\ Weights /\ RemovalFollows /\ BlobsOwned /\ CacheFresh
  BY JobFacts, Zenon DEF StoreInit, NoCall, BlobsWhole, Weights, RemovalFollows, BlobsOwned,
     CacheFresh, Removing
<1>. QED  BY <1>1, <1>2, <1>3, <1>4, <1>5, Zenon DEF StoreIInv

\* What such a step does to the download of i, and to no other.
Fetches(i) ==
  /\ \A j \in Installs : j # i => /\ ipc'[j] = ipc[j] /\ helper'[j] = helper[j] /\ fd'[j] = fd[j]
                                 /\ staged'[Name(j)] = staged[Name(j)] /\ content'[j] = content[j]
  /\ (ipc[i] = "rename" <=> ipc'[i] = "rename")
  /\ (ipc[i] \in {"invalidate", "done"} => ipc'[i] = ipc[i])
  /\ (ipc'[i] = "invalidate" => ipc[i] = "invalidate")
  /\ staged'[Name(i)] \in {i, Nothing}
  /\ (ipc[i] = "failed" => ipc'[i] = ipc[i])
  /\ (ipc'[i] \notin {"fetch", "check", "place"} => staged'[Name(i)] = Nothing)
  /\ (ipc'[i] = "idle" => helper'[i] = "off")
  /\ (IsRemote(i) => helper'[i] = "off" /\ ipc'[i] \notin {"fetch", "check", "place"})
  /\ ((~ IsRemote(i) /\ ipc'[i] \in {"check", "place", "publish", "rename"}) => helper'[i] = "ok")
  /\ (helper'[i] = "writing" => fd'[i] = i)
  /\ ((ipc'[i] = "place" /\ staged'[Name(i)] = i) => content'[i] = Want(i))
  /\ (helper[i] = "ok" => helper'[i] = "ok" /\ content'[i] = content[i])
  /\ overlap \subseteq overlap'
  /\ (IsRemote(i) \/ (ipc'[i] \in {"publish", "rename"} => ipc[i] = ipc'[i]))
  /\ (ipc[i] \in {"publish", "rename"} => ipc'[i] = ipc[i])
  /\ ((~ IsRemote(i) /\ Removing /\ ipc'[i] = "place") => ipc[i] = "place" \/ i \in overlap')

\* Each step on a download is one of these.
LEMMA FetchStep ==
  ASSUME DistinctNames, NEW i \in Installs, StoreTyped, FilesFollow, FetchFollows,
         \/ InstallBegin(i) \/ HelperOpen(i) \/ HelperFinish(i) \/ HelperReport(i)
         \/ InstallReport(i) \/ InstallCheck(i)
  PROVE  Fetches(i)
<1>0. /\ Name(i) \in Models /\ staged[Name(i)] \in {i, Nothing} /\ Nothing \notin Installs
      /\ ipc[i] \in {"idle", "fetch", "check", "place", "publish", "rename", "invalidate", "done", "failed"}
      /\ \A j \in Installs : j # i => Name(j) # Name(i) /\ Name(j) \in Models
  BY JobFacts, Zenon DEF StoreTyped, FilesFollow, DistinctNames
<1>1. /\ ipc[i] = "idle" => helper[i] = "off"
      /\ IsRemote(i) => helper[i] = "off" /\ ipc[i] \notin {"fetch", "check", "place"}
      /\ (~ IsRemote(i) /\ ipc[i] \in {"check", "place", "publish", "rename"}) => helper[i] = "ok"
      /\ helper[i] = "writing" => fd[i] = i
      /\ (ipc[i] = "place" /\ staged[Name(i)] = i) => content[i] = Want(i)
      /\ ipc[i] \notin {"fetch", "check", "place"} => staged[Name(i)] = Nothing
  BY Zenon DEF FetchFollows, FilesFollow
<1>2. CASE InstallBegin(i)
  <2>1. /\ \A j \in Installs : j # i => /\ ipc'[j] = ipc[j] /\ helper'[j] = helper[j] /\ fd'[j] = fd[j]
                                     /\ staged'[Name(j)] = staged[Name(j)] /\ content'[j] = content[j]
    BY <1>0, <1>1, <1>2, ZenonT(40) DEF InstallBegin, StoreTyped, Tables, StoreStep, Unlink
  <2>2. /\ ipc[i] = "idle" /\ helper[i] = "off" /\ fd' = fd /\ content' = content /\ overlap' = overlap
       /\ \/ IsRemote(i) /\ ipc'[i] \in {"publish", "failed"} /\ helper' = helper /\ staged' = staged
          \/ ~ IsRemote(i) /\ ipc'[i] = "fetch" /\ helper'[i] = "started" /\ staged'[Name(i)] = Nothing
    BY <1>0, <1>1, <1>2 DEF InstallBegin, StoreTyped, Tables, StoreStep, Unlink
  <2>. QED  BY <1>0, <1>1, <2>1, <2>2, Zenon DEF Fetches
<1>3. CASE HelperOpen(i)
  <2>1. /\ \A j \in Installs : j # i => /\ ipc'[j] = ipc[j] /\ helper'[j] = helper[j] /\ fd'[j] = fd[j]
                                     /\ staged'[Name(j)] = staged[Name(j)] /\ content'[j] = content[j]
    BY <1>0, <1>1, <1>3 DEF HelperOpen, StoreTyped, Tables
  <2>2. /\ helper[i] = "started" /\ ipc' = ipc /\ overlap' = overlap
       /\ \/ ipc[i] = "fetch" /\ helper'[i] = "writing" /\ staged'[Name(i)] = i /\ fd'[i] = i
          \/ ipc[i] # "fetch" /\ helper'[i] = "failed" /\ staged' = staged /\ content' = content /\ fd' = fd
    BY <1>0, <1>1, <1>3 DEF HelperOpen, StoreTyped, Tables
  <2>. QED  BY <1>0, <1>1, <2>1, <2>2, Zenon DEF Fetches
<1>4. CASE HelperFinish(i)
  <2>1. /\ \A j \in Installs : j # i => /\ ipc'[j] = ipc[j] /\ helper'[j] = helper[j] /\ fd'[j] = fd[j]
                                     /\ staged'[Name(j)] = staged[Name(j)] /\ content'[j] = content[j]
    BY <1>0, <1>1, <1>4, Zenon DEF HelperFinish, StoreTyped, Tables, files
  <2>2. /\ helper[i] = "writing" /\ helper'[i] = "written" /\ ipc' = ipc /\ staged' = staged
       /\ fd' = fd /\ overlap' = overlap
    BY <1>0, <1>1, <1>4, Zenon DEF HelperFinish, StoreTyped, Tables, files
  <2>. QED  BY <1>0, <1>1, <2>1, <2>2, Zenon DEF Fetches
<1>5. CASE HelperReport(i)
  <2>1. /\ \A j \in Installs : j # i => /\ ipc'[j] = ipc[j] /\ helper'[j] = helper[j] /\ fd'[j] = fd[j]
                                     /\ staged'[Name(j)] = staged[Name(j)] /\ content'[j] = content[j]
    BY <1>0, <1>1, <1>5, Zenon DEF HelperReport, StoreTyped, Tables, Unlink
  <2>2. /\ helper[i] \in {"writing", "written"} /\ ipc' = ipc /\ fd' = fd /\ content' = content
       /\ overlap' = overlap
       /\ \/ helper'[i] = "ok" /\ staged' = staged
          \/ helper'[i] = "failed" /\ staged'[Name(i)] = Nothing
    BY <1>0, <1>1, <1>5 DEF HelperReport, StoreTyped, Tables, Unlink
  <2>. QED  BY <1>0, <1>1, <2>1, <2>2, Zenon DEF Fetches
<1>6. CASE InstallReport(i)
  <2>1. /\ \A j \in Installs : j # i => /\ ipc'[j] = ipc[j] /\ helper'[j] = helper[j] /\ fd'[j] = fd[j]
                                     /\ staged'[Name(j)] = staged[Name(j)] /\ content'[j] = content[j]
    BY <1>0, <1>1, <1>6, Zenon DEF InstallReport, StoreTyped, Tables, StoreStep, Unlink
  <2>2. /\ ipc[i] = "fetch" /\ helper' = helper /\ fd' = fd /\ content' = content /\ overlap' = overlap
       /\ \/ helper[i] = "ok" /\ ipc'[i] = "check" /\ staged' = staged
          \/ ipc'[i] = "failed" /\ staged'[Name(i)] = Nothing
    BY <1>0, <1>1, <1>6 DEF InstallReport, StoreTyped, Tables, StoreStep, Unlink
  <2>. QED  BY <1>0, <1>1, <2>1, <2>2, Zenon DEF Fetches
<1>7. CASE InstallCheck(i)
  <2>1. /\ \A j \in Installs : j # i => /\ ipc'[j] = ipc[j] /\ helper'[j] = helper[j] /\ fd'[j] = fd[j]
                                     /\ staged'[Name(j)] = staged[Name(j)] /\ content'[j] = content[j]
    BY <1>0, <1>1, <1>7, Zenon DEF InstallCheck, StoreTyped, Tables, StoreStep, Unlink
  <2>2. ipc[i] = "check" /\ helper' = helper /\ fd' = fd /\ content' = content
    BY <1>7, Zenon DEF InstallCheck
  <2>3. overlap \subseteq overlap' /\ (Removing => i \in overlap')
    BY <1>7, Zenon DEF InstallCheck
  <2>4. CASE staged[Name(i)] # Nothing /\ content[staged[Name(i)]] = Want(i)
    <3>1. ipc' = [ipc EXCEPT ![i] = "place"] /\ staged' = staged
      BY <1>7, <2>4, Zenon DEF InstallCheck, StoreStep
    <3>2. ipc'[i] = "place" /\ staged[Name(i)] = i /\ content[i] = Want(i)
      BY <1>0, <2>4, <3>1, Zenon DEF StoreTyped
    <3>. QED  BY <1>0, <1>1, <2>1, <2>2, <2>3, <3>1, <3>2, Zenon DEF Fetches
  <2>5. CASE ~ (staged[Name(i)] # Nothing /\ content[staged[Name(i)]] = Want(i))
    <3>1. ipc' = [ipc EXCEPT ![i] = "failed"] /\ staged' = Unlink(staged, Name(i))
      BY <1>7, <2>5, Zenon DEF InstallCheck, StoreStep
    <3>2. ipc'[i] = "failed" /\ staged'[Name(i)] = Nothing
      BY <1>0, <3>1, Zenon DEF StoreTyped, Tables, Unlink
    <3>. QED  BY <1>0, <1>1, <2>1, <2>2, <2>3, <3>2, Zenon DEF Fetches
  <2>. QED  BY <2>4, <2>5, Zenon
<1>. QED  BY <1>2, <1>3, <1>4, <1>5, <1>6, <1>7, Zenon

\* The parts of the invariant that a step on the downloads of i can disturb.
LEMMA FetchKeeps ==
  ASSUME DistinctNames, StoreIInv, NEW i \in Installs,
         \/ InstallBegin(i) \/ HelperOpen(i) \/ HelperFinish(i) \/ HelperReport(i)
         \/ InstallReport(i) \/ InstallCheck(i)
  PROVE  StoreIInv'
<1>0. /\ UNCHANGED <<blobs, tmp, manifests, cache, bus, missed>>
      /\ StoreTyped /\ BusTyped /\ FilesFollow /\ FetchFollows /\ BlobsWhole /\ Weights
      /\ RemovalFollows /\ BlobsOwned /\ CacheFresh
  BY Zenon DEF InstallBegin, HelperOpen, HelperFinish, HelperReport, InstallReport, InstallCheck,
     StoreIInv, files
<1>1. StoreTyped'
  <2>1. CASE InstallBegin(i)
    BY <1>0, <2>1 DEF InstallBegin, StoreTyped, StoreStep, Unlink, Tables
  <2>2. CASE HelperOpen(i)
    BY <1>0, <2>2, JobFacts DEF HelperOpen, StoreTyped, Tables
  <2>3. CASE HelperFinish(i)
    <3>1. helper[i] = "writing" /\ fd[i] = i
      BY <1>0, <2>3, Zenon DEF HelperFinish, FetchFollows
    <3>2. PICK got \in {Want(i), Junk} : content' = [content EXCEPT ![i] = IF @ = i THEN got ELSE Junk]
      BY <2>3, <3>1, Zenon DEF HelperFinish
    <3>3. /\ helper' = [helper EXCEPT ![i] = "written"]
          /\ UNCHANGED <<ipc, fd, staged, overlap>>
      BY <2>3, Zenon DEF HelperFinish, files
    <3>. QED  BY <1>0, <3>2, <3>3 DEF StoreTyped
  <2>4. CASE HelperReport(i)
    BY <1>0, <2>4, Zenon DEF HelperReport, StoreTyped, Unlink, Tables
  <2>5. CASE InstallReport(i)
    BY <1>0, <2>5 DEF InstallReport, StoreTyped, StoreStep, Unlink, Tables
  <2>6. CASE InstallCheck(i)
    BY <1>0, <2>6, Zenon DEF InstallCheck, StoreTyped, StoreStep, Unlink, Tables
  <2>. QED  BY <2>1, <2>2, <2>3, <2>4, <2>5, <2>6, Zenon
<1>2. BusTyped'
  BY <1>0, Zenon DEF BusTyped, Removing
<1>3. Fetches(i)
  BY <1>0, FetchStep, Zenon
<1>4. Name(i) \in Models /\ staged[Name(i)] \in {i, Nothing}
  BY <1>0, JobFacts, Zenon DEF FilesFollow
<1>5. \A j \in Installs : j # i => ipc'[j] = ipc[j] /\ tmp'[Name(j)] = tmp[Name(j)]
                              /\ manifests'[Name(j)] = manifests[Name(j)]
  BY <1>0, <1>3, Zenon DEF Fetches
<1>8. FilesFollow'
  BY <1>0, <1>3, <1>4, <1>5, ZenonT(40) DEF FilesFollow, Fetches
<1>9. FetchFollows'
  BY <1>0, <1>3, Zenon DEF FetchFollows, Fetches
<1>10. BlobsWhole'
  <2>1. \A j \in Installs : helper[j] = "ok" => helper'[j] = "ok" /\ content'[j] = content[j]
    BY <1>3, Zenon DEF Fetches
  <2>2. \A d \in Wanted : blobs[d] \in Installs \cup {Nothing}
    BY <1>0, Zenon DEF StoreTyped
  <2>. QED  BY <1>0, <2>1, <2>2, Zenon DEF BlobsWhole
<1>11. /\ overlap \subseteq overlap'
       /\ IsRemote(i) \/ (ipc'[i] \in {"publish", "rename"} => ipc[i] = ipc'[i])
       /\ (ipc[i] \in {"publish", "rename"} => ipc'[i] = ipc[i])
       /\ (~ IsRemote(i) /\ Removing /\ ipc'[i] = "place" => ipc[i] = "place" \/ i \in overlap')
       /\ (ipc[i] \in {"invalidate", "done"} => ipc'[i] = ipc[i])
       /\ (ipc'[i] = "invalidate" => ipc[i] = "invalidate")
       /\ (ipc[i] = "rename" <=> ipc'[i] = "rename")
       /\ (ipc[i] = "failed" => ipc'[i] = ipc[i])
  BY <1>3, Zenon DEF Fetches
<1>12. Weights'
  BY <1>0, <1>5, <1>11, Zenon DEF Weights
<1>13. RemovalFollows'
  BY <1>0, <1>5, <1>11, Zenon DEF RemovalFollows, Removing
<1>14. BlobsOwned'
  <2>1. \A d \in Wanted : Doomed(d) => Doomed(d)'
    BY <1>0, Zenon DEF Doomed, Removing, StillReferenced
  <2>2. \A d \in Wanted : Owned(d) => Owned(d)'
    BY <1>0, <1>5, <1>11, <2>1, Zenon DEF Owned
  <2>. QED  BY <1>0, <2>2, Zenon DEF BlobsOwned
<1>15. CacheFresh'
  BY <1>0, <1>5, <1>11, Zenon DEF CacheFresh, Invalidating
<1>. QED  BY <1>1, <1>2, <1>8, <1>9, <1>10, <1>12, <1>13, <1>14, <1>15, Zenon DEF StoreIInv

\* Placing the download.
LEMMA PlaceKeeps ==
  ASSUME DistinctNames, StoreIInv, NEW i \in Installs, InstallPlace(i)
  PROVE  StoreIInv'
<1>0. /\ UNCHANGED <<helper, fd, content, tmp, manifests, cache, bus, overlap, missed>>
      /\ StoreTyped /\ BusTyped /\ FilesFollow /\ FetchFollows /\ BlobsWhole /\ Weights
      /\ RemovalFollows /\ BlobsOwned /\ CacheFresh
      /\ ipc[i] = "place" /\ staged' = [staged EXCEPT ![Name(i)] = Nothing]
  BY Zenon DEF InstallPlace, StoreIInv, Unlink
<1>1. /\ ~ IsRemote(i) /\ Want(i) \in Wanted /\ helper[i] = "ok" /\ Name(i) \in Models
      /\ staged[Name(i)] \in {i, Nothing} /\ Nothing \notin Installs
  BY <1>0, JobFacts, Zenon DEF FetchFollows, FilesFollow
<1>2. \/ /\ ipc' = [ipc EXCEPT ![i] = "publish"] /\ blobs[Want(i)] # Nothing /\ blobs' = blobs
      \/ /\ ipc' = [ipc EXCEPT ![i] = "failed"] /\ blobs[Want(i)] = Nothing /\ blobs' = blobs
      \/ /\ ipc' = [ipc EXCEPT ![i] = "publish"] /\ blobs[Want(i)] = Nothing
         /\ blobs' = [blobs EXCEPT ![Want(i)] = i] /\ content[i] = Want(i)
  BY <1>0, <1>1, Zenon DEF InstallPlace, StoreStep, FetchFollows
<1>3. /\ \A j \in Installs : j # i => ipc'[j] = ipc[j] /\ staged'[Name(j)] = staged[Name(j)]
      /\ ipc'[i] \in {"publish", "failed"} /\ staged'[Name(i)] = Nothing
      /\ (ipc'[i] = "publish" => blobs'[Want(i)] # Nothing)
      /\ \A d \in Wanted : blobs[d] # Nothing => blobs'[d] = blobs[d]
  BY <1>0, <1>1, <1>2 DEF StoreTyped, Tables, DistinctNames
<1>4. StoreTyped'
  BY <1>0, <1>1, <1>2 DEF StoreTyped, Tables
<1>5. BusTyped'
  BY <1>0, Zenon DEF BusTyped, Removing
<1>6. FilesFollow'
  BY <1>0, <1>1, <1>3 DEF FilesFollow
<1>7. FetchFollows'
  BY <1>0, <1>1, <1>3, Zenon DEF FetchFollows
<1>8. BlobsWhole'
  BY <1>0, <1>1, <1>2 DEF BlobsWhole, StoreTyped
<1>9. Weights'
  BY <1>0, <1>1, <1>3, JobFacts, Zenon DEF Weights, FilesFollow
<1>10. RemovalFollows'
  BY <1>0, <1>1, <1>3, Zenon DEF RemovalFollows, Removing
<1>11. BlobsOwned'
  <2>1. \A d \in Wanted : Doomed(d) => Doomed(d)'
    BY <1>0, Zenon DEF Doomed, Removing, StillReferenced
  <2>2. \A d \in Wanted : Owned(d) => Owned(d)'
    BY <1>0, <1>3, <2>1, Zenon DEF Owned
  <2>3. ipc'[i] = "publish" => Owned(Want(i))'
    BY <1>0, Zenon DEF Owned
  <2>4. \A d \in Wanted : blobs'[d] # Nothing => blobs[d] # Nothing \/ (d = Want(i) /\ ipc'[i] = "publish")
    BY <1>1, <1>2, <1>0, Zenon DEF StoreTyped
  <2>. QED  BY <1>0, <2>2, <2>3, <2>4, Zenon DEF BlobsOwned
<1>12. CacheFresh'
  BY <1>0, <1>3, Zenon DEF CacheFresh, Invalidating
<1>. QED  BY <1>4, <1>5, <1>6, <1>7, <1>8, <1>9, <1>10, <1>11, <1>12, Zenon DEF StoreIInv

\* Writing the manifest, renaming it, and dropping the cached list.
LEMMA PublishKeeps ==
  ASSUME DistinctNames, StoreIInv, NEW i \in Installs,
         InstallWriteTmp(i) \/ InstallRename(i) \/ InstallInvalidate(i)
  PROVE  StoreIInv'
<1>0. /\ UNCHANGED <<helper, fd, content, staged, blobs, bus, overlap>>
      /\ StoreTyped /\ BusTyped /\ FilesFollow /\ FetchFollows /\ BlobsWhole /\ Weights
      /\ RemovalFollows /\ BlobsOwned /\ CacheFresh
  BY Zenon DEF InstallWriteTmp, InstallRename, InstallInvalidate, StoreIInv, files
<1>1. Name(i) \in Models /\ Nothing \notin Installs /\ tmp[Name(i)] = IF ipc[i] = "rename" THEN i ELSE Nothing
  BY <1>0, JobFacts, Zenon DEF FilesFollow
<1>2. \/ /\ ipc[i] = "publish" /\ ipc' = [ipc EXCEPT ![i] = "rename"] /\ tmp' = [tmp EXCEPT ![Name(i)] = i]
         /\ UNCHANGED <<manifests, cache, missed>>
      \/ /\ ipc[i] = "rename" /\ ipc' = [ipc EXCEPT ![i] = "invalidate"]
         /\ tmp' = [tmp EXCEPT ![Name(i)] = Nothing] /\ manifests' = [manifests EXCEPT ![Name(i)] = i]
         /\ UNCHANGED <<cache, missed>>
      \/ /\ ipc[i] = "invalidate" /\ ipc' = [ipc EXCEPT ![i] = "done"] /\ cache' = Nothing
         /\ missed' = (bus.at = "store") /\ UNCHANGED <<manifests, tmp>>
  BY <1>1, Zenon DEF InstallWriteTmp, InstallRename, InstallInvalidate, StoreStep, Unlink, files
<1>3. /\ StoreTyped' /\ BusTyped'
      /\ \A j \in Installs : j # i => /\ ipc'[j] = ipc[j] /\ tmp'[Name(j)] = tmp[Name(j)]
                                     /\ manifests'[Name(j)] = manifests[Name(j)]
  <2>1. StoreTyped'
    BY <1>0, <1>1, <1>2 DEF StoreTyped, Tables
  <2>2. BusTyped'
    BY <1>0, <1>2, Zenon DEF BusTyped, Removing
  <2>. QED  BY <1>0, <1>1, <1>2, <2>1, <2>2, JobFacts DEF StoreTyped, Tables, DistinctNames
<1>4. \/ /\ ipc[i] = "publish" /\ ipc'[i] = "rename" /\ tmp'[Name(i)] = i
         /\ manifests'[Name(i)] = manifests[Name(i)]
      \/ /\ ipc[i] = "rename" /\ ipc'[i] = "invalidate" /\ tmp'[Name(i)] = Nothing
         /\ manifests[Name(i)] = Nothing /\ manifests'[Name(i)] = i
      \/ /\ ipc[i] = "invalidate" /\ ipc'[i] = "done" /\ tmp'[Name(i)] = tmp[Name(i)]
         /\ manifests'[Name(i)] = manifests[Name(i)]
  BY <1>0, <1>1, <1>2 DEF StoreTyped, Tables, FilesFollow
<1>5. FilesFollow' /\ FetchFollows'
  <2>1. FilesFollow'
    BY <1>0, <1>1, <1>3, <1>4 DEF FilesFollow
  <2>2. FetchFollows'
    BY <1>0, <1>3, <1>4, Zenon DEF FetchFollows
  <2>. QED  BY <2>1, <2>2, Zenon
<1>6. BlobsWhole'
  BY <1>0, Zenon DEF BlobsWhole
<1>7. Weights'
  BY <1>0, <1>3, <1>4, Zenon DEF Weights
<1>8. RemovalFollows'
  <2>1. \A n \in Models : manifests[n] # Nothing => manifests'[n] = manifests[n]
    BY <1>1, <1>0, <1>2, <1>4, Zenon DEF StoreTyped, Tables
  <2>2. Removing => \A j \in Installs :
          /\ ~ IsRemote(j) /\ ipc'[j] \in {"place", "publish", "rename"} => j \in overlap'
          /\ (~ IsRemote(j) /\ j \notin overlap' /\ manifests'[Name(j)] = j) => manifests[Name(j)] = j
    BY <1>0, <1>3, <1>4, Zenon DEF RemovalFollows
  <2>3. cache = Nothing => cache' = Nothing
    BY <1>2, Zenon
  <2>4. Removing => bus.of # Nothing
    BY <1>0, <1>1, Zenon DEF BusTyped
  <2>5. bus.at = "unlink" => bus.name \in Models
    BY <1>0, Zenon DEF BusTyped
  <2>6. Removing' => Removing
    BY <1>0, Zenon DEF Removing
  <2>. QED  BY <1>0, <2>1, <2>2, <2>3, <2>4, <2>5, <2>6, Zenon DEF RemovalFollows
<1>9. BlobsOwned'
  <2>1. \A d \in Wanted : Doomed(d) => Doomed(d)'
    BY <1>0, Zenon DEF Doomed, Removing, StillReferenced
  <2>2. \A d \in Wanted : Owned(d) => Owned(d)'
    BY <1>0, <1>3, <1>4, <2>1 DEF Owned
  <2>. QED  BY <1>0, <2>2, Zenon DEF BlobsOwned
<1>10. CacheFresh'
  <2>1. CASE ipc[i] = "invalidate"
    <3>1. cache' = Nothing /\ missed' = (bus.at = "store")
      BY <1>2, <2>1, Zenon
    <3>. QED  BY <1>0, <3>1, Zenon DEF CacheFresh
  <2>2. CASE ipc[i] = "rename"
    <3>1. Invalidating'
      BY <1>4, <2>2, Zenon DEF Invalidating
    <3>. QED  BY <3>1, Zenon DEF CacheFresh
  <2>3. CASE ipc[i] = "publish"
    BY <1>0, <1>2, <1>3, <1>4, <2>3, Zenon DEF CacheFresh, Invalidating
  <2>. QED  BY <1>4, <2>1, <2>2, <2>3, Zenon
<1>. QED  BY <1>3, <1>5, <1>6, <1>7, <1>8, <1>9, <1>10, Zenon DEF StoreIInv

\* The bus thread: the parts a list or a removal can disturb.
LEMMA BusKeeps ==
  ASSUME DistinctNames, StoreIInv,
         \/ ListBegin \/ RemoveUnlink \/ SystemManifests \/ StoreCache \/ BusReturn
         \/ \E n \in Models : RemoveBegin(n)
  PROVE  StoreIInv'
<1>0. /\ UNCHANGED <<ipc, helper, fd, content, staged, tmp>>
      /\ StoreTyped /\ BusTyped /\ FilesFollow /\ FetchFollows /\ BlobsWhole /\ Weights
      /\ RemovalFollows /\ BlobsOwned /\ CacheFresh
  BY Zenon DEF ListBegin, RemoveUnlink, SystemManifests, StoreCache, BusReturn, RemoveBegin,
     StoreIInv, files
<1>1. CASE ListBegin
  <2>1. /\ bus = NoCall /\ bus' = [NoCall EXCEPT !.op = "list", !.at = "scan"]
        /\ UNCHANGED <<blobs, manifests, cache, overlap, missed>>
    BY <1>1, Zenon DEF ListBegin, files
  <2>2. bus'.op = "list" /\ bus'.at = "scan" /\ ~ Removing /\ ~ Removing'
    BY <2>1, Zenon DEF NoCall, Removing
  <2>3. StoreTyped' /\ BusTyped'
    BY <1>0, <2>1, <2>2, Zenon DEF StoreTyped, BusTyped, NoCall, Removing
  <2>4. FilesFollow' /\ FetchFollows' /\ BlobsWhole' /\ Weights' /\ RemovalFollows'
    BY <1>0, <2>1, <2>2 DEF FilesFollow, FetchFollows, BlobsWhole, Weights, RemovalFollows
  <2>5. BlobsOwned' /\ CacheFresh'
    BY <1>0, <2>1, <2>2, Zenon DEF BlobsOwned, Owned, Doomed, CacheFresh, Invalidating
  <2>. QED  BY <2>3, <2>4, <2>5, Zenon DEF StoreIInv
<1>2. ASSUME NEW n \in Models, RemoveBegin(n) PROVE StoreIInv'
  <2>1. /\ bus = NoCall /\ manifests[n] # Nothing
        /\ bus' = [op |-> "remove", at |-> "unlink", name |-> n, of |-> manifests[n], saw |-> Nothing]
        /\ overlap' = overlap \cup {i \in Installs : ipc[i] \in {"place", "publish", "rename"}}
        /\ UNCHANGED <<blobs, manifests, cache, missed>>
    BY <1>2, Zenon DEF RemoveBegin, files
  <2>2. /\ bus'.op = "remove" /\ bus'.at = "unlink" /\ ~ Removing /\ Removing'
        /\ bus'.name = n /\ bus'.of = manifests[n]
    BY <2>1, Zenon DEF NoCall, Removing
  <2>3. StoreTyped' /\ BusTyped'
    BY <1>0, <2>1, <2>2, Zenon DEF StoreTyped, BusTyped, Tables, Removing
  <2>4. FilesFollow' /\ FetchFollows' /\ BlobsWhole' /\ Weights' /\ RemovalFollows'
    BY <1>0, <2>1, <2>2, ZenonT(40) DEF FilesFollow, FetchFollows, BlobsWhole, Weights, RemovalFollows
  <2>5. BlobsOwned' /\ CacheFresh'
    BY <1>0, <2>1, <2>2, Zenon DEF BlobsOwned, Owned, Doomed, CacheFresh, Invalidating
  <2>. QED  BY <2>3, <2>4, <2>5, Zenon DEF StoreIInv
<1>3. CASE RemoveUnlink
  <2>1. /\ bus.at = "unlink" /\ manifests' = [manifests EXCEPT ![bus.name] = Nothing] /\ cache' = Nothing
        /\ missed' = FALSE /\ bus' = [bus EXCEPT !.at = "scan"] /\ UNCHANGED <<blobs, overlap>>
    BY <1>3, Zenon DEF RemoveUnlink, Unlink
  <2>2. /\ Removing /\ Removing' /\ bus'.at = "scan" /\ bus'.of = bus.of /\ bus.name \in Models
        /\ manifests[bus.name] = bus.of /\ bus.of \in Installs
    BY <1>0, <2>1, Zenon DEF BusTyped, RemovalFollows, Removing
  <2>3. StoreTyped'
    BY <1>0, <2>1, <2>2, Zenon DEF StoreTyped, Tables
  <2>4. BusTyped'
    BY <1>0, <2>1, <2>2, Zenon DEF BusTyped, Removing
  <2>5. \A i \in Installs : /\ manifests'[Name(i)] \in {manifests[Name(i)], Nothing}
                           /\ manifests'[Name(i)] # manifests[Name(i)] => manifests[Name(i)] = bus.of
    BY <1>0, <2>1, <2>2, JobFacts, Zenon DEF StoreTyped, Tables
  <2>6. FilesFollow' /\ FetchFollows' /\ BlobsWhole' /\ Weights'
    BY <1>0, <2>1, <2>5, JobFacts DEF FilesFollow, FetchFollows, BlobsWhole, Weights
  <2>7. RemovalFollows' /\ CacheFresh'
    BY <1>0, <2>1, <2>2, Zenon DEF RemovalFollows, CacheFresh
  <2>8. \A d \in Wanted : Owned(d) => Owned(d)'
    <3>1. \A d \in Wanted : Doomed(d)' <=> Want(bus.of) = d
      BY <2>2, Zenon DEF Doomed
    <3>. QED  BY <1>0, <2>1, <2>2, <2>5, <3>1 DEF Owned, Doomed
  <2>9. BlobsOwned'
    BY <1>0, <2>1, <2>8, Zenon DEF BlobsOwned
  <2>. QED  BY <2>3, <2>4, <2>6, <2>7, <2>9, Zenon DEF StoreIInv
<1>4. CASE SystemManifests
  <2>1. /\ bus.at = "scan" /\ UNCHANGED <<blobs, manifests, cache, overlap, missed>>
        /\ \/ cache # Nothing /\ bus' = [bus EXCEPT !.at = "use", !.saw = cache]
           \/ cache = Nothing /\ bus' = [bus EXCEPT !.at = "store", !.saw = manifests]
    BY <1>4, Zenon DEF SystemManifests, files
  <2>2. /\ bus'.op = bus.op /\ bus'.of = bus.of /\ bus'.name = bus.name /\ (Removing' <=> Removing)
        /\ bus'.at \in {"store", "use"} /\ bus'.saw \in Tables
        /\ (bus'.at = "store" => bus'.saw = manifests)
        /\ (Removing => bus'.at = "store" /\ cache = Nothing)
    BY <1>0, <2>1, ZenonT(40) DEF BusTyped, StoreTyped, Removing, RemovalFollows
  <2>3. StoreTyped'
    BY <1>0, <2>1, Zenon DEF StoreTyped
  <2>4. BusTyped'
    BY <1>0, <2>1, <2>2, Zenon DEF BusTyped, Removing
  <2>5. FilesFollow' /\ FetchFollows' /\ BlobsWhole' /\ Weights'
    BY <1>0, <2>1, Zenon DEF FilesFollow, FetchFollows, BlobsWhole, Weights
  <2>6. RemovalFollows'
    BY <1>0, <2>1, <2>2, Zenon DEF RemovalFollows
  <2>7. CacheFresh'
    BY <1>0, <2>1, <2>2, Zenon DEF CacheFresh, Invalidating
  <2>8. \A d \in Wanted : Owned(d) => Owned(d)'
    <3>1. ASSUME NEW d \in Wanted, Doomed(d), ~ Doomed(d)'
          PROVE  \E i \in Installs : Want(i) = d /\ manifests[Name(i)] = i
      <4>1. Removing /\ Want(bus.of) = d /\ StillReferenced(manifests, bus.of)
        BY <2>2, <3>1, Zenon DEF Doomed, StillReferenced
      <4>2. PICK n \in Models : manifests[n] # Nothing /\ Want(manifests[n]) = d
        BY <4>1, Zenon DEF StillReferenced
      <4>3. PICK i \in Installs : Name(i) = n
        BY JobFacts, Zenon
      <4>. QED  BY <1>0, <4>2, <4>3, Zenon DEF FilesFollow
    <3>. QED  BY <1>0, <2>1, <3>1, Zenon DEF Owned
  <2>9. BlobsOwned'
    BY <1>0, <2>1, <2>8, Zenon DEF BlobsOwned
  <2>. QED  BY <2>3, <2>4, <2>5, <2>6, <2>7, <2>9, Zenon DEF StoreIInv
<1>5. CASE StoreCache
  <2>1. /\ bus.at = "store" /\ cache' = bus.saw /\ bus' = [bus EXCEPT !.at = "use"]
        /\ UNCHANGED <<blobs, manifests, overlap, missed>>
    BY <1>5, Zenon DEF StoreCache, files
  <2>2. /\ bus'.op = bus.op /\ bus'.of = bus.of /\ bus'.name = bus.name /\ (Removing' <=> Removing)
        /\ bus'.at = "use" /\ bus'.saw = bus.saw /\ bus.saw \in Tables
    BY <1>0, <2>1, Zenon DEF BusTyped, Removing
  <2>3. StoreTyped'
    BY <1>0, <2>1, Zenon DEF StoreTyped
  <2>4. BusTyped'
    BY <1>0, <2>1, <2>2, Zenon DEF BusTyped, Removing
  <2>5. FilesFollow' /\ FetchFollows' /\ BlobsWhole' /\ Weights'
    BY <1>0, <2>1, Zenon DEF FilesFollow, FetchFollows, BlobsWhole, Weights
  <2>6. RemovalFollows'
    BY <1>0, <2>1, <2>2, Zenon DEF RemovalFollows
  <2>7. CacheFresh'
    BY <1>0, <2>1, <2>2, Zenon DEF CacheFresh, Invalidating
  <2>8. \A d \in Wanted : Owned(d) => Owned(d)'
    BY <1>0, <2>1, <2>2, Zenon DEF Owned, Doomed, StillReferenced
  <2>9. BlobsOwned'
    BY <1>0, <2>1, <2>8, Zenon DEF BlobsOwned
  <2>. QED  BY <2>3, <2>4, <2>5, <2>6, <2>7, <2>9, Zenon DEF StoreIInv
<1>6. CASE BusReturn
  <2>. DEFINE Drops == Removing /\ ~ StillReferenced(bus.saw, bus.of) /\ ~ IsRemote(bus.of)
  <2>1. /\ bus.at = "use" /\ bus' = NoCall /\ UNCHANGED <<manifests, cache, overlap, missed>>
        /\ blobs' = IF Drops THEN [blobs EXCEPT ![Want(bus.of)] = Nothing] ELSE blobs
    BY <1>6, Zenon DEF BusReturn, Unlink, Removing
  <2>2. /\ bus'.op = "none" /\ bus'.at = "none" /\ ~ Removing'
        /\ (Drops => Want(bus.of) \in Wanted /\ bus.of \in Installs)
    BY <1>0, <2>1, JobFacts, Zenon DEF BusTyped, Removing, NoCall
  <2>3. \A d \in Wanted : /\ blobs'[d] \in {blobs[d], Nothing}
                          /\ blobs'[d] # blobs[d] => Drops /\ d = Want(bus.of)
    BY <1>0, <2>1, <2>2, Zenon DEF StoreTyped
  <2>4. StoreTyped'
    BY <1>0, <2>1, <2>2, Zenon DEF StoreTyped
  <2>5. BusTyped'
    BY <1>0, <2>1, <2>2, Zenon DEF BusTyped, NoCall
  <2>6. FilesFollow' /\ FetchFollows' /\ BlobsWhole' /\ RemovalFollows'
    <3>1. UNCHANGED <<ipc, helper, fd, content, staged, tmp, manifests>>
      BY <1>6, Zenon DEF BusReturn, files
    <3>2. FilesFollow' /\ FetchFollows'
      BY <1>0, <3>1, Zenon DEF FilesFollow, FetchFollows
    <3>3. BlobsWhole'
      <4>1. \A d \in Wanted : blobs'[d] = Nothing \/ blobs'[d] = blobs[d]
        BY <2>3, Zenon
      <4>. QED  BY <1>0, <3>1, <4>1, Zenon DEF BlobsWhole
    <3>4. RemovalFollows'
      BY <2>2, Zenon DEF RemovalFollows
    <3>. QED  BY <3>2, <3>3, <3>4, Zenon
  <2>7. CacheFresh'
    BY <1>0, <2>1, <2>2, Zenon DEF CacheFresh, Invalidating
  <2>8. Weights'
    <3>1. ASSUME NEW i \in Installs, ~ IsRemote(i), i \notin overlap, Drops, Want(i) = Want(bus.of),
                 ipc[i] \in {"publish", "rename"} \/ manifests[Name(i)] = i
          PROVE  FALSE
      <4>1. manifests[Name(i)] = i /\ bus.saw[Name(i)] = i
        BY <1>0, <2>1, <3>1, Zenon DEF RemovalFollows
      <4>. QED  BY <3>1, <4>1, JobFacts, Zenon DEF StillReferenced
    <3>. HIDE DEF Drops
    <3>. QED  BY <1>0, <2>1, <2>3, <3>1, JobFacts, Zenon DEF Weights
  <2>9. BlobsOwned'
    <3>1. ASSUME NEW d \in Wanted, Doomed(d) PROVE blobs'[d] = Nothing
      <4>1. Drops /\ d = Want(bus.of)
        BY <1>0, <2>1, <3>1, JobFacts, Zenon DEF Doomed, BusTyped
      <4>2. blobs' = [blobs EXCEPT ![d] = Nothing]
        BY <2>1, <4>1, Zenon
      <4>. QED  BY <1>0, <4>2, Zenon DEF StoreTyped
    <3>. HIDE DEF Drops
    <3>. QED  BY <1>0, <2>1, <2>3, <3>1, Zenon DEF BlobsOwned, Owned
  <2>. QED  BY <2>4, <2>5, <2>6, <2>7, <2>8, <2>9, Zenon DEF StoreIInv
<1>. QED  BY <1>1, <1>2, <1>3, <1>4, <1>5, <1>6, Zenon

\* So it holds always.
LEMMA StoreHolds == ASSUME DistinctNames PROVE StoreSpec => []StoreIInv
<1>1. ASSUME StoreIInv, [StoreNext]_storeVars PROVE StoreIInv'
  <2>1. CASE UNCHANGED storeVars
    <3>1. StoreTyped' /\ BusTyped' /\ FilesFollow' /\ FetchFollows'
      BY <1>1, <2>1, ZenonT(40) DEF storeVars, StoreIInv, StoreTyped, BusTyped, Removing, FilesFollow,
         FetchFollows
    <3>2. BlobsWhole' /\ Weights' /\ RemovalFollows' /\ CacheFresh'
      BY <1>1, <2>1, Zenon DEF storeVars, StoreIInv, BlobsWhole, Weights, RemovalFollows, Removing,
         CacheFresh,
                        Invalidating
    <3>3. BlobsOwned'
      BY <1>1, <2>1, Zenon DEF storeVars, StoreIInv, BlobsOwned, Owned, Doomed, Removing,
         StillReferenced
    <3>. QED  BY <3>1, <3>2, <3>3, Zenon DEF StoreIInv
  <2>. QED  BY <1>1, <2>1, FetchKeeps, PlaceKeeps, PublishKeeps, BusKeeps, Zenon DEF StoreNext
<1>. QED  BY <1>1, InitStore, PTL DEF StoreSpec

\* accept_staged (install.rs): under every digest the store holds the bytes
\* of that digest, whatever helpers fail or go on writing, for any number of
\* installations of different models. Without the hypothesis it is false: two
\* installations of one name share the file they download to.
THEOREM BlobsAreTheirDigest == ASSUME DistinctNames PROVE StoreSpec => []BlobsMatchDigest
<1>1. StoreIInv => BlobsMatchDigest
  BY Zenon DEF StoreIInv, BlobsWhole, BlobsMatchDigest
<1>. QED  BY <1>1, StoreHolds, PTL

\* accept_staged, remove and list (install.rs, registry.rs): for any number
\* of installations of different models, a published model no removal has
\* overlapped has its weights, no blob is left that no model names, the
\* cached list is the directory's unless an invalidation was missed, and no
\* download is left behind.
THEOREM TheStoreAgrees == ASSUME DistinctNames PROVE StoreSpec => []StoreAgrees
<1>1. ASSUME StoreIInv PROVE StoreAgrees
  <2>1. \A n \in Models : manifests[n] # Nothing => manifests[n] \in Installs /\ Name(manifests[n]) = n
    BY <1>1, JobFacts DEF StoreIInv, FilesFollow
  <2>2. ManifestHasBlob
    BY <1>1, <2>1, Zenon DEF StoreIInv, Weights, ManifestHasBlob
  <2>3. NoOrphanBlob
    <3>1. ASSUME Quiet, NEW d \in Wanted, blobs[d] # Nothing
          PROVE  \E n \in Models : manifests[n] # Nothing /\ Want(manifests[n]) = d
      <4>1. ~ Doomed(d)
        BY <3>1, Zenon DEF Quiet, NoCall, Doomed, Removing
      <4>2. PICK i \in Installs : Want(i) = d /\ (manifests[Name(i)] = i \/ ipc[i] \in {"publish", "rename"})
        BY <1>1, <3>1, <4>1, Zenon DEF StoreIInv, BlobsOwned, Owned
      <4>3. manifests[Name(i)] = i
        BY <3>1, <4>2, Zenon DEF Quiet
      <4>. QED  BY <4>2, <4>3, JobFacts, Zenon
    <3>. QED  BY <3>1, Zenon DEF NoOrphanBlob
  <2>4. CacheFollowsStore
    BY <1>1, Zenon DEF StoreIInv, CacheFresh, CacheFollowsStore, Quiet, Invalidating
  <2>5. StagingEmptied
    BY <1>1, Zenon DEF StoreIInv, FilesFollow, StagingEmptied
  <2>. QED  BY <2>2, <2>3, <2>4, <2>5, Zenon DEF StoreAgrees
<1>. QED  BY <1>1, StoreHolds, PTL
=============================================================================
