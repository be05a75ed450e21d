----------------------------- MODULE BackendPool -----------------------------
(***************************************************************************)
(* One configured backend and its instances: Backends::get of state.rs,    *)
(* and Backend::begin, send, finish and reader_loop of backend.rs, used by *)
(* the worker of each session and by whoever cancels for it                *)
(* (cancel_in_flight of session.rs).                                       *)
(*                                                                         *)
(* A worker and a canceller are threads.  get looks at the live map, and   *)
(* when it finds no instance alive it spawns one outside the lock and      *)
(* stores it, three steps.  Each instance numbers its requests from 1.     *)
(***************************************************************************)
EXTENDS Naturals, FiniteSets

CONSTANTS Sessions,      \* sessions on this backend
          MaxInstances,  \* bound of the model on instances spawned
          MaxRequests    \* bound of the model on requests to an instance

ASSUME PoolAssumption == {MaxInstances, MaxRequests} \subseteq Nat

Threads == Sessions \X {"work", "cancel"}

Instances == 1..MaxInstances

VARIABLES place,      \* where each thread is
          handle,     \* the instance each thread holds, zero for none
          req,        \* the worker's req_id, or the one the canceller read
          live,       \* the instance in Backends.live, zero for none
          spawned,    \* instances spawned so far
          alive,      \* instances whose alive flag is set
          reader,     \* where the reader_loop of each instance is
          next_req,   \* Backend.next_req
          inflight    \* Backend.inflight, as instance and request

poolVars == <<place, handle, req, live, spawned, alive, reader, next_req, inflight>>

PCs == {"idle", "get", "spawn", "store", "have", "send", "streaming"}

PoolInit == /\ place = [t \in Threads |-> "idle"]
            /\ handle = [t \in Threads |-> 0]
            /\ req = [t \in Threads |-> 0]
            /\ live = 0
            /\ spawned = 0
            /\ alive = {}
            /\ reader = [i \in Instances |-> "unborn"]
            /\ next_req = [i \in Instances |-> 1]
            /\ inflight = {}

MoveTo(t, l) == place' = [place EXCEPT ![t] = l]

\* The thread lets go of its handle and its request.
KeepsHandle(t) == /\ MoveTo(t, "idle")
                  /\ UNCHANGED handle
                  /\ req' = [req EXCEPT ![t] = 0]

GoIdle(t) == /\ MoveTo(t, "idle")
             /\ handle' = [handle EXCEPT ![t] = 0]
             /\ req' = [req EXCEPT ![t] = 0]

-----------------------------------------------------------------------------
(* Backends::get.                                                          *)

Look(t) ==
  /\ place[t] = "get"
  /\ IF live \in alive
     THEN handle' = [handle EXCEPT ![t] = live] /\ MoveTo(t, "have")
     ELSE handle' = handle /\ MoveTo(t, "spawn")
  /\ UNCHANGED <<req, live, spawned, alive, reader, next_req, inflight>>

Spawn(t) ==
  /\ place[t] = "spawn"
  /\ spawned < MaxInstances
  /\ LET i == spawned + 1
     IN  /\ spawned' = i
         /\ alive' = alive \cup {i}
         /\ reader' = [reader EXCEPT ![i] = "reading"]
         /\ handle' = [handle EXCEPT ![t] = i]
  /\ MoveTo(t, "store")
  /\ UNCHANGED <<req, live, next_req, inflight>>

SpawnFails(t) ==
  /\ place[t] = "spawn"
  /\ GoIdle(t)
  /\ UNCHANGED <<live, spawned, alive, reader, next_req, inflight>>

Store(t) ==
  /\ place[t] = "store"
  /\ live' = handle[t]
  /\ MoveTo(t, "have")
  /\ UNCHANGED <<handle, req, spawned, alive, reader, next_req, inflight>>

-----------------------------------------------------------------------------
(* A turn on the worker's thread.                                          *)

W(s) == <<s, "work">>

Mine(s) == <<handle[W(s)], req[W(s)]>>

Turn(s) ==
  /\ place[W(s)] = "idle"
  /\ MoveTo(W(s), "get")
  /\ UNCHANGED <<handle, req, live, spawned, alive, reader, next_req, inflight>>

\* begin, its first half: an id is drawn and the sender registered.
SharesId(s) ==
  /\ place[W(s)] = "have"
  /\ LET i == handle[W(s)]
     IN  /\ req' = [req EXCEPT ![W(s)] = next_req[i]]
         /\ inflight' = inflight \cup {<<i, next_req[i]>>}
  /\ MoveTo(W(s), "send")
  /\ UNCHANGED <<handle, live, spawned, alive, reader, next_req>>

Begin(s) ==
  /\ place[W(s)] = "have"
  /\ LET i == handle[W(s)]
     IN  /\ next_req[i] <= MaxRequests
         /\ req' = [req EXCEPT ![W(s)] = next_req[i]]
         /\ next_req' = [next_req EXCEPT ![i] = @ + 1]
         /\ inflight' = inflight \cup {<<i, next_req[i]>>}
  /\ MoveTo(W(s), "send")
  /\ UNCHANGED <<handle, live, spawned, alive, reader>>

\* begin, its second half: send looks at the alive flag and writes.  A write to
\* a process that has gone may still succeed.
Sent(s) ==
  /\ place[W(s)] = "send"
  /\ handle[W(s)] \in alive
  /\ MoveTo(W(s), "streaming")
  /\ UNCHANGED <<handle, req, live, spawned, alive, reader, next_req, inflight>>

SendFails(s) ==
  /\ place[W(s)] = "send"
  /\ inflight' = inflight \ {Mine(s)}
  /\ GoIdle(W(s))
  /\ UNCHANGED <<live, spawned, alive, reader, next_req>>

\* The turn ends: the backend said so, or dropping the sender disconnected it.
Finish(s) ==
  /\ inflight' = inflight \ {Mine(s)}
  /\ GoIdle(W(s))
  /\ UNCHANGED <<live, spawned, alive, reader, next_req>>

Done(s) ==
  /\ place[W(s)] = "streaming"
  /\ reader[handle[W(s)]] = "reading" /\ Mine(s) \in inflight
  /\ Finish(s)

Disconnected(s) ==
  /\ place[W(s)] = "streaming"
  /\ Mine(s) \notin inflight
  /\ Finish(s)

-----------------------------------------------------------------------------
(* cancel_in_flight, on another thread: it reads current_req, gets the     *)
(* backend by name and tells it to cancel that id.                         *)

C(s) == <<s, "cancel">>

Cancel(s) ==
  /\ place[C(s)] = "idle"
  /\ place[W(s)] = "streaming"
  /\ req' = [req EXCEPT ![C(s)] = req[W(s)]]
  /\ MoveTo(C(s), "get")
  /\ UNCHANGED <<handle, live, spawned, alive, reader, next_req, inflight>>

CancelSend(s) ==
  /\ place[C(s)] = "have"
  /\ GoIdle(C(s))
  /\ UNCHANGED <<live, spawned, alive, reader, next_req, inflight>>

-----------------------------------------------------------------------------
(* reader_loop, once the socket closed or spoke nonsense: the flag goes    *)
(* down, and then every sender is dropped.                                 *)

ClearsFirst(i) ==
  \/ /\ reader[i] = "reading"
     /\ inflight' = {x \in inflight : x[1] # i}
     /\ reader' = [reader EXCEPT ![i] = "ending"]
     /\ UNCHANGED <<place, handle, req, live, spawned, alive, next_req>>
  \/ /\ reader[i] = "ending"
     /\ alive' = alive \ {i}
     /\ reader' = [reader EXCEPT ![i] = "ended"]
     /\ UNCHANGED <<place, handle, req, live, spawned, next_req, inflight>>

ReaderEnds(i) ==
  \/ /\ reader[i] = "reading"
     /\ alive' = alive \ {i}
     /\ reader' = [reader EXCEPT ![i] = "ending"]
     /\ UNCHANGED <<place, handle, req, live, spawned, next_req, inflight>>
  \/ /\ reader[i] = "ending"
     /\ inflight' = {x \in inflight : x[1] # i}
     /\ reader' = [reader EXCEPT ![i] = "ended"]
     /\ UNCHANGED <<place, handle, req, live, spawned, alive, next_req>>

-----------------------------------------------------------------------------

Gets(t) == Look(t) \/ Spawn(t) \/ SpawnFails(t) \/ Store(t)

Works(s) == \/ Turn(s) \/ Begin(s) \/ Sent(s) \/ SendFails(s) \/ Done(s)
            \/ Disconnected(s)

PoolNext == \/ \E t \in Threads : Gets(t)
            \/ \E s \in Sessions : Works(s) \/ Cancel(s) \/ CancelSend(s)
            \/ \E i \in Instances : ReaderEnds(i)

PoolSpec == PoolInit /\ [][PoolNext]_poolVars

\* Threads run, and a reader loop that has begun to end goes on.
PoolFair == /\ \A s \in Sessions : WF_poolVars(Sent(s) \/ SendFails(s) \/ Disconnected(s))
            /\ \A i \in Instances : WF_poolVars(reader[i] = "ending" /\ ReaderEnds(i))

FairPoolSpec == PoolSpec /\ PoolFair

-----------------------------------------------------------------------------
(* Properties.                                                             *)

\* Every variable keeps its type, and a thread holds an instance exactly while
\* it uses one.
PoolTypeOK ==
  /\ place \in [Threads -> PCs]
  /\ handle \in [Threads -> 0..MaxInstances]
  /\ \A t \in Threads : handle[t] = 0 <=> place[t] \in {"idle", "get", "spawn"}
  /\ req \in [Threads -> 0..MaxRequests]
  /\ spawned \in 0..MaxInstances
  /\ live \in 0..spawned
  /\ alive \subseteq 1..spawned
  /\ reader \in [Instances -> {"unborn", "reading", "ending", "ended"}]
  /\ next_req \in [Instances -> 1..(MaxRequests + 1)]
  /\ inflight \subseteq Instances \X (1..MaxRequests)

\* No sender outlives the reader that would feed it, except one whose thread
\* is still inside begin and will take it back: begin registers before it
\* looks at the flag, and the reader lowers the flag before it drops senders.
NoSenderOutlives ==
  \A x \in inflight :
    reader[x[1]] = "ended" =>
      \E s \in Sessions : place[W(s)] = "send" /\ Mine(s) = x

\* A request on a backend that has died ends, rather than hanging for ever
\* (reader_loop's closing comment).
DeadIsReported ==
  \A s \in Sessions :
    (place[W(s)] = "streaming" /\ handle[W(s)] \notin alive)
      ~> (place[W(s)] # "streaming")

\* Every request on an instance that is running has its sender registered, and
\* no two sessions share one.
RequestsApart ==
  /\ \A s \in Sessions :
       place[W(s)] \in {"send", "streaming"} /\ reader[handle[W(s)]] = "reading"
         => Mine(s) \in inflight
  /\ \A s, t \in Sessions :
       s # t /\ {place[W(s)], place[W(t)]} \subseteq {"send", "streaming"}
         => Mine(s) # Mine(t)

\* The flag of an instance is up exactly while its reader reads, a thread holds
\* only an instance that was spawned, and an id in use was drawn before.
PoolBooks ==
  /\ alive = {i \in 1..spawned : reader[i] = "reading"}
  /\ \A t \in Threads : handle[t] <= spawned
  /\ \A s \in Sessions :
       place[W(s)] \in {"send", "streaming"} => /\ req[W(s)] > 0
                                               /\ req[W(s)] < next_req[handle[W(s)]]

\* Events reach the request they are for and nobody waits on a reader that
\* has gone (begin, reader_loop).
PoolInv == PoolTypeOK /\ NoSenderOutlives /\ RequestsApart /\ PoolBooks

-----------------------------------------------------------------------------
(* What the comment on cancel_in_flight says.                              *)

\* Cancelling stops what this session has in flight (session.rs:308), and so
\* nothing of anybody else's.
CancelHitsOwn ==
  [][\A s, u \in Sessions :
       /\ place[C(s)] = "have" /\ place'[C(s)] = "idle"
       /\ place[W(u)] = "streaming" /\ Mine(u) = <<handle[C(s)], req[C(s)]>>
       => u = s]_poolVars
=============================================================================
