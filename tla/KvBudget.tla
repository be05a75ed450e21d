------------------------------ MODULE KvBudget ------------------------------
(***************************************************************************)
(* The KV cache budget: the second half of the daemon's sched.rs, with the *)
(* part of Worker::turn that calls it and announce_evictions.              *)
(*                                                                         *)
(* A session's thread reserves room for its context before it queues for a *)
(* slot, and the reservation may take the caches of sessions that have no  *)
(* request in flight.  The victims leave the accounting under the mutex;   *)
(* the backend hears drop_cache, and the victims' clients hear             *)
(* context-evicted, after the mutex is gone, one message at a time.        *)
(*                                                                         *)
(* Instants are abstracted to their order: older has the pair <<t, u>> of  *)
(* entries when t was last used before u was.                              *)
(***************************************************************************)
EXTENDS Naturals, FiniteSets, Functions

CONSTANTS InteractiveCaches,  \* sessions opened in the interactive class
          BackgroundCaches,   \* sessions opened in the background class
          Budget,             \* scheduler.kv_budget_bytes
          Sizes               \* the context sizes, in bytes, turns ask for

ASSUME KvClassesAssumption == /\ IsFiniteSet(InteractiveCaches)
                              /\ IsFiniteSet(BackgroundCaches)
                              /\ InteractiveCaches \cap BackgroundCaches = {}
ASSUME KvSizesAssumption == Budget \in Nat /\ Sizes \subseteq Nat

Caches == InteractiveCaches \cup BackgroundCaches

VARIABLES phase,    \* where each session's thread is
          kv,       \* sessions with an entry in Inner.kv
          bytes,    \* KvEntry.bytes, zero for a session without an entry
          active,   \* entries whose active flag is set
          older,    \* the order of the entries' last_used
          kv_used,  \* Inner.kv_used
          to_drop,  \* victims whose drop_cache a thread has yet to send
          to_tell,  \* victims whose notice a thread has yet to write
          cached,   \* sessions whose cache the backend holds
          lost      \* evicted sessions whose client has not been told

kvVars == <<phase, kv, bytes, active, older, kv_used, to_drop, to_tell, cached, lost>>

accounting == <<kv, bytes, active, older, kv_used>>

Phases == {"idle", "reserved", "decoding", "retiring", "closed"}

KvInit == /\ phase = [s \in Caches |-> "idle"]
          /\ kv = {}
          /\ bytes = [s \in Caches |-> 0]
          /\ active = {}
          /\ older = {}
          /\ kv_used = 0
          /\ to_drop = [s \in Caches |-> {}]
          /\ to_tell = [s \in Caches |-> {}]
          /\ cached = {}
          /\ lost = {}

-----------------------------------------------------------------------------
(* The plan of a reservation.                                              *)

saturating_sub(m, n) == IF m > n THEN m - n ELSE 0

\* The order among the entries of K.
Among(K) == older \cap (K \X K)

\* The order once s is used and K are the other entries.
UsedNow(K, s) == Among(K) \cup (K \X {s})

Touched(s) == UsedNow(kv \ {s}, s)

\* The entries the reservation of s may take.
AnyoneElse(s) == kv \ {s}

Candidates(s) == kv \ (active \cup {s})

\* The order of the two passes, and of the sort by last_used within each.
OldestFirst(t, u) == <<t, u>> \in older

GoesBefore(t, u) ==
  \/ t \in BackgroundCaches /\ u \in InteractiveCaches
  \/ /\ t \in BackgroundCaches <=> u \in BackgroundCaches
     /\ <<t, u>> \in older

\* Taking the entries of V would make room for extra more bytes.
RoomToSpare(V, extra) ==
  saturating_sub(kv_used, SumFunctionOnSet(bytes, V)) + extra < Budget

Enough(V, extra) ==
  saturating_sub(kv_used, SumFunctionOnSet(bytes, V)) + extra <= Budget

\* A candidate is taken when those that go before it are not enough.
Plan(s, extra) ==
  {t \in Candidates(s) :
     ~ Enough({u \in Candidates(s) : GoesBefore(u, t)}, extra)}

\* The bytes a reservation of n adds to what s already has.
Extra(s, n) == saturating_sub(n, bytes[s])

Fits(s, n) == n > bytes[s] => /\ Extra(s, n) <= Budget
                              /\ Enough(Plan(s, Extra(s, n)), Extra(s, n))

Victims(s, n) == IF n > bytes[s] THEN Plan(s, Extra(s, n)) ELSE {}

\* kv_used once the victims are gone and s has n bytes.
ForgetsVictims(s, n) == IF n > bytes[s] THEN kv_used + Extra(s, n)
                        ELSE saturating_sub(kv_used, bytes[s] - n)

ShrinksTwice(s, n) == IF n > bytes[s]
                      THEN saturating_sub(kv_used, SumFunctionOnSet(bytes, Victims(s, n)))
                             + Extra(s, n)
                      ELSE kv_used - (bytes[s] + n)

UsedAfter(s, n) ==
  IF n > bytes[s]
  THEN saturating_sub(kv_used, SumFunctionOnSet(bytes, Victims(s, n)))
         + Extra(s, n)
  ELSE saturating_sub(kv_used, bytes[s] - n)

-----------------------------------------------------------------------------
(* The steps of a session's thread.                                        *)

Rests(s, l) == phase[s] = l /\ to_drop[s] = {} /\ to_tell[s] = {}

Enter(s, l) == phase' = [phase EXCEPT ![s] = l]

\* reserve_kv, granted: the plan is committed and s has an active entry.
ReserveKv(s, n) ==
  /\ Rests(s, "idle")
  /\ Fits(s, n)
  /\ LET victims == Victims(s, n)
     IN  /\ kv' = (kv \ victims) \cup {s}
         /\ bytes' = [t \in Caches |-> IF t = s THEN n
                                         ELSE IF t \in victims THEN 0
                                         ELSE bytes[t]]
         /\ active' = active \cup {s}
         /\ older' = UsedNow(kv \ (victims \cup {s}), s)
         /\ kv_used' = UsedAfter(s, n)
         /\ to_drop' = [to_drop EXCEPT ![s] = victims]
         /\ to_tell' = [to_tell EXCEPT ![s] = victims]
         /\ lost' = lost \cup victims
  /\ Enter(s, "reserved")
  /\ UNCHANGED cached

\* reserve_kv, refused: the turn ends and no entry has changed.
ReserveFails(s, n) ==
  /\ Rests(s, "idle")
  /\ ~ Fits(s, n)
  /\ UNCHANGED kvVars

\* reserve_kv, after the mutex: one Preemptor::drop_cache.
DropCache(s) ==
  /\ \E v \in to_drop[s] : /\ cached' = cached \ {v}
                           /\ to_drop' = [to_drop EXCEPT ![s] = @ \ {v}]
  /\ UNCHANGED <<accounting, phase, to_tell, lost>>

\* announce_evictions, after reserve_kv has returned: one victim.  One that has
\* closed meanwhile is not in the session table and is passed over.
TellStops(s) ==
  /\ to_drop[s] = {}
  /\ \E v \in to_tell[s] :
       IF phase[v] = "closed"
       THEN to_tell' = [to_tell EXCEPT ![s] = {}] /\ lost' = lost
       ELSE to_tell' = [to_tell EXCEPT ![s] = @ \ {v}] /\ lost' = lost \ {v}
  /\ UNCHANGED <<accounting, phase, to_drop, cached>>

Tell(s) ==
  /\ to_drop[s] = {}
  /\ \E v \in to_tell[s] :
       /\ to_tell' = [to_tell EXCEPT ![s] = @ \ {v}]
       /\ lost' = IF phase[v] = "closed" THEN lost ELSE lost \ {v}
  /\ UNCHANGED <<accounting, phase, to_drop, cached>>

\* turn gives up between the reservation and the request: an attachment the
\* backend or the model cannot take, too many bytes, or a refused begin.
AbandonTurn(s) ==
  /\ Rests(s, "reserved")
  /\ Enter(s, "idle")
  /\ UNCHANGED <<accounting, to_drop, to_tell, cached, lost>>

\* The backend starts decoding, with a cache for this session.
Decode(s) ==
  /\ Rests(s, "reserved")
  /\ cached' = cached \cup {s}
  /\ Enter(s, "decoding")
  /\ UNCHANGED <<accounting, to_drop, to_tell, lost>>

\* A token: Slot::charge refreshes last_used.
Token(s) ==
  /\ Rests(s, "decoding")
  /\ older' = IF s \in kv THEN Touched(s) ELSE older
  /\ UNCHANGED <<phase, kv, bytes, active, kv_used, to_drop, to_tell, cached, lost>>

\* mark_idle.
MarkIdle(s) ==
  /\ active' = active \ {s}
  /\ older' = IF s \in kv THEN Touched(s) ELSE older
  /\ UNCHANGED <<kv, bytes, kv_used, to_drop, to_tell, cached, lost>>

\* The end of a turn, however it ended.
EndTurn(s) == Rests(s, "decoding") /\ MarkIdle(s) /\ Enter(s, "idle")

\* A media generation: it reserves nothing, and marks the session idle.
Media(s) == Rests(s, "idle") /\ MarkIdle(s) /\ UNCHANGED phase

\* retire: release_kv, and then the backend is told to drop the cache.
ReleaseKv(s) ==
  /\ Rests(s, "idle")
  /\ kv' = kv \ {s}
  /\ bytes' = [bytes EXCEPT ![s] = 0]
  /\ active' = active \ {s}
  /\ older' = Among(kv \ {s})
  /\ kv_used' = saturating_sub(kv_used, bytes[s])
  /\ lost' = lost \ {s}
  /\ Enter(s, "retiring")
  /\ UNCHANGED <<to_drop, to_tell, cached>>

KeepsCache(s) ==
  /\ Rests(s, "retiring")
  /\ Enter(s, "closed")
  /\ UNCHANGED <<accounting, to_drop, to_tell, cached, lost>>

RetireCache(s) ==
  /\ Rests(s, "retiring")
  /\ cached' = cached \ {s}
  /\ Enter(s, "closed")
  /\ UNCHANGED <<accounting, to_drop, to_tell, lost>>

CacheStep(s) == \/ \E n \in Sizes : ReserveKv(s, n) \/ ReserveFails(s, n)
                \/ DropCache(s)
                \/ Tell(s)
                \/ AbandonTurn(s)
                \/ Decode(s)
                \/ Token(s)
                \/ EndTurn(s)
                \/ Media(s)
                \/ ReleaseKv(s)
                \/ RetireCache(s)

KvNext == \E s \in Caches : CacheStep(s)

KvSpec == KvInit /\ [][KvNext]_kvVars

\* A thread between two of its own steps keeps running.
KvFair == \A s \in Caches : WF_kvVars(DropCache(s)) /\ WF_kvVars(Tell(s))

FairKvSpec == KvSpec /\ KvFair

-----------------------------------------------------------------------------
(* Properties.                                                             *)

\* r puts the members of K one after the other.
Orders(r, K) ==
  /\ r \subseteq K \X K
  /\ \A t, u \in K : <<t, u>> \in r <=> (t # u /\ <<u, t>> \notin r)
  /\ \A t, u, v \in K : <<t, u>> \in r /\ <<u, v>> \in r => <<t, v>> \in r

\* Every variable keeps its type, and the entries are in an order.
KvTypeOK ==
  /\ phase \in [Caches -> Phases]
  /\ kv \subseteq Caches
  /\ bytes \in [Caches -> Nat]
  /\ active \subseteq kv
  /\ Orders(older, kv)
  /\ kv_used \in Nat
  /\ to_drop \in [Caches -> SUBSET Caches]
  /\ to_tell \in [Caches -> SUBSET Caches]
  /\ cached \subseteq Caches
  /\ lost \subseteq Caches

\* kv_used is what the entries add up to and never exceeds the budget, through
\* growth, shrinking, eviction and retirement in any order.
KvAccounting ==
  /\ kv_used = SumFunctionOnSet(bytes, Caches)
  /\ kv_used <= Budget

\* What each step respects, of which EvictionsRight below is made.  A session
\* with a request in flight keeps its entry: only its own thread can
\* take it away (KvEntry.active).
InFlightKept ==
  \A v \in kv : phase[v] \in {"reserved", "decoding"} => v \in kv'

Evicted == {v \in kv : v \notin kv' /\ phase'[v] = phase[v]}

\* Background caches go first, and within a class the least recently used: an
\* idle cache that an eviction spared is not of a class that goes earlier, nor
\* of the same class and older, than one it took.
EvictionOrder ==
  \A v \in Evicted, u \in (kv \cap kv') \ (active \cup active') :
    /\ v \in InteractiveCaches => u \in InteractiveCaches
    /\ (v \in InteractiveCaches <=> u \in InteractiveCaches) => <<v, u>> \in older

\* No cache is taken that was not needed: with the last of the victims left in
\* place the reservation would have exceeded the budget.
NoNeedlessEviction ==
  \A v \in Evicted :
    (\A u \in Evicted : ~ GoesBefore(v, u)) => kv_used' + bytes[v] > Budget

\* Every cache the backend holds is in the accounting, or a thread is about to
\* have it dropped: nothing is held that nobody will reclaim.
CachesAccounted ==
  \A v \in cached : \/ v \in kv
                    \/ phase[v] = "retiring"
                    \/ \E s \in Caches : v \in to_drop[s]

\* A session with a request in flight has an entry, and its entry is marked:
\* that is what keeps it out of every plan (reserve_kv).
FlightIsMarked ==
  \A s \in Caches : phase[s] \in {"reserved", "decoding"} => s \in kv \cap active

\* Every session whose cache was taken is told, unless it closes first.
EvictedIsTold == \A v \in Caches : (v \in lost) ~> (v \notin lost)

\* The budget is what is on the books and in the backend: kv_used is the sum
\* of the entries within the budget, no cache is without an entry or a
\* drop_cache on its way, and none is in use without being marked so
\* (reserve_kv, release_kv, retire).
KvInv == KvTypeOK /\ KvAccounting /\ CachesAccounted /\ FlightIsMarked

\* A reservation evicts the right sessions: none with a request in flight, in
\* the order the code states, and none it could do without (reserve_kv).
EvictionsRight ==
  [][InFlightKept /\ EvictionOrder /\ NoNeedlessEviction]_kvVars
=============================================================================
