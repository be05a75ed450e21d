--------------------------- MODULE SessionProofs ----------------------------
(***************************************************************************)
(* Proofs about a session, its wire and the decoding of what it attaches:  *)
(* Lifecycle, for any number of calls and any limit, SessionProtocol, for  *)
(* every value of its constants, and DecodeHelper, for any sizes and       *)
(* limits.                                                                 *)
(***************************************************************************)
EXTENDS Lifecycle, SessionProtocol, DecodeHelper, FiniteSetTheorems,
        WellFoundedInduction, TLAPS

-----------------------------------------------------------------------------
(* Sequences.                                                              *)

\* The length of a sequence, and its domain.
LEMMA SeqLen ==
  ASSUME NEW S, NEW s \in Seq(S)
  PROVE  Len(s) \in Nat /\ DOMAIN s = 1..Len(s) /\ s \in [1..Len(s) -> S]
  OBVIOUS

\* The elements of a sequence over a set are in the set.
LEMMA SeqElement ==
  ASSUME NEW S, NEW s \in Seq(S), NEW i \in 1..Len(s)
  PROVE  s[i] \in S
  OBVIOUS

\* Only the empty sequence has no elements.
LEMMA SeqEmpty ==
  ASSUME NEW S
  PROVE  /\ << >> \in Seq(S) /\ Len(<< >>) = 0
         /\ \A s \in Seq(S) : s # << >> => Len(s) \in Nat \ {0}
  OBVIOUS

\* What Append adds, and what it keeps.
LEMMA SeqAppend ==
  ASSUME NEW S, NEW s \in Seq(S), NEW e \in S
  PROVE  /\ Append(s, e) \in Seq(S) /\ Append(s, e) # << >>
         /\ Len(Append(s, e)) = Len(s) + 1 /\ Append(s, e)[Len(s) + 1] = e
         /\ \A i \in 1..Len(s) : Append(s, e)[i] = s[i]
  OBVIOUS

\* What Head and Tail are of a sequence that is not empty.
LEMMA SeqTail ==
  ASSUME NEW S, NEW s \in Seq(S), s # << >>
  PROVE  /\ Head(s) \in S /\ Tail(s) \in Seq(S) /\ Len(Tail(s)) = Len(s) - 1
         /\ \A i \in 1..Len(Tail(s)) : Tail(s)[i] = s[i + 1]
  OBVIOUS

-----------------------------------------------------------------------------
(* Lifecycle.  The inductive invariant is LifecycleInv: AuditBalanced and  *)
(* NothingLeftBehind speak of sessions that are over, and StagesMatch      *)
(* carries what they need through the stages before.                       *)

\* The places a set of calls takes are a natural number.
LEMMA HeldFinite == IsFiniteSet(Held) /\ Cardinality(Held) \in Nat
<1>1. IsFiniteSet(Held)
  BY LifecycleAssumption, FS_Subset, Zenon DEF Held
<1>. QED  BY <1>1, FS_CardinalityType, Zenon

\* A step that leaves a call's place as it was leaves the count's bound.
LEMMA HeldSame ==
  ASSUME CountNeverLeaks, Held' = Held, count' = count
  PROVE  CountNeverLeaks'
  BY Zenon DEF CountNeverLeaks

\* A call that gives its place back lowers the count by one at least, and the
\* count stays within the calls that hold a place (close_session of policy.rs).
LEMMA HeldLess ==
  ASSUME NEW s \in Sessions, LifecycleTypeOK, CountNeverLeaks,
         s \in Held, Held' = Held \ {s},
         count' \in Nat, count' < count \/ count' = 0
  PROVE  CountNeverLeaks'
<1>1. Cardinality(Held') = Cardinality(Held) - 1
  BY HeldFinite, FS_RemoveElement, Zenon
<1>2. Cardinality(Held') \in Nat
  BY HeldFinite, FS_Subset, FS_CardinalityType, Zenon
<1>3. count \in Nat /\ count <= Cardinality(Held) /\ Cardinality(Held) \in Nat
  BY HeldFinite, LifecycleAssumption DEF LifecycleTypeOK, CountNeverLeaks
<1>4. count' <= Cardinality(Held')
  BY <1>1, <1>2, <1>3
<1>. QED  BY <1>4, Zenon DEF CountNeverLeaks

\* Initially nothing is open.
LEMMA InitLifecycle == Init => LifecycleInv
<1>. SUFFICES ASSUME Init PROVE LifecycleInv
  BY Zenon
<1>1. LifecycleTypeOK
  BY LifecycleAssumption DEF Init, LifecycleTypeOK, PCs
<1>2. CountNeverLeaks
  BY HeldFinite DEF Init, CountNeverLeaks
<1>3. AuditBalanced /\ NothingLeftBehind /\ StagesMatch
  BY DEF Init, AuditBalanced, NothingLeftBehind, StagesMatch, PCs
<1>. QED  BY <1>1, <1>2, <1>3, Zenon DEF LifecycleInv

\* Opening takes one place, and there was one to take (open_session).
LEMMA OpenInv ==
  ASSUME NEW s \in Sessions, LifecycleInv, Open(s)
  PROVE  LifecycleInv'
<1>. USE DEF LifecycleInv, Open, Goto
<1>1. LifecycleTypeOK'
  BY LifecycleAssumption DEF LifecycleTypeOK, PCs, open_session
<1>2. CountNeverLeaks'
  <2>1. s \notin Held /\ Held' = Held \cup {s}
    BY Zenon DEF Held, LifecycleTypeOK
  <2>2. Cardinality(Held') = Cardinality(Held) + 1
    BY <2>1, HeldFinite, FS_AddElement, Zenon
  <2>. QED  BY <2>2, HeldFinite, LifecycleAssumption
            DEF CountNeverLeaks, LifecycleTypeOK
<1>3. AuditBalanced' /\ NothingLeftBehind' /\ StagesMatch'
  BY DEF AuditBalanced, NothingLeftBehind, StagesMatch, LifecycleTypeOK, PCs
<1>. QED  BY <1>1, <1>2, <1>3, Zenon

\* A call that fails before it is inserted leaves nothing but its place, which
\* it gives back (the error path of create_session, and SessionSlot::drop).
LEMMA FailsInv ==
  ASSUME NEW s \in Sessions, LifecycleInv, BackendFails(s) \/ SocketFails(s)
  PROVE  LifecycleInv'
<1>. USE DEF LifecycleInv, Goto
<1>1. /\ pc[s] = "opening" /\ pc' = [pc EXCEPT ![s] = "over"]
      /\ UNCHANGED <<table, bus, started, ended, sink, closed, shut, gone, closing>>
  BY Zenon DEF BackendFails, SocketFails
<1>2. count \in Nat /\ count <= MaxSessions /\ MaxSessions \in Nat
  BY LifecycleAssumption DEF LifecycleTypeOK
<1>3. count' \in Nat /\ (count' < count \/ count' = 0)
  BY <1>2 DEF BackendFails, SocketFails, saturating_sub
<1>4. LifecycleTypeOK'
  BY <1>1, <1>2, <1>3 DEF LifecycleTypeOK, PCs
<1>5. CountNeverLeaks'
  <2>1. s \in Held /\ Held' = Held \ {s}
    BY <1>1, Zenon DEF Held, LifecycleTypeOK
  <2>. QED  BY <2>1, <1>3, HeldLess, Zenon
<1>6. AuditBalanced' /\ NothingLeftBehind' /\ StagesMatch'
  BY <1>1 DEF AuditBalanced, NothingLeftBehind, StagesMatch, LifecycleTypeOK, PCs
<1>. QED  BY <1>4, <1>5, <1>6, Zenon

\* The third of retire's steps that touches the count (close_session).
LEMMA UncountInv ==
  ASSUME NEW s \in Sessions, LifecycleInv, Uncount(s)
  PROVE  LifecycleInv'
<1>. USE DEF LifecycleInv, Uncount, Goto
<1>1. count \in Nat /\ count <= MaxSessions /\ MaxSessions \in Nat
  BY LifecycleAssumption DEF LifecycleTypeOK
<1>2. count' \in Nat /\ (count' < count \/ count' = 0)
  BY <1>1 DEF saturating_sub
<1>3. LifecycleTypeOK'
  BY <1>1, <1>2 DEF LifecycleTypeOK, PCs
<1>4. CountNeverLeaks'
  <2>1. s \in Held /\ Held' = Held \ {s}
    BY Zenon DEF Held, LifecycleTypeOK
  <2>. QED  BY <2>1, <1>2, HeldLess, Zenon
<1>5. AuditBalanced' /\ NothingLeftBehind' /\ StagesMatch'
  BY Zenon DEF AuditBalanced, NothingLeftBehind, StagesMatch, LifecycleTypeOK, PCs
<1>. QED  BY <1>3, <1>4, <1>5, Zenon
\* A call over the limit changes nothing (the Err arm of open_session).
LEMMA RefuseInv ==
  ASSUME NEW s \in Sessions, LifecycleInv, Refuse(s)
  PROVE  LifecycleInv'
<1>. USE DEF LifecycleInv, Refuse, Goto
<1>1. LifecycleTypeOK'
  BY Zenon DEF LifecycleTypeOK, PCs
<1>2. CountNeverLeaks'
  BY HeldSame, Zenon DEF Held, LifecycleTypeOK
<1>3. AuditBalanced' /\ NothingLeftBehind' /\ StagesMatch'
  BY DEF AuditBalanced, NothingLeftBehind, StagesMatch, LifecycleTypeOK, PCs
<1>. QED  BY <1>1, <1>2, <1>3, Zenon

\* The session is in the table and in the audit log together.
LEMMA InsertInv ==
  ASSUME NEW s \in Sessions, LifecycleInv, Insert(s)
  PROVE  LifecycleInv'
<1>. USE DEF LifecycleInv, Insert, Goto
<1>1. LifecycleTypeOK'
  BY DEF LifecycleTypeOK, PCs
<1>2. CountNeverLeaks'
  BY HeldSame, Zenon DEF Held, LifecycleTypeOK
<1>3. AuditBalanced' /\ NothingLeftBehind' /\ StagesMatch'
  BY DEF AuditBalanced, NothingLeftBehind, StagesMatch, LifecycleTypeOK, PCs
<1>. QED  BY <1>1, <1>2, <1>3, Zenon

\* The object is on the bus of a session that is in the table.
LEMMA RegisterInv ==
  ASSUME NEW s \in Sessions, LifecycleInv, Register(s)
  PROVE  LifecycleInv'
<1>. USE DEF LifecycleInv, Register, Goto
<1>1. LifecycleTypeOK'
  BY DEF LifecycleTypeOK, PCs
<1>2. CountNeverLeaks'
  BY HeldSame, Zenon DEF Held, LifecycleTypeOK
<1>3. AuditBalanced' /\ NothingLeftBehind' /\ StagesMatch'
  BY DEF AuditBalanced, NothingLeftBehind, StagesMatch, LifecycleTypeOK, PCs
<1>. QED  BY <1>1, <1>2, <1>3, Zenon

\* The guard hands a half-built session to retire (SessionSlot::drop).
LEMMA AbandonInv ==
  ASSUME NEW s \in Sessions, LifecycleInv, Abandon(s)
  PROVE  LifecycleInv'
<1>. USE DEF LifecycleInv, Abandon, Goto
<1>1. LifecycleTypeOK'
  BY Zenon DEF LifecycleTypeOK, PCs
<1>2. CountNeverLeaks'
  BY HeldSame, Zenon DEF Held, LifecycleTypeOK
<1>3. AuditBalanced' /\ NothingLeftBehind' /\ StagesMatch'
  BY Zenon DEF AuditBalanced, NothingLeftBehind, StagesMatch, LifecycleTypeOK, PCs
<1>. QED  BY <1>1, <1>2, <1>3, Zenon

\* The guard is disarmed.
LEMMA SpawnInv ==
  ASSUME NEW s \in Sessions, LifecycleInv, Spawn(s)
  PROVE  LifecycleInv'
<1>. USE DEF LifecycleInv, Spawn, Goto
<1>1. LifecycleTypeOK'
  BY Zenon DEF LifecycleTypeOK, PCs
<1>2. CountNeverLeaks'
  BY HeldSame, Zenon DEF Held, LifecycleTypeOK
<1>3. AuditBalanced' /\ NothingLeftBehind' /\ StagesMatch'
  BY DEF AuditBalanced, NothingLeftBehind, StagesMatch, LifecycleTypeOK, PCs
<1>. QED  BY <1>1, <1>2, <1>3, Zenon

\* The sink belongs to a session that has started (spawn).
LEMMA PublishInv ==
  ASSUME NEW s \in Sessions, LifecycleInv, Publish(s)
  PROVE  LifecycleInv'
<1>. USE DEF LifecycleInv, Publish, Goto
<1>1. LifecycleTypeOK'
  BY DEF LifecycleTypeOK, PCs
<1>2. CountNeverLeaks'
  BY HeldSame, Zenon DEF Held, LifecycleTypeOK
<1>3. AuditBalanced' /\ NothingLeftBehind' /\ StagesMatch'
  BY DEF AuditBalanced, NothingLeftBehind, StagesMatch, LifecycleTypeOK, PCs
<1>. QED  BY <1>1, <1>2, <1>3, Zenon

\* A worker that could not start retires its session (spawn).
LEMMA StartFailsInv ==
  ASSUME NEW s \in Sessions, LifecycleInv, StartFails(s)
  PROVE  LifecycleInv'
<1>. USE DEF LifecycleInv, StartFails, Goto
<1>1. LifecycleTypeOK'
  BY DEF LifecycleTypeOK, PCs
<1>2. CountNeverLeaks'
  BY HeldSame, Zenon DEF Held, LifecycleTypeOK
<1>3. AuditBalanced' /\ NothingLeftBehind' /\ StagesMatch'
  BY DEF AuditBalanced, NothingLeftBehind, StagesMatch, LifecycleTypeOK, PCs
<1>. QED  BY <1>1, <1>2, <1>3, Zenon

\* The closed flag is looked at (Worker::run).
LEMMA TopInv ==
  ASSUME NEW s \in Sessions, LifecycleInv, Top(s)
  PROVE  LifecycleInv'
<1>. USE DEF LifecycleInv, Top, Goto
<1>1. LifecycleTypeOK'
  BY Zenon DEF LifecycleTypeOK, PCs
<1>2. CountNeverLeaks'
  BY HeldSame, Zenon DEF Held, LifecycleTypeOK
<1>3. AuditBalanced' /\ NothingLeftBehind' /\ StagesMatch'
  BY DEF AuditBalanced, NothingLeftBehind, StagesMatch, LifecycleTypeOK, PCs
<1>. QED  BY <1>1, <1>2, <1>3, Zenon

\* A request is served (Worker::run).
LEMMA ServeInv ==
  ASSUME NEW s \in Sessions, LifecycleInv, Serve(s)
  PROVE  LifecycleInv'
<1>. USE DEF LifecycleInv, Serve, Goto
<1>1. LifecycleTypeOK'
  BY Zenon DEF LifecycleTypeOK, PCs
<1>2. CountNeverLeaks'
  BY HeldSame, Zenon DEF Held, LifecycleTypeOK
<1>3. AuditBalanced' /\ NothingLeftBehind' /\ StagesMatch'
  BY DEF AuditBalanced, NothingLeftBehind, StagesMatch, LifecycleTypeOK, PCs
<1>. QED  BY <1>1, <1>2, <1>3, Zenon

\* The reader has left (Worker::run).
LEMMA ReaderIsGoneInv ==
  ASSUME NEW s \in Sessions, LifecycleInv, ReaderIsGone(s)
  PROVE  LifecycleInv'
<1>. USE DEF LifecycleInv, ReaderIsGone, Goto
<1>1. LifecycleTypeOK'
  BY Zenon DEF LifecycleTypeOK, PCs
<1>2. CountNeverLeaks'
  BY HeldSame, Zenon DEF Held, LifecycleTypeOK
<1>3. AuditBalanced' /\ NothingLeftBehind' /\ StagesMatch'
  BY DEF AuditBalanced, NothingLeftBehind, StagesMatch, LifecycleTypeOK, PCs
<1>. QED  BY <1>1, <1>2, <1>3, Zenon

\* The client leaves.
LEMMA HangUpInv ==
  ASSUME NEW s \in Sessions, LifecycleInv, HangUp(s)
  PROVE  LifecycleInv'
<1>. USE DEF LifecycleInv, HangUp, Goto
<1>1. LifecycleTypeOK'
  BY DEF LifecycleTypeOK, PCs
<1>2. CountNeverLeaks'
  BY HeldSame, Zenon DEF Held, LifecycleTypeOK
<1>3. AuditBalanced' /\ NothingLeftBehind' /\ StagesMatch'
  BY Zenon DEF AuditBalanced, NothingLeftBehind, StagesMatch, LifecycleTypeOK, PCs
<1>. QED  BY <1>1, <1>2, <1>3, Zenon

\* The end is recorded once (retire).
LEMMA EndInv ==
  ASSUME NEW s \in Sessions, LifecycleInv, End(s)
  PROVE  LifecycleInv'
<1>. USE DEF LifecycleInv, End, Goto
<1>1. LifecycleTypeOK'
  BY DEF LifecycleTypeOK, PCs
<1>2. CountNeverLeaks'
  BY HeldSame, Zenon DEF Held, LifecycleTypeOK
<1>3. AuditBalanced' /\ NothingLeftBehind' /\ StagesMatch'
  BY DEF AuditBalanced, NothingLeftBehind, StagesMatch, LifecycleTypeOK, PCs
<1>. QED  BY <1>1, <1>2, <1>3, Zenon

\* The last of retire: table, bus and socket.
LEMMA RemoveEntryInv ==
  ASSUME NEW s \in Sessions, LifecycleInv, RemoveEntry(s)
  PROVE  LifecycleInv'
<1>. USE DEF LifecycleInv, RemoveEntry, Goto
<1>1. LifecycleTypeOK'
  BY DEF LifecycleTypeOK, PCs
<1>2. CountNeverLeaks'
  BY HeldSame, Zenon DEF Held, LifecycleTypeOK
<1>3. AuditBalanced' /\ NothingLeftBehind' /\ StagesMatch'
  BY Zenon DEF AuditBalanced, NothingLeftBehind, StagesMatch, LifecycleTypeOK, PCs
<1>. QED  BY <1>1, <1>2, <1>3, Zenon

\* The flag goes up (close_session of dbusapi.rs).
LEMMA CloseInv ==
  ASSUME NEW s \in Sessions, LifecycleInv, Close(s)
  PROVE  LifecycleInv'
<1>. USE DEF LifecycleInv, Close, Goto
<1>1. LifecycleTypeOK'
  BY DEF LifecycleTypeOK, PCs
<1>2. CountNeverLeaks'
  BY HeldSame, Zenon DEF Held, LifecycleTypeOK
<1>3. AuditBalanced' /\ NothingLeftBehind' /\ StagesMatch'
  BY Zenon DEF AuditBalanced, NothingLeftBehind, StagesMatch, LifecycleTypeOK, PCs
<1>. QED  BY <1>1, <1>2, <1>3, Zenon

\* The socket is shut if there is one (close_session of dbusapi.rs).
LEMMA CloseShutsInv ==
  ASSUME NEW s \in Sessions, LifecycleInv, CloseShuts(s)
  PROVE  LifecycleInv'
<1>. USE DEF LifecycleInv, CloseShuts, Goto
<1>1. LifecycleTypeOK'
  BY DEF LifecycleTypeOK, PCs
<1>2. CountNeverLeaks'
  BY HeldSame, Zenon DEF Held, LifecycleTypeOK
<1>3. AuditBalanced' /\ NothingLeftBehind' /\ StagesMatch'
  BY Zenon DEF AuditBalanced, NothingLeftBehind, StagesMatch, LifecycleTypeOK, PCs
<1>. QED  BY <1>1, <1>2, <1>3, Zenon

\* Every step keeps the invariant.
LEMMA NextLifecycle == LifecycleInv /\ [Next]_vars => LifecycleInv'
<1>. SUFFICES ASSUME LifecycleInv, [Next]_vars PROVE LifecycleInv'
  BY Zenon
<1>1. CASE UNCHANGED vars
  BY <1>1, Zenon DEF vars, LifecycleInv, LifecycleTypeOK, CountNeverLeaks, Held,
              AuditBalanced, NothingLeftBehind, StagesMatch
<1>2. ASSUME NEW s \in Sessions, Creates(s) PROVE LifecycleInv'
  BY <1>2, OpenInv, RefuseInv, FailsInv, InsertInv, RegisterInv, AbandonInv,
     SpawnInv, Zenon DEF Creates
<1>3. ASSUME NEW s \in Sessions, Works(s) PROVE LifecycleInv'
  BY <1>3, PublishInv, StartFailsInv, TopInv, ServeInv, ReaderIsGoneInv, EndInv,
     UncountInv, RemoveEntryInv, Zenon DEF Works
<1>4. ASSUME NEW s \in Sessions, HangUp(s) \/ Close(s) \/ CloseShuts(s)
      PROVE  LifecycleInv'
  BY <1>4, HangUpInv, CloseInv, CloseShutsInv, Zenon
<1>. QED  BY <1>1, <1>2, <1>3, <1>4, Zenon DEF Next

\* The count, the audit log, the table, the bus and the socket agree whatever
\* step of create_session fails, for any number of calls and any limit.
THEOREM LifecycleHolds == Spec => []LifecycleInv
  BY InitLifecycle, NextLifecycle, PTL DEF Spec

\* No failure of create_session leaks a place under the limit: the count is
\* never more than the calls that hold one (SessionSlot).
THEOREM NoPlaceLeaks == Spec => []CountNeverLeaks
<1>1. LifecycleInv => CountNeverLeaks
  BY Zenon DEF LifecycleInv
<1>. QED  BY LifecycleHolds, <1>1, PTL

\* A session that started ends once in the audit log, and is over in every
\* place at once (retire).
THEOREM RetiredEverywhere == Spec => [](AuditBalanced /\ NothingLeftBehind)
<1>1. LifecycleInv => AuditBalanced /\ NothingLeftBehind
  BY Zenon DEF LifecycleInv
<1>. QED  BY LifecycleHolds, <1>1, PTL

-----------------------------------------------------------------------------
(* The least-number principle.                                             *)

\* The least natural number of a set.
LEMMA LeastNat ==
  ASSUME NEW T, T \subseteq Nat, T # {}
  PROVE  \E n \in T : \A m \in T : n <= m
<1>. DEFINE R == {ss \in Nat \X Nat : ss[1] < ss[2]}
<1>1. IsWellFoundedOn(R, Nat)
  BY NatLessThanWellFounded, Zenon DEF OpToRel
<1>2. \E x \in T : \A y \in T : ~ (<<y, x>> \in R)
  <2>. HIDE DEF R
  <2>. QED BY <1>1, WFMin, Zenon
<1>3. PICK x \in T : \A y \in T : ~ (<<y, x>> \in R)
  BY <1>2, Zenon
<1>4. ASSUME NEW y \in T
      PROVE  x <= y
  <2>1. ~ (<<y, x>> \in R)
    BY <1>3, Zenon
  <2>2. x \in Nat /\ y \in Nat
    BY Zenon
  <2>. QED  BY <2>1, <2>2
<1>. QED  BY <1>4, Zenon

-----------------------------------------------------------------------------
(* SessionProtocol.  The calls and the wire have an invariant each.        *)

\* The frames the daemon sends.
FrameKinds == {"hello", "error", "token", "call", "calls", "value", "media", "blob", "done", "notice"}

\* After a terminal frame come only notices.
Ends(t) == \A k \in DOMAIN t : t[k] \in Terminals => \A j \in (k + 1)..Len(t) : t[j] = "notice"

\* What a session serves between a request and its terminal frame.
Busy == {"turn", "media", "blob", "simple", "attach"}

\* The types the arguments use.
SessionTyped ==
  /\ proto \in {1, 2} /\ serving \in Busy \cup {"ready", "dead"}
  /\ told \in Seq(FrameKinds) /\ owed \in Nat /\ sending \in Nat

\* The frames sent for the request in hand, and the bytes the client owes.
WireExact ==
  /\ Ends(told)
  /\ serving \in Busy => Range(told) \cap Terminals = {}
  /\ serving = "attach" => Range(told) \subseteq {"notice"} /\ sending = owed
  /\ (serving = "ready" /\ ~ departed /\ Range(told) \ {"notice", "hello"} # {}) =>
       Range(told) \cap Terminals # {}
  /\ proto < 2 => Range(told) \cap {"calls", "media", "blob"} = {}
  /\ (serving = "turn" /\ parallel) \/ serving \in {"media", "blob"} => proto = 2
  /\ serving \notin {"attach", "dead"} => sending = 0

\* The calls of the conversation.
CallsExact ==
  /\ calls_no \in Nat /\ in_history \subseteq 1..calls_no /\ answers \subseteq in_history
  /\ PendingExact

\* What one more frame adds.
LEMMA OneMore ==
  ASSUME told \in Seq(FrameKinds), NEW f \in FrameKinds
  PROVE  /\ Append(told, f) \in Seq(FrameKinds)
         /\ Range(Append(told, f)) = Range(told) \cup {f}
         /\ Ends(told) /\ (f = "notice" \/ Range(told) \cap Terminals = {}) => Ends(Append(told, f))
<1>1. /\ Append(told, f) \in Seq(FrameKinds) /\ Len(told) \in Nat /\ DOMAIN told = 1..Len(told)
      /\ DOMAIN Append(told, f) = 1..(Len(told) + 1) /\ Len(Append(told, f)) = Len(told) + 1
      /\ \A k \in 1..Len(told) : Append(told, f)[k] = told[k]
      /\ Append(told, f)[Len(told) + 1] = f
  BY SeqAppend, SeqLen
<1>2. Range(Append(told, f)) = Range(told) \cup {f}
  <2>1. \A k \in 1..(Len(told) + 1) : k \in 1..Len(told) \/ k = Len(told) + 1
    BY <1>1
  <2>2. \A k \in 1..Len(told) : k \in 1..(Len(told) + 1)
    BY <1>1
  <2>3. Len(told) + 1 \in 1..(Len(told) + 1)
    BY <1>1
  <2>. QED  BY <1>1, <2>1, <2>2, <2>3, Zenon DEF Range
<1>3. ASSUME Ends(told), f = "notice" \/ Range(told) \cap Terminals = {},
             NEW k \in 1..(Len(told) + 1), Append(told, f)[k] \in Terminals,
             NEW j \in (k + 1)..(Len(told) + 1)
      PROVE  Append(told, f)[j] = "notice"
  <2>1. k \in 1..Len(told) /\ told[k] \in Terminals
    BY <1>1, <1>3
  <2>2. f = "notice"
    BY <1>1, <1>3, <2>1, Zenon DEF Range
  <2>3. j = Len(told) + 1 \/ j \in (k + 1)..Len(told)
    BY <1>1, <1>3
  <2>4. j \in (k + 1)..Len(told) => j \in 1..Len(told)
    BY <1>1, <2>1
  <2>. QED  BY <1>1, <1>3, <2>1, <2>2, <2>3, <2>4, Zenon DEF Ends
<1>. QED  BY <1>1, <1>2, <1>3, Zenon DEF Ends

\* What a request's first frame leaves.
LEMMA FirstFrame ==
  /\ << >> \in Seq(FrameKinds) /\ Range(<< >>) = {} /\ Ends(<< >>)
  /\ \A f \in FrameKinds : <<f>> \in Seq(FrameKinds) /\ Range(<<f>>) = {f} /\ Ends(<<f>>)
BY DEF Range, Ends

\* What a batch answers was outstanding.
LEMMA TakenOutstanding ==
  ASSUME NEW results \in Batches
  PROVE  {results[k] : k \in 1..Takes(results)} \subseteq pending
<1>. DEFINE T == {n \in 0..Len(results) : n < Len(results) => ~ Outstanding(results, n + 1)}
            Good(n) == /\ \A k \in 1..n : Outstanding(results, k)
                       /\ n < Len(results) => ~ Outstanding(results, n + 1)
<1>1. Len(results) \in Nat
  BY ProtocolAssumption, SeqLen, Zenon
<1>2. T \subseteq Nat /\ Len(results) \in T
  BY <1>1
<1>3. PICK n \in T : \A m \in T : n <= m
  <2>. HIDE DEF T
  <2>. QED  BY <1>2, LeastNat, Zenon
<1>4. ASSUME NEW k \in 1..n PROVE Outstanding(results, k)
  <2>1. k - 1 \in 0..Len(results) /\ k - 1 < n /\ k - 1 < Len(results) /\ (k - 1) + 1 = k
    BY <1>1
  <2>2. k - 1 \notin T
    BY <1>3, <2>1
  <2>. QED  BY <2>1, <2>2, Zenon
<1>5. n \in 0..Len(results) /\ Good(n)
  BY <1>4, Zenon
<1>6. Good(Takes(results))
  BY <1>5, Zenon DEF Takes
<1>. QED  BY <1>6, Zenon DEF Outstanding

-----------------------------------------------------------------------------
\* Every step keeps the calls, and a turn starts with every call answered.
LEMMA CallsKept ==
  ASSUME CallsExact, [ProtocolNext]_protocolVars
  PROVE  /\ CallsExact'
         /\ [serving # "turn" /\ serving' = "turn" => in_history' \subseteq answers']_protocolVars
<1>1. CASE UNCHANGED conversation /\ (serving' = "turn" => serving = "turn")
  BY <1>1, Zenon DEF conversation, CallsExact, PendingExact
<1>2. CASE UNCHANGED protocolVars
  BY <1>2, Zenon DEF protocolVars, CallsExact, PendingExact
<1>3. CASE Generate
  BY <1>3, Zenon DEF Generate, CallsExact, PendingExact
<1>4. ASSUME NEW results \in Batches, AnswerTools(results)
      PROVE  CallsExact' /\ (serving' = "turn" => serving = "turn" \/ in_history' \subseteq answers')
  <2>. DEFINE taken == {results[k] : k \in 1..Takes(results)}
  <2>1. taken \subseteq pending
    BY TakenOutstanding, Zenon
  <2>. HIDE DEF taken
  <2>2. /\ pending' = pending \ taken /\ answers' = answers \cup taken /\ in_history' = in_history
        /\ calls_no' = calls_no
        /\ serving' = serving \/ pending' = {}
    BY <1>4, Zenon DEF AnswerTools, taken
  <2>. QED  BY <2>1, <2>2, Zenon DEF CallsExact, PendingExact
<1>5. ASSUME NEW n \in 1..2, ToolCallsEvent(n) PROVE CallsExact' /\ serving = "turn"
  <2>. DEFINE ids == {calls_no + k : k \in 1..n}
  <2>1. /\ serving = "turn" /\ pending' = pending \cup ids /\ in_history' = in_history \cup ids
        /\ answers' = answers /\ calls_no' = calls_no + n
    BY <1>5, Zenon DEF ToolCallsEvent
  <2>2. /\ calls_no + n \in Nat /\ \A x \in ids : x \in 1..(calls_no + n) /\ x \notin 1..calls_no
        /\ \A x \in 1..calls_no : x \in 1..(calls_no + n)
    BY DEF CallsExact
  <2>. HIDE DEF ids
  <2>. QED  BY <2>1, <2>2, Zenon DEF CallsExact, PendingExact
<1>6. CASE \/ \E p \in 0..3 : Hello(p)
           \/ AnswerNothing \/ Unrecognised \/ GenerateMedia \/ EmbedOrTokenize
           \/ TokenEvent \/ TokenUnread \/ UnofferedCall \/ ValueEvent
  <2>1. UNCHANGED conversation /\ (serving' = "turn" => serving = "turn")
    BY <1>6 DEF Hello, AnswerNothing, Unrecognised, GenerateMedia, EmbedOrTokenize, TokenEvent,
       TokenUnread,
                UnofferedCall, ValueEvent, conversation
  <2>. QED  BY <1>1, <2>1, Zenon
<1>7. CASE \/ MediaHeader \/ MediaBytes \/ Terminal("done") \/ Terminal("error")
           \/ (\E len \in AttachSizes : Attach(len)) \/ (\E n \in 1..2 : Blob(n))
           \/ Interrupted \/ AttachEnd \/ EvictionNotice \/ ClientLeaves \/ WorkerEnds
  <2>1. UNCHANGED conversation /\ (serving' = "turn" => serving = "turn")
    BY <1>7, Zenon DEF MediaHeader, MediaBytes, Terminal, Attach, Blob, Interrupted, AttachEnd,
       EvictionNotice,
                ClientLeaves, WorkerEnds, conversation
  <2>. QED  BY <1>1, <2>1, Zenon
<1>. QED  BY <1>2, <1>3, <1>4, <1>5, <1>6, <1>7, Zenon DEF ProtocolNext

\* The books of the calls hold always.
LEMMA CallsHold == ProtocolSpec => []CallsExact
<1>1. ProtocolInit => CallsExact
  BY DEF ProtocolInit, CallsExact, PendingExact
<1>. QED  BY <1>1, CallsKept, PTL DEF ProtocolSpec

\* turn, answer_tools and Generate (session.rs): whatever batches of results
\* come, complete, partial or of unknown calls, the session waits on exactly
\* the calls of this conversation that have no result.
THEOREM PendingIsExact == ProtocolSpec => []PendingExact
<1>1. CallsExact => PendingExact
  BY Zenon DEF CallsExact
<1>. QED  BY <1>1, CallsHold, PTL

\* The same lines: a turn starts only when every call in the history has its
\* result.
THEOREM NoneHalfAnswered == ProtocolSpec => NoHalfAnswered
<1>1. ProtocolSpec =>
        [][serving # "turn" /\ serving' = "turn" => in_history' \subseteq answers']_protocolVars
  BY CallsKept, CallsHold, PTL DEF ProtocolSpec
<1>. QED  BY <1>1, Zenon DEF NoHalfAnswered

-----------------------------------------------------------------------------
\* A turn is refused, or begun with tools in parallel only for a client of
\* version 2.
LEMMA TurnBegins ==
  ASSUME BeginTurn, proto \in {1, 2}
  PROVE  \/ serving' = "ready" /\ told' = <<"error">>
         \/ serving' = "turn" /\ told' = << >> /\ (parallel' => proto = 2)
<1>1. proto >= 2 => proto = 2
  OBVIOUS
<1>2. \/ serving' = "ready" /\ told' = <<"error">>
      \/ serving' = "turn" /\ told' = << >> /\ \E can \in BOOLEAN : parallel' = (proto >= 2 /\ can)
  BY Zenon DEF BeginTurn
<1>. QED  BY <1>1, <1>2, Zenon

\* A request starts a new answer: nothing, or one frame.
LEMMA RequestsKeep ==
  ASSUME SessionTyped, WireExact,
         \/ \E p \in 0..3 : Hello(p)
         \/ Generate \/ AnswerNothing \/ Unrecognised \/ GenerateMedia \/ EmbedOrTokenize
         \/ \E results \in Batches : AnswerTools(results)
         \/ \E len \in AttachSizes : Attach(len)
  PROVE  SessionTyped' /\ WireExact'
<1>1. /\ serving = "ready" /\ ~ departed /\ departed' = departed
      /\ proto \in {1, 2} /\ owed \in Nat /\ sending = 0 /\ 0 \in Nat
  BY Zenon DEF SessionTyped, WireExact, Hello, Generate, AnswerNothing, Unrecognised, GenerateMedia,
     EmbedOrTokenize,
         AnswerTools, Attach, MayAsk
<1>2. /\ told' \in {<< >>, <<"error">>, <<"hello">>}
      /\ \/ serving' \in {"ready", "dead"}
         \/ serving' \in {"turn", "simple", "media", "attach"} /\ told' = << >>
      /\ proto' \in {1, 2} /\ owed' \in Nat /\ sending' \in Nat
      /\ serving' = "attach" => sending' = owed'
      /\ serving' \notin {"attach", "dead"} => sending' = 0
      /\ serving' = "turn" /\ parallel' => proto' = 2
      /\ serving' = "media" => proto' = 2
      /\ serving' = "ready" /\ told' # << >> => told' = <<"error">> \/ told' = <<"hello">>
  <2>1. CASE \E p \in 0..3 : Hello(p)
    BY <1>1, <2>1 DEF Hello, attachments, DATA_PROTO, MIN_DATA_PROTO
  <2>2. CASE Generate
    <3>1. UNCHANGED <<proto, owed, held, sending>> /\ BeginTurn
      BY <2>2, Zenon DEF Generate, attachments
    <3>. QED  BY <1>1, <3>1, TurnBegins, Zenon
  <2>3. CASE AnswerNothing \/ Unrecognised
    BY <1>1, <2>3, Zenon DEF AnswerNothing, Unrecognised, attachments
  <2>4. CASE GenerateMedia
    BY <1>1, <2>4 DEF GenerateMedia, attachments
  <2>5. CASE EmbedOrTokenize
    BY <1>1, <2>5, Zenon DEF EmbedOrTokenize, attachments
  <2>6. CASE \E results \in Batches : AnswerTools(results)
    <3>1. UNCHANGED <<proto, owed, held, sending>>
      BY <2>6, Zenon DEF AnswerTools, attachments
    <3>2. BeginTurn \/ (told' \in {<< >>, <<"error">>} /\ serving' = serving)
      BY <2>6, Zenon DEF AnswerTools
    <3>. QED  BY <1>1, <3>1, <3>2, TurnBegins, Zenon
  <2>7. CASE \E len \in AttachSizes : Attach(len)
    BY <1>1, <2>7, ProtocolAssumption, Zenon DEF Attach
  <2>. QED  BY <2>1, <2>2, <2>3, <2>4, <2>5, <2>6, <2>7
<1>3. /\ told' \in Seq(FrameKinds) /\ Ends(told')
      /\ Range(told') \in {{}, {"error"}, {"hello"}}
      /\ told' = << >> => Range(told') = {}
  BY <1>2, FirstFrame, Zenon DEF FrameKinds
<1>4. SessionTyped'
  BY <1>2, <1>3, Zenon DEF SessionTyped, Busy
<1>5. WireExact'
  BY <1>1, <1>2, <1>3, Zenon DEF WireExact, Busy, Terminals
<1>. QED  BY <1>4, <1>5, Zenon

\* The frames of an answer under way, and its end.
LEMMA EventsKeep ==
  ASSUME SessionTyped, WireExact,
         \/ TokenEvent \/ TokenUnread \/ UnofferedCall \/ ValueEvent
         \/ (\E n \in 1..2 : ToolCallsEvent(n))
         \/ MediaHeader \/ MediaBytes \/ Terminal("done") \/ Terminal("error")
         \/ Interrupted \/ EvictionNotice \/ AttachEnd
  PROVE  SessionTyped' /\ WireExact'
<1>. DEFINE Says(f) == told' = Append(told, f)
<1>1. /\ proto' = proto /\ owed' = owed /\ sending' = sending /\ parallel' = parallel /\ departed' = departed
      /\ proto \in {1, 2} /\ owed \in Nat /\ sending \in Nat /\ serving \in Busy \cup {"ready", "dead"}
  BY Zenon DEF SessionTyped, TokenEvent, TokenUnread, UnofferedCall, ValueEvent, ToolCallsEvent,
     MediaHeader, MediaBytes,
         Terminal, Interrupted, EvictionNotice, AttachEnd, attachments
<1>2. \/ /\ told' = told
         /\ \/ serving' \in {"ready", "dead"} /\ departed /\ serving \in {"turn", "media", "simple", "attach"}
                 /\ (serving = "attach" => serving' = "dead" \/ owed = 0)
            \/ serving' = serving
            \/ serving = "blob" /\ serving' = "media" /\ departed
            \/ serving = "attach" /\ serving' = "ready" /\ owed = 0
      \/ \E f \in FrameKinds :
           /\ told' = Append(told, f) /\ ~ departed
           /\ \/ /\ f \in Terminals
                 /\ serving' \in {"ready", "dead"} /\ serving \in {"turn", "media", "simple", "attach"}
                 /\ (serving = "attach" => serving' = "dead" \/ owed = 0)
              \/ f = "notice" /\ serving' = serving /\ serving # "dead"
              \/ serving = "turn" /\ serving' = "turn" /\ f \in {"token", "call"}
              \/ serving = "turn" /\ serving' = "turn" /\ f = "calls" /\ parallel
              \/ serving = "simple" /\ serving' = "simple" /\ f = "value"
              \/ serving = "media" /\ serving' = "blob" /\ f = "media"
              \/ serving = "blob" /\ serving' = "media" /\ f = "blob"
  <2>1. CASE TokenEvent \/ TokenUnread \/ UnofferedCall \/ ValueEvent
    BY <2>1, Zenon DEF TokenEvent, TokenUnread, UnofferedCall, ValueEvent, Send, FrameKinds, Terminals
  <2>2. CASE \E n \in 1..2 : ToolCallsEvent(n)
    <3>1. PICK n \in 1..2 : ToolCallsEvent(n)
      BY <2>2, Zenon
    <3>2. /\ serving = "turn" /\ serving' = "turn"
          /\ n = 2 => parallel
          /\ Send(IF n = 1 THEN "call" ELSE "calls")
      BY <3>1 DEF ToolCallsEvent
    <3>. QED  BY <3>2 DEF Send, FrameKinds
  <2>3. CASE MediaHeader \/ MediaBytes
    BY <2>3, Zenon DEF MediaHeader, MediaBytes, Send, FrameKinds
  <2>4. CASE Terminal("done") \/ Terminal("error") \/ Interrupted
    BY <2>4, Zenon DEF Terminal, Interrupted, Send, FrameKinds, Terminals
  <2>5. CASE EvictionNotice
    BY <2>5, Zenon DEF EvictionNotice, Send, FrameKinds
  <2>6. CASE AttachEnd
    BY <2>6, Zenon DEF AttachEnd, Send, FrameKinds, Terminals
  <2>. QED  BY <2>1, <2>2, <2>3, <2>4, <2>5, <2>6
<1>4. /\ Ends(told) /\ told \in Seq(FrameKinds)
      /\ serving \in Busy => Range(told) \cap Terminals = {}
      /\ serving = "attach" => Range(told) \subseteq {"notice"} /\ sending = owed
      /\ (serving = "ready" /\ ~ departed /\ Range(told) \ {"notice", "hello"} # {}) =>
           Range(told) \cap Terminals # {}
      /\ proto < 2 => Range(told) \cap {"calls", "media", "blob"} = {}
      /\ (serving = "turn" /\ parallel) \/ serving \in {"media", "blob"} => proto = 2
      /\ serving \notin {"attach", "dead"} => sending = 0
  BY Zenon DEF SessionTyped, WireExact
<1>5. serving' \in Busy \cup {"ready", "dead"}
  BY <1>1, <1>2, Zenon DEF Busy
<1>6. CASE told' = told
  BY <1>1, <1>2, <1>4, <1>5, <1>6 DEF SessionTyped, WireExact, Busy
<1>7. ASSUME NEW f \in FrameKinds, told' = Append(told, f), ~ departed,
             \/ /\ f \in Terminals
                /\ serving' \in {"ready", "dead"} /\ serving \in {"turn", "media", "simple", "attach"}
                /\ (serving = "attach" => serving' = "dead" \/ owed = 0)
             \/ f = "notice" /\ serving' = serving /\ serving # "dead"
             \/ serving = "turn" /\ serving' = "turn" /\ f \in {"token", "call"}
             \/ serving = "turn" /\ serving' = "turn" /\ f = "calls" /\ parallel
             \/ serving = "simple" /\ serving' = "simple" /\ f = "value"
             \/ serving = "media" /\ serving' = "blob" /\ f = "media"
             \/ serving = "blob" /\ serving' = "media" /\ f = "blob"
      PROVE  SessionTyped' /\ WireExact'
  <2>1. /\ told' \in Seq(FrameKinds) /\ Range(told') = Range(told) \cup {f}
        /\ (f = "notice" \/ Range(told) \cap Terminals = {}) => Ends(told')
    BY <1>4, <1>7, OneMore, Zenon
  <2>2. SessionTyped'
    BY <1>1, <1>5, <2>1, Zenon DEF SessionTyped
  <2>3. Ends(told')
    BY <1>4, <1>7, <2>1, Zenon DEF Busy
  <2>4. serving' \in Busy => Range(told') \cap Terminals = {}
    BY <1>4, <1>7, <2>1, Zenon DEF Busy, Terminals
  <2>5. /\ serving' = "attach" => Range(told') \subseteq {"notice"} /\ sending' = owed'
        /\ (serving' = "ready" /\ ~ departed' /\ Range(told') \ {"notice", "hello"} # {}) =>
             Range(told') \cap Terminals # {}
    BY <1>1, <1>4, <1>7, <2>1
  <2>6. /\ proto' < 2 => Range(told') \cap {"calls", "media", "blob"} = {}
        /\ (serving' = "turn" /\ parallel') \/ serving' \in {"media", "blob"} => proto' = 2
        /\ serving' \notin {"attach", "dead"} => sending' = 0
    BY <1>1, <1>4, <1>7, <2>1 DEF Terminals
  <2>. QED  BY <2>2, <2>3, <2>4, <2>5, <2>6, Zenon DEF WireExact
<1>. QED  BY <1>2, <1>6, <1>7

\* Attachment bytes, and the client leaving.
LEMMA BytesKeep ==
  ASSUME SessionTyped, WireExact, (\E n \in 1..2 : Blob(n)) \/ ClientLeaves \/ WorkerEnds
  PROVE  SessionTyped' /\ WireExact'
<1>1. CASE ClientLeaves \/ WorkerEnds
  BY <1>1 DEF ClientLeaves, WorkerEnds, SessionTyped, WireExact, Busy, attachments
<1>2. ASSUME NEW n \in 1..2, Blob(n) PROVE SessionTyped' /\ WireExact'
  <2>1. /\ sending >= n /\ serving = "attach" /\ sending' = sending - n /\ owed' = owed - n
        /\ UNCHANGED <<proto, serving, told, parallel, departed>>
    BY <1>2 DEF Blob, SessionTyped, WireExact, Busy
  <2>2. sending = owed /\ sending \in Nat /\ owed' \in Nat /\ sending' \in Nat /\ sending' = owed'
    BY <2>1 DEF SessionTyped, WireExact
  <2>. QED  BY <2>1, <2>2, Zenon DEF SessionTyped, WireExact
<1>. QED  BY <1>1, <1>2, Zenon

\* So do the books of the wire.
LEMMA WireHolds == ProtocolSpec => [](SessionTyped /\ WireExact)
<1>1. ProtocolInit => SessionTyped /\ WireExact
  BY FirstFrame DEF ProtocolInit, SessionTyped, WireExact, Busy, MIN_DATA_PROTO
<1>2. ASSUME SessionTyped /\ WireExact, [ProtocolNext]_protocolVars PROVE (SessionTyped /\ WireExact)'
  <2>1. CASE UNCHANGED protocolVars
    BY <1>2, <2>1, Zenon DEF protocolVars, SessionTyped, WireExact
  <2>. QED  BY <1>2, <2>1, RequestsKeep, EventsKeep, BytesKeep, Zenon DEF ProtocolNext
<1>. QED  BY <1>1, <1>2, PTL DEF ProtocolSpec

\* run, turn and attach (session.rs): a request is answered once and nothing
\* but notices follows its end, a client of version 1 gets nothing of version
\* 2, and whenever a request is expected the client has no attachment bytes
\* left to send.
THEOREM WireStaysInOrder == ProtocolSpec => []WireInOrder
<1>1. SessionTyped /\ WireExact => WireInOrder
  BY Zenon DEF SessionTyped, WireExact, WireInOrder, AnsweredOnce, OldClientsUnderstand, InStep, Ends
<1>. QED  BY <1>1, WireHolds, PTL

-----------------------------------------------------------------------------
(* DecodeHelper.  What was read, is in the pipe and is still to be sent    *)
(* add up to what was announced (Announced, Streaming).                    *)

\* What a helper may write.
Frames == [type : {"reply", "blob", "other"}, ok : BOOLEAN, len : Nat]

\* The types of the two processes' state.
DecodeTyped ==
  /\ kind \in {"absent", "shipped", "rogue"}
  /\ {size, writer, got, left, wanted, have} \subseteq Nat
  /\ outpipe \in Seq(Frames)
  /\ child \in {"off", "request", "payload", "confine", "decode", "fail", "answer", "blobs",
                "exited"}
  /\ daemon \in {"start", "reply", "payload", "kill", "wait", "join", "done"}

\* The way out: kill, wait for the helper, join the writer.
WayOut ==
  /\ daemon = "start" => child = "off" /\ got = 0 /\ left = 0 /\ have = 0 /\ wanted = 0
                         /\ outpipe = << >>
  /\ daemon \in {"wait", "join"} => child = "exited" /\ ~ heir
  /\ daemon \in {"start", "reply", "payload"} => outcome = "none"
  /\ daemon # "done" => verdict = "none" /\ (kind = "absent" => daemon = "start")
  /\ daemon = "join" => reaped
  /\ daemon = "done" /\ kind # "absent" => reaped /\ child = "exited" /\ ~ heir /\ writer = 0

\* How far the shipped decoder is with its input.
InputRead ==
  /\ child \in {"off", "request"} => got = 0
  /\ child = "payload" => got < size
  /\ child \in {"confine", "decode", "fail", "answer", "blobs"} => got = size
  /\ child = "blobs" => left > 0

\* It has sent its reply, and the frames still to come are those it announced.
Sending == /\ got = size /\ child \in {"blobs", "exited"} /\ (child = "blobs" <=> left > 0)

\* Nothing has come from the helper.
Unanswered == outpipe = << >> /\ have = 0 /\ child \notin {"off", "blobs"}
\* It has answered that it cannot.
Refused == outpipe = <<HelperReply(FALSE, 0)>> /\ child = "exited"
\* It has announced its frames and sent some of them.
Announced ==
  /\ have = 0 /\ Sending /\ outpipe # << >>
  /\ outpipe[1] = HelperReply(TRUE, Len(outpipe) - 1 + left)
  /\ \A i \in 2..Len(outpipe) : outpipe[i] = BlobFrame(1)
\* The daemon is reading them; none is lost or extra.
Streaming ==
  /\ Sending /\ \A i \in 1..Len(outpipe) : outpipe[i] = BlobFrame(1)
  /\ have + Len(outpipe) + left = wanted

\* What the shipped decoder's output is at each stage of the daemon's read.
ShippedStream ==
  kind = "shipped" =>
    /\ InputRead
    /\ daemon = "reply" => Unanswered \/ Refused \/ Announced
    /\ daemon = "payload" => Streaming

\* What the daemon has when it accepts.
Arrived ==
  /\ daemon = "reply" => have = 0
  /\ daemon = "payload" => wanted <= MaxDecoded
  /\ outcome = "ok" => /\ wanted <= have /\ wanted <= MaxDecoded
                       /\ kind = "shipped" => have = wanted /\ left = 0 /\ got = size
                                              /\ child = "exited"
  /\ verdict = "ok" => outcome = "ok"

\* The inductive invariant.
DecodeInv == DecodeTyped /\ WayOut /\ ShippedStream /\ Arrived

\* The frames are frames.
LEMMA FrameFacts ==
  /\ \A n \in Nat : HelperReply(TRUE, n) \in Frames /\ HelperReply(FALSE, n) \in Frames
                     /\ BlobFrame(n) \in Frames
  /\ OtherFrame \in Frames
  BY Zenon DEF BlobFrame, OtherFrame, HelperReply, Frames

\* Starting the helper, or failing to.
LEMMA SpawnKeeps ==
  ASSUME DecodeInv, SpawnDecoder
  PROVE  DecodeInv'
<1>1. CASE kind = "absent"
  <2>1. /\ daemon = "start" /\ daemon' = "done" /\ verdict' = "absent"
        /\ UNCHANGED <<kind, size, writer, child, pipes, got, left, exit, heir, reaped, late, wanted,
                       have, outcome>>
    BY <1>1, Zenon DEF SpawnDecoder
  <2>. QED  BY <1>1, <2>1, Zenon DEF DecodeInv, DecodeTyped, WayOut, ShippedStream, Arrived, pipes
<1>2. CASE kind # "absent"
  <2>1. /\ daemon = "start" /\ daemon' = "reply" /\ writer' = 1 + size /\ child' = "request"
        /\ UNCHANGED <<kind, size, verdict, inpipe, outpipe, got, left, exit, heir, reaped, late,
                       wanted, have, outcome>>
    BY <1>2, Zenon DEF SpawnDecoder, pipes
  <2>2. DecodeTyped'
    BY <2>1 DEF DecodeInv, DecodeTyped
  <2>3. WayOut' /\ Arrived'
    BY <1>2, <2>1, Zenon DEF DecodeInv, WayOut, Arrived
  <2>4. ShippedStream'
    BY <2>1, Zenon DEF DecodeInv, WayOut, ShippedStream, InputRead, Unanswered
  <2>. QED  BY <2>2, <2>3, <2>4, Zenon DEF DecodeInv
<1>. QED  BY <1>1, <1>2, Zenon

\* The writer thread, the deadline, and what a strange helper does besides
\* writing.
LEMMA WriteKeeps ==
  ASSUME DecodeInv, WriteFrame \/ DeadlinePasses \/ RogueReads \/ RogueForks
  PROVE  DecodeInv'
<1>1. CASE WriteFrame
  <2>1. /\ writer > 0 /\ writer' \in {writer - 1, 0}
        /\ UNCHANGED <<kind, size, daemon, outpipe, child, got, left, heir, reaped, wanted, have,
                       outcome, verdict>>
    BY <1>1, Zenon DEF WriteFrame, helperVars
  <2>2. DecodeTyped'
    BY <2>1 DEF DecodeInv, DecodeTyped
  <2>3. WayOut'
    BY <2>1 DEF DecodeInv, DecodeTyped, WayOut
  <2>4. ShippedStream'
    BY <2>1, Zenon DEF DecodeInv, ShippedStream, InputRead, Unanswered, Refused, Announced, Streaming,
                Sending
  <2>5. Arrived'
    BY <2>1, Zenon DEF DecodeInv, Arrived
  <2>. QED  BY <2>2, <2>3, <2>4, <2>5 DEF DecodeInv
<1>2. CASE DeadlinePasses \/ RogueReads
  <2>1. UNCHANGED <<kind, size, daemon, writer, outpipe, child, got, left, heir, reaped, wanted,
                    have, outcome, verdict>>
    BY <1>2, Zenon DEF DeadlinePasses, RogueReads, Quietly, helperVars, pipes
  <2>2. DecodeTyped' /\ WayOut' /\ Arrived'
    BY <2>1 DEF DecodeInv, DecodeTyped, WayOut, Arrived
  <2>3. ShippedStream'
    BY <2>1, Zenon DEF DecodeInv, ShippedStream, InputRead, Unanswered, Refused, Announced, Streaming,
                Sending
  <2>. QED  BY <2>2, <2>3, Zenon DEF DecodeInv
<1>3. CASE RogueForks
  <2>1. /\ kind = "rogue" /\ child = "request"
        /\ UNCHANGED <<kind, size, daemon, writer, outpipe, child, got, left, reaped, wanted,
                       have, outcome, verdict>>
    BY <1>3, Zenon DEF RogueForks, Rogue, helperVars, pipes
  <2>2. WayOut'
    BY <2>1, Zenon DEF DecodeInv, WayOut
  <2>. QED  BY <2>1, <2>2, Zenon DEF DecodeInv, DecodeTyped, ShippedStream, Arrived
<1>. QED  BY <1>1, <1>2, <1>3, Zenon

\* The ends of the read, and the way out.
LEMMA EndKeeps ==
  ASSUME DecodeInv, TakeEof \/ RunOutOfTime \/ KillGroup \/ WaitDecoder \/ JoinWriter
  PROVE  DecodeInv'
<1>1. CASE TakeEof \/ RunOutOfTime
  <2>1. /\ daemon \in {"reply", "payload"} /\ outcome' \in {"error", "late"} /\ daemon' = "kill"
        /\ UNCHANGED <<kind, size, writer, outpipe, child, got, left, heir, reaped, wanted, have,
                       verdict>>
    BY <1>1, Zenon DEF TakeEof, RunOutOfTime, Reading, Concluded, helperVars, pipes
  <2>. QED  BY <2>1, Zenon DEF DecodeInv, DecodeTyped, WayOut, ShippedStream, InputRead, Arrived
<1>2. CASE KillGroup
  <2>1. /\ daemon = "kill" /\ daemon' = "wait" /\ child' = "exited" /\ heir' = FALSE
        /\ UNCHANGED <<kind, size, writer, outpipe, got, left, reaped, wanted, have, outcome,
                       verdict>>
    BY <1>2, Zenon DEF KillGroup, pipes
  <2>. QED  BY <2>1, Zenon DEF DecodeInv, DecodeTyped, WayOut, ShippedStream, InputRead, Arrived
<1>3. CASE WaitDecoder
  <2>1. /\ daemon = "wait" /\ daemon' = "join" /\ reaped' = TRUE
        /\ UNCHANGED <<kind, size, writer, outpipe, child, got, left, heir, wanted, have, outcome,
                       verdict>>
    BY <1>3, Zenon DEF WaitDecoder, pipes, helperVars
  <2>. QED  BY <2>1, Zenon DEF DecodeInv, DecodeTyped, WayOut, ShippedStream, InputRead, Arrived
<1>4. CASE JoinWriter
  <2>1. /\ daemon = "join" /\ writer = 0 /\ daemon' = "done" /\ verdict' \in {"caged", outcome}
        /\ UNCHANGED <<kind, size, writer, outpipe, child, got, left, heir, reaped, wanted, have,
                       outcome>>
    BY <1>4, Zenon DEF JoinWriter, pipes, helperVars
  <2>. QED  BY <2>1, Zenon DEF DecodeInv, DecodeTyped, WayOut, ShippedStream, InputRead, Arrived
<1>. QED  BY <1>1, <1>2, <1>3, <1>4, Zenon

\* What a strange helper writes, and its death.
LEMMA RogueKeeps ==
  ASSUME DecodeInv, RogueSends \/ RogueDies
  PROVE  DecodeInv'
<1>1. /\ kind = "rogue" /\ child = "request" /\ child' \in {"request", "exited"}
      /\ UNCHANGED <<kind, size, daemon, writer, got, left, heir, reaped, wanted, have, outcome,
                     verdict>>
  BY Zenon DEF RogueSends, RogueDies, Rogue, Quietly, helperVars
<1>2. outpipe' \in Seq(Frames)
  <2>1. CASE RogueDies
    BY <2>1, Zenon DEF RogueDies, pipes, DecodeInv, DecodeTyped
  <2>2. CASE RogueSends
    <3>1. PICK f \in {HelperReply(TRUE, n) : n \in Outputs}
                       \cup {HelperReply(FALSE, 0), OtherFrame}
                       \cup {BlobFrame(n) : n \in 0..1} :
            outpipe' = Append(outpipe, f)
      BY <2>2, Zenon DEF RogueSends
    <3>2. f \in Frames
      <4>1. \A n \in Outputs \cup (0..1) : n \in Nat
        BY DecodeAssumption
      <4>2. 0 \in Nat
        BY Zenon
      <4>. QED  BY <4>1, <4>2, FrameFacts, Zenon
    <3>. QED  BY <3>1, <3>2, SeqAppend, Zenon DEF DecodeInv, DecodeTyped
  <2>. QED  BY <2>1, <2>2, Zenon
<1>. QED  BY <1>1, <1>2, Zenon DEF DecodeInv, DecodeTyped, WayOut, ShippedStream, Arrived

\* The shipped decoder until it answers.
LEMMA DecoderKeeps ==
  ASSUME DecodeInv, ReadEncoded \/ Confine \/ DecodeBytes
  PROVE  DecodeInv'
<1>1. /\ kind = "shipped" /\ child \in {"request", "payload", "confine", "decode"}
      /\ child' \in {"payload", "confine", "decode", "fail", "answer", "exited"}
      /\ UNCHANGED <<kind, size, daemon, writer, outpipe, heir, reaped, wanted, have, outcome,
                     verdict>>
      /\ left' = left \/ left' \in {n \in Outputs : n <= MaxDecoded}
  BY Zenon DEF ReadEncoded, Confine, DecodeBytes, Decoder, Quietly, pipes
<1>2. /\ got' = got \/ (got' = got + 1 /\ child = "payload")
      /\ child' = "payload" => got' < size
      /\ child' \in {"confine", "decode", "fail", "answer"} => got' = size
  <2>1. {got, size} \subseteq Nat
    BY Zenon DEF DecodeInv, DecodeTyped
  <2>2. InputRead
    BY <1>1, Zenon DEF DecodeInv, ShippedStream
  <2>3. CASE ReadEncoded
    BY <2>1, <2>2, <2>3 DEF ReadEncoded, Decoder, InputRead
  <2>4. CASE Confine \/ DecodeBytes
    BY <2>2, <2>4, Zenon DEF Confine, DecodeBytes, Decoder, InputRead
  <2>. QED  BY <2>3, <2>4, Zenon
<1>3. DecodeTyped'
  <2>1. got' \in Nat
    BY <1>2 DEF DecodeInv, DecodeTyped
  <2>2. left' \in Nat
    BY <1>1, DecodeAssumption, Zenon DEF DecodeInv, DecodeTyped
  <2>. QED  BY <1>1, <2>1, <2>2 DEF DecodeInv, DecodeTyped
<1>4. daemon \in {"reply", "kill"}
  BY <1>1, Zenon DEF DecodeInv, DecodeTyped, WayOut, ShippedStream, Streaming, Sending
<1>5. WayOut'
  BY <1>1, <1>4, Zenon DEF DecodeInv, WayOut
<1>6. ShippedStream'
  <2>1. daemon = "reply" => Unanswered
    BY <1>1, Zenon DEF DecodeInv, ShippedStream, Refused, Announced, Sending
  <2>2. daemon' = "reply" => Unanswered'
    BY <1>1, <2>1, Zenon DEF Unanswered
  <2>. QED  BY <1>1, <1>2, <1>4, <2>2, Zenon DEF ShippedStream, InputRead
<1>7. Arrived'
  BY <1>1, <1>4, Zenon DEF DecodeInv, Arrived
<1>. QED  BY <1>3, <1>5, <1>6, <1>7, Zenon DEF DecodeInv

\* The shipped decoder's answer, and its frames.
LEMMA SendKeeps ==
  ASSUME DecodeInv, SendDecoded
  PROVE  DecodeInv'
<1>. DEFINE n == Len(outpipe)
<1>1. /\ kind = "shipped" /\ child \in {"fail", "answer", "blobs"} /\ child' \in {"blobs", "exited"}
      /\ UNCHANGED <<kind, size, daemon, writer, got, heir, reaped, wanted, have, outcome, verdict>>
  BY Zenon DEF SendDecoded, Put, Quietly
<1>2. /\ {size, writer, got, left, wanted, have} \subseteq Nat /\ outpipe \in Seq(Frames)
      /\ got = size /\ n \in Nat
  BY <1>1, SeqLen, Zenon DEF DecodeInv, DecodeTyped, ShippedStream, InputRead
<1>3. PICK f \in Frames :
        /\ outpipe' = Append(outpipe, f)
        /\ \/ child = "fail" /\ f = HelperReply(FALSE, 0) /\ child' = "exited" /\ left' = left
           \/ /\ child = "answer" /\ f = HelperReply(TRUE, left) /\ left' = left
              /\ child' = IF left = 0 THEN "exited" ELSE "blobs"
           \/ /\ child = "blobs" /\ f = BlobFrame(1) /\ left' = left - 1
              /\ child' = IF left = 1 THEN "exited" ELSE "blobs"
  BY <1>2, FrameFacts, Zenon DEF SendDecoded, Put
<1>4. /\ outpipe' \in Seq(Frames) /\ Len(outpipe') = n + 1 /\ outpipe'[n + 1] = f
      /\ \A i \in 1..n : outpipe'[i] = outpipe[i]
  BY <1>2, <1>3, SeqAppend
<1>5. daemon \in {"reply", "payload", "kill"}
  BY <1>1, Zenon DEF DecodeInv, DecodeTyped, WayOut
<1>6. /\ left' \in Nat /\ (child' = "blobs" => left' > 0)
  <2>1. child = "blobs" => left > 0
    BY <1>1, Zenon DEF DecodeInv, ShippedStream, InputRead
  <2>2. \/ left' = left /\ (child' = "blobs" => left # 0)
        \/ child = "blobs" /\ left' = left - 1 /\ (child' = "blobs" => left # 1)
    BY <1>1, <1>3, Zenon
  <2>. QED  BY <1>2, <2>1, <2>2
<1>7. DecodeTyped'
  BY <1>1, <1>2, <1>4, <1>6, Zenon DEF DecodeInv, DecodeTyped
<1>8. WayOut'
  BY <1>1, <1>5, Zenon DEF DecodeInv, WayOut
<1>9. Arrived'
  BY <1>1, <1>5, Zenon DEF DecodeInv, WayOut, Arrived
<1>10. InputRead'
  BY <1>1, <1>2, <1>6, Zenon DEF InputRead
<1>11. ASSUME daemon = "reply" PROVE (Unanswered \/ Refused \/ Announced)'
  <2>1. CASE child = "blobs"
    <3>1. Announced
      BY <1>1, <1>11, <2>1, Zenon DEF DecodeInv, ShippedStream, Unanswered, Refused
    <3>2. n >= 1 /\ left > 0
      BY <1>2, <2>1, <3>1, SeqEmpty, SeqLen DEF Announced, Sending
    <3>3. Sending' /\ have' = 0
      BY <1>1, <1>2, <1>3, <2>1, <3>1, <3>2 DEF Announced, Sending
    <3>4. outpipe'[1] = HelperReply(TRUE, Len(outpipe') - 1 + left')
      <4>1. outpipe'[1] = HelperReply(TRUE, n - 1 + left)
        <5>1. 1 \in 1..n
          BY <1>2, <3>2
        <5>. QED  BY <1>4, <3>1, <5>1, Zenon DEF Announced
      <4>2. Len(outpipe') - 1 + left' = n - 1 + left
        BY <1>2, <1>3, <1>4, <2>1
      <4>. QED  BY <4>1, <4>2, Zenon
    <3>5. \A i \in 2..Len(outpipe') : outpipe'[i] = BlobFrame(1)
      <4>1. \A i \in 2..n : outpipe'[i] = BlobFrame(1)
        BY <1>2, <1>4, <3>1 DEF Announced
      <4>2. outpipe'[n + 1] = BlobFrame(1)
        BY <1>3, <1>4, <2>1, Zenon
      <4>3. \A i \in 2..(n + 1) : i \in 2..n \/ i = n + 1
        BY <1>2
      <4>. QED  BY <1>4, <4>1, <4>2, <4>3
    <3>6. outpipe' # << >>
      BY <1>2, <1>4, <3>2
    <3>. QED  BY <3>3, <3>4, <3>5, <3>6 DEF Announced
  <2>2. CASE child \in {"answer", "fail"}
    <3>1. Unanswered
      BY <1>11, <1>1, <2>2, Zenon DEF DecodeInv, ShippedStream, Refused, Announced, Sending
    <3>2. n = 0 /\ have = 0
      BY <3>1, Zenon DEF Unanswered
    <3>3. outpipe' = <<f>>
      BY <1>3, <3>1 DEF Unanswered
    <3>4. CASE child = "fail"
      BY <1>3, <3>3, <3>4, Zenon DEF Refused
    <3>5. CASE child = "answer"
      <4>1. Sending' /\ have' = 0
        BY <1>1, <1>2, <1>3, <3>2, <3>5 DEF Sending
      <4>2. Len(outpipe') = 1 /\ outpipe'[1] = HelperReply(TRUE, left) /\ left' = left
        BY <1>3, <1>4, <3>2, <3>5
      <4>3. Len(outpipe') - 1 + left' = left
        BY <1>2, <4>2
      <4>4. outpipe' # << >>
        BY <3>3, Zenon
      <4>5. outpipe'[1] = HelperReply(TRUE, Len(outpipe') - 1 + left')
        BY <4>2, <4>3, Zenon
      <4>6. \A i \in 2..Len(outpipe') : outpipe'[i] = BlobFrame(1)
        BY <4>2
      <4>. QED  BY <4>1, <4>4, <4>5, <4>6 DEF Announced
    <3>. QED  BY <2>2, <3>4, <3>5, Zenon
  <2>. QED  BY <1>1, <2>1, <2>2, Zenon
<1>12. ASSUME daemon = "payload" PROVE Streaming'
  <2>1. Streaming /\ child = "blobs" /\ left > 0
    BY <1>1, <1>12, Zenon DEF DecodeInv, ShippedStream, Streaming, Sending
  <2>2. Sending'
    BY <1>1, <1>2, <1>3, <2>1 DEF Sending
  <2>3. \A i \in 1..Len(outpipe') : outpipe'[i] = BlobFrame(1)
    <3>1. \A i \in 1..(n + 1) : i \in 1..n \/ i = n + 1
      BY <1>2
    <3>2. outpipe'[n + 1] = BlobFrame(1)
      BY <1>3, <1>4, <2>1, Zenon
    <3>3. \A i \in 1..n : outpipe'[i] = BlobFrame(1)
      BY <1>4, <2>1, Zenon DEF Streaming
    <3>. QED  BY <1>4, <3>1, <3>2, <3>3, Zenon
  <2>4. have' + Len(outpipe') + left' = wanted'
    BY <1>1, <1>2, <1>3, <1>4, <2>1 DEF Streaming
  <2>. QED  BY <2>2, <2>3, <2>4, Zenon DEF Streaming
<1>13. ShippedStream'
  BY <1>1, <1>10, <1>11, <1>12, Zenon DEF ShippedStream
<1>. QED  BY <1>7, <1>8, <1>9, <1>13 DEF DecodeInv

\* The daemon reads a frame.
LEMMA TakeKeeps ==
  ASSUME DecodeInv, TakeFrame
  PROVE  DecodeInv'
<1>. DEFINE f == outpipe[1]
            n == Len(outpipe)
<1>1. /\ UNCHANGED <<kind, size, writer, child, got, left, heir, reaped, verdict>>
      /\ daemon \in {"reply", "payload"} /\ outpipe # << >> /\ outpipe' = Tail(outpipe)
      /\ \/ /\ outcome' = "error" /\ daemon' = "kill" /\ UNCHANGED <<wanted, have>>
         \/ /\ daemon = "reply" /\ f.type = "reply" /\ f.ok /\ ~ (f.len > MaxDecoded)
            /\ wanted' = f.len /\ have' = have
            /\ \/ f.len = 0 /\ outcome' = "ok" /\ daemon' = "kill"
               \/ f.len # 0 /\ outcome' = outcome /\ daemon' = "payload"
         \/ /\ daemon = "payload" /\ f.type = "blob" /\ have' = have + f.len /\ wanted' = wanted
            /\ \/ have' >= wanted /\ outcome' = "ok" /\ daemon' = "kill"
               \/ ~ (have' >= wanted) /\ outcome' = outcome /\ daemon' = "payload"
  BY DEF TakeFrame, Reading, Concluded, GoesOn, helperVars
<1>2. /\ {size, writer, got, left, wanted, have} \subseteq Nat /\ outpipe \in Seq(Frames)
      /\ n \in Nat /\ n >= 1 /\ f \in Frames /\ f.len \in Nat /\ outcome = "none" /\ verdict = "none"
  <2>1. outpipe \in Seq(Frames) /\ {size, writer, got, left, wanted, have} \subseteq Nat
    BY Zenon DEF DecodeInv, DecodeTyped
  <2>2. n \in Nat /\ n >= 1 /\ f \in Frames
    BY <1>1, <2>1, SeqEmpty, SeqLen, SeqElement
  <2>. QED  BY <1>1, <2>1, <2>2, Zenon DEF Frames, DecodeInv, WayOut
<1>3. /\ outpipe' \in Seq(Frames) /\ Len(outpipe') = n - 1
      /\ \A i \in 1..(n - 1) : outpipe'[i] = outpipe[i + 1]
  BY <1>1, <1>2, SeqTail, Zenon
<1>. HIDE DEF f, n
<1>4. DecodeTyped'
  <2>1. wanted' \in Nat /\ have' \in Nat
    BY <1>1, <1>2
  <2>. QED  BY <1>1, <1>2, <1>3, <2>1 DEF DecodeInv, DecodeTyped
<1>5. WayOut'
  BY <1>1, <1>2, Zenon DEF DecodeInv, WayOut
<1>6. ASSUME kind = "shipped", daemon = "reply", f.type = "reply", f.ok
      PROVE  Announced /\ f.len = n - 1 + left
  <2>1. outpipe[1] = f
    BY Zenon DEF f
  <2>2. ~ Unanswered
    BY <1>1, Zenon DEF Unanswered
  <2>3. ~ Refused
    BY <1>6, <2>1 DEF Refused, HelperReply
  <2>4. Announced
    BY <1>6, <2>2, <2>3, Zenon DEF DecodeInv, ShippedStream
  <2>. QED  BY <2>1, <2>4 DEF Announced, HelperReply, n
<1>7. ASSUME kind = "shipped", daemon = "payload"
      PROVE  Streaming /\ f.len = 1
  BY <1>2, <1>7 DEF DecodeInv, ShippedStream, Streaming, f, n, BlobFrame
<1>8. ASSUME kind = "shipped", outcome' = "ok"
      PROVE  have' = wanted' /\ left' = 0 /\ got' = size' /\ child' = "exited"
  <2>1. CASE daemon = "reply"
    <3>1. Announced /\ f.len = n - 1 + left /\ f.len = 0 /\ wanted' = 0 /\ have' = have
      BY <1>1, <1>2, <1>6, <1>8, <2>1
    <3>2. left = 0
      BY <1>2, <3>1
    <3>. QED  BY <1>1, <3>1, <3>2 DEF Announced, Sending
  <2>2. CASE daemon = "payload"
    <3>1. Streaming /\ have' = have + 1 /\ have' >= wanted /\ wanted' = wanted
      BY <1>1, <1>2, <1>7, <1>8, <2>2
    <3>2. have + n + left = wanted
      BY <3>1, Zenon DEF Streaming, n
    <3>3. left = 0 /\ have' = wanted
      BY <1>2, <3>1, <3>2
    <3>. QED  BY <1>1, <3>1, <3>3 DEF Streaming, Sending
  <2>. QED  BY <1>1, <2>1, <2>2, Zenon
<1>9. Arrived'
  <2>1. daemon' # "reply" /\ verdict' # "ok"
    BY <1>1, <1>2, Zenon
  <2>2. MaxDecoded \in Nat
    BY DecodeAssumption, Zenon
  <2>3. daemon' = "payload" => wanted' <= MaxDecoded
    BY <1>1, <1>2, <2>2 DEF DecodeInv, Arrived
  <2>4. outcome' = "ok" => wanted' <= have' /\ wanted' <= MaxDecoded
    BY <1>1, <1>2, <2>2 DEF DecodeInv, Arrived
  <2>. QED  BY <1>1, <1>8, <2>1, <2>3, <2>4, Zenon DEF Arrived
<1>10. ShippedStream'
  <2>1. SUFFICES ASSUME kind = "shipped", daemon' = "payload" PROVE Streaming'
    BY <1>1, Zenon DEF DecodeInv, ShippedStream, InputRead
  <2>2. \A i \in 2..n : outpipe[i] = BlobFrame(1)
    <3>1. CASE daemon = "reply"
      BY <1>1, <1>6, <2>1, <3>1, Zenon DEF Announced, n
    <3>2. CASE daemon = "payload"
      <4>1. \A i \in 1..n : outpipe[i] = BlobFrame(1)
        BY <1>7, <2>1, <3>2, Zenon DEF Streaming, n
      <4>. QED  BY <1>2, <4>1
    <3>. QED  BY <1>1, <3>1, <3>2, Zenon
  <2>3. Sending'
    BY <1>1, <1>2, <1>6, <1>7, <2>1, Zenon DEF Announced, Streaming, Sending
  <2>4. \A i \in 1..Len(outpipe') : outpipe'[i] = BlobFrame(1)
    <3>1. \A i \in 1..(n - 1) : i + 1 \in 2..n
      BY <1>2
    <3>. QED  BY <1>3, <2>2, <3>1, Zenon
  <2>5. have' + Len(outpipe') + left' = wanted'
    <3>1. CASE daemon = "reply"
      <4>1. f.len = n - 1 + left /\ wanted' = f.len /\ have' = have /\ have = 0
        BY <1>1, <1>2, <1>6, <2>1, <3>1, Zenon DEF Announced
      <4>2. n \in Nat /\ left \in Nat /\ left' = left /\ Len(outpipe') = n - 1
        BY <1>1, <1>2, <1>3, Zenon
      <4>. QED  BY <4>1, <4>2
    <3>2. CASE daemon = "payload"
      <4>1. have + n + left = wanted /\ have' = have + 1 /\ wanted' = wanted
        BY <1>1, <1>2, <1>7, <2>1, <3>2 DEF Streaming, n
      <4>2. n \in Nat /\ left \in Nat /\ have \in Nat /\ left' = left /\ Len(outpipe') = n - 1
        BY <1>1, <1>2, <1>3, Zenon
      <4>. QED  BY <4>1, <4>2
    <3>. QED  BY <1>1, <3>1, <3>2, Zenon
  <2>. QED  BY <2>3, <2>4, <2>5, Zenon DEF Streaming
<1>. QED  BY <1>4, <1>5, <1>9, <1>10, Zenon DEF DecodeInv

\* decode_within (decode.rs), against any helper: when it returns, the helper
\* has been waited for, what it started is dead and the writer thread has
\* ended; what it returns as decoded is all that was announced and within the
\* limit, and from the shipped decoder exactly what that decoded of the whole
\* input.
THEOREM DecodingIsClean == DecodeSpec => []DecodeClean
<1>1. DecodeInit => DecodeInv
  <2>. SUFFICES ASSUME DecodeInit PROVE DecodeInv
    BY Zenon
  <2>1. DecodeTyped
    BY DecodeAssumption, SeqEmpty DEF DecodeInit, DecodeTyped
  <2>2. WayOut /\ Arrived
    BY Zenon DEF DecodeInit, WayOut, Arrived
  <2>3. ShippedStream
    BY Zenon DEF DecodeInit, ShippedStream, InputRead
  <2>. QED  BY <2>1, <2>2, <2>3, Zenon DEF DecodeInv
<1>2. DecodeInv /\ [DecodeNext]_decodeVars => DecodeInv'
  <2>. SUFFICES ASSUME DecodeInv, [DecodeNext]_decodeVars PROVE DecodeInv'
    BY Zenon
  <2>1. CASE UNCHANGED decodeVars
    <3>1. UNCHANGED <<kind, size, daemon, writer, outpipe, child, got, left, heir, reaped, wanted,
                      have, outcome, verdict>>
      BY <2>1, Zenon DEF decodeVars, helperVars, pipes
    <3>2. DecodeTyped' /\ WayOut' /\ Arrived'
      BY <3>1, Zenon DEF DecodeInv, DecodeTyped, WayOut, Arrived
    <3>3. ShippedStream'
      BY <3>1, Zenon DEF DecodeInv, ShippedStream, InputRead, Unanswered, Refused, Announced,
         Streaming,
                  Sending
    <3>. QED  BY <3>2, <3>3, Zenon DEF DecodeInv
  <2>2. CASE DecodeNext
    BY <2>2, SpawnKeeps, WriteKeeps, EndKeeps, RogueKeeps, DecoderKeeps, SendKeeps, TakeKeeps, Zenon
       DEF DecodeNext
  <2>. QED  BY <2>1, <2>2, Zenon
<1>3. DecodeInv => DecodeClean
  BY Zenon DEF DecodeInv, WayOut, Arrived, DecodeClean, NothingSurvives, DecodedWhole
<1>. QED  BY <1>1, <1>2, <1>3, PTL DEF DecodeSpec
=============================================================================
