----------------------------- MODULE TurnProofs -----------------------------
(***************************************************************************)
(* Proofs about what lets a turn run and what cuts it short: Scheduler,    *)
(* for any number of sessions and any caps, and that it implements         *)
(* SlotContract; Cancellation, for any number of turns, frames and calls;  *)
(* and Unblock, for any number of calls and sessions that ask.             *)
(*                                                                         *)
(* The inductive invariant of the scheduler is SchedulerInv.  SlotCaps     *)
(* alone is preserved only because a thread in admit has no entry in       *)
(* running yet, and the flags of PreemptionExact only because an attached  *)
(* entry is one whose thread streams: hence BooksMatchThreads.             *)
(* MessagesMatchThreads ties a pause on its way to the slot of the         *)
(* admission that sends it.                                                *)
(***************************************************************************)
EXTENDS Scheduler, Cancellation, Unblock, FiniteSetTheorems, TLAPS

-----------------------------------------------------------------------------
(* Sequences.                                                              *)

\* The length of a sequence, and its domain.
LEMMA SeqLen ==
  ASSUME NEW S, NEW s \in Seq(S)
  PROVE  Len(s) \in Nat /\ DOMAIN s = 1..Len(s) /\ s \in [1..Len(s) -> S]
  OBVIOUS

\* The elements of a sequence over a set are in the set.
LEMMA SeqElement ==
  ASSUME NEW S, NEW s \in Seq(S), NEW i \in 1..Len(s)
  PROVE  s[i] \in S
  OBVIOUS

\* What Append adds, and what it keeps.
LEMMA SeqAppend ==
  ASSUME NEW S, NEW s \in Seq(S), NEW e \in S
  PROVE  /\ Append(s, e) \in Seq(S) /\ Append(s, e) # << >>
         /\ Len(Append(s, e)) = Len(s) + 1 /\ Append(s, e)[Len(s) + 1] = e
         /\ \A i \in 1..Len(s) : Append(s, e)[i] = s[i]
  OBVIOUS

\* Only the empty sequence has no elements.
LEMMA SeqEmpty ==
  ASSUME NEW S
  PROVE  /\ << >> \in Seq(S) /\ Len(<< >>) = 0
         /\ \A s \in Seq(S) : s # << >> => Len(s) \in Nat \ {0}
  OBVIOUS

\* What Head and Tail are of a sequence that is not empty.
LEMMA SeqTail ==
  ASSUME NEW S, NEW s \in Seq(S), s # << >>
  PROVE  /\ Head(s) \in S /\ Tail(s) \in Seq(S) /\ Len(Tail(s)) = Len(s) - 1
         /\ \A i \in 1..Len(Tail(s)) : Tail(s)[i] = s[i + 1]
  OBVIOUS

\* The elements of a concatenation.
LEMMA SeqConcat ==
  ASSUME NEW S, NEW s \in Seq(S), NEW t \in Seq(S)
  PROVE  /\ s \o t \in Seq(S) /\ Len(s \o t) = Len(s) + Len(t)
         /\ \A i \in 1..(Len(s) + Len(t)) :
              (s \o t)[i] = IF i <= Len(s) THEN s[i] ELSE t[i - Len(s)]
  OBVIOUS

\* The elements of a part of a sequence.
LEMMA SeqSub ==
  ASSUME NEW S, NEW s \in Seq(S), NEW m \in 1..(Len(s) + 1), NEW n \in 0..Len(s)
  PROVE  /\ SubSeq(s, m, n) \in Seq(S)
         /\ Len(SubSeq(s, m, n)) = IF m <= n THEN n - m + 1 ELSE 0
         /\ \A i \in 1..(n - m + 1) : SubSeq(s, m, n)[i] = s[m + i - 1]
  OBVIOUS

-----------------------------------------------------------------------------
(* The invariants.                                                         *)

\* Removing one element leaves a sequence over the same set (admit's retain).
LEMMA RemoveAtType ==
  ASSUME NEW S, NEW q \in Seq(S), NEW i \in DOMAIN q
  PROVE  RemoveAt(q, i) \in Seq(S)
<1>1. SubSeq(q, 1, i - 1) \in Seq(S)
  BY SeqSub
<1>2. SubSeq(q, i + 1, Len(q)) \in Seq(S)
  BY SeqSub
<1>. QED  BY <1>1, <1>2, SeqConcat, Zenon DEF RemoveAt

\* A set of slots is finite, and so is each class's share of it.
LEMMA SlotsFinite ==
  ASSUME NEW S
  PROVE  /\ IsFiniteSet(S \cap Interactive)
         /\ IsFiniteSet(S \cap Background)
         /\ Cardinality(S \cap Interactive) \in Nat
         /\ Cardinality(S \cap Background) \in Nat
  BY ClassesAssumption, FS_Subset, FS_CardinalityType, Zenon

\* Initially nobody holds a slot, and the invariant holds.
LEMMA InitInv == Init => SchedulerInv
<1>. SUFFICES ASSUME Init PROVE SchedulerInv
  BY Zenon
<1>1. TypeOK
  BY ServedAssumption DEF Init, TypeOK, PCs
<1>2. BooksMatchThreads
  BY Zenon DEF Init, BooksMatchThreads
<1>3. MessagesMatchThreads
  BY Zenon DEF Init, MessagesMatchThreads
<1>4. SlotCaps
  BY FS_EmptySet, CapsAssumption DEF Init, SlotCaps
<1>5. PreemptionExact
  BY Zenon DEF Init, PreemptionExact
<1>. QED  BY <1>1, <1>2, <1>3, <1>4, <1>5, Zenon DEF SchedulerInv

\* Queueing changes no slot and no message (admit, up to its loop).
LEMMA EnqueueInv ==
  ASSUME NEW s \in Sessions, SchedulerInv, Enqueue(s)
  PROVE  SchedulerInv'
<1>. USE DEF SchedulerInv, Enqueue, At, Goto
<1>1. TypeOK'
  BY SeqAppend, Zenon DEF TypeOK, PCs
<1>2. BooksMatchThreads'
  BY Zenon DEF BooksMatchThreads, TypeOK
<1>3. MessagesMatchThreads'
  BY Zenon DEF MessagesMatchThreads, TypeOK
<1>4. SlotCaps' /\ PreemptionExact'
  BY Zenon DEF SlotCaps, PreemptionExact
<1>. QED  BY <1>1, <1>2, <1>3, <1>4, Zenon

\* An admission takes a slot its class has free, flags the background entries
\* when it is interactive, and has pauses to send to those attached (admit).
LEMMA AdmitInv ==
  ASSUME NEW s \in Sessions, SchedulerInv, Admit(s)
  PROVE  SchedulerInv'
<1>. USE DEF SchedulerInv, Admit, At, Goto
<1>0. PICK i \in DOMAIN waiting : /\ waiting[i] = s
                                  /\ is_turn(i)
                                  /\ waiting' = RemoveAt(waiting, i)
  BY Zenon
<1>1. s \notin running /\ s \notin attached /\ s \notin live
  BY Zenon DEF BooksMatchThreads
<1>2. to_pause(s) \subseteq running \cap Background
  BY Zenon DEF to_pause
<1>3. TypeOK'
  <2>1. waiting' \in Seq(Sessions)
    BY <1>0, RemoveAtType, Zenon DEF TypeOK
  <2>2. {<<t, "pause">> : t \in to_pause(s) \cap attached} \subseteq Messages
    BY <1>2 DEF Messages, Sessions
  <2>3. unsent' \in [Sessions -> SUBSET Messages]
    BY <2>2, Zenon DEF TypeOK
  <2>. QED  BY <2>1, <2>3, <1>2, Zenon DEF TypeOK, PCs
<1>4. BooksMatchThreads'
  BY DEF BooksMatchThreads, TypeOK
<1>5. MessagesMatchThreads'
  <2>. SUFFICES ASSUME NEW t \in Sessions, NEW m \in unsent'[t]
                PROVE  /\ m[1] \in attached' \cap Background
                       /\ m[2] = "pause" =>
                            m[1] = t \/ (t \in Interactive /\ pc'[t] = "admitted")
    BY Zenon DEF MessagesMatchThreads
  <2>1. CASE t = s
    <3>1. unsent'[s] = {<<u, "pause">> : u \in to_pause(s) \cap attached}
      BY Zenon DEF TypeOK
    <3>2. PICK u \in to_pause(s) \cap attached : m = <<u, "pause">>
      BY <2>1, <3>1, Zenon
    <3>3. s \in Interactive
      BY <3>2, Zenon DEF to_pause
    <3>4. pc'[s] = "admitted"
      BY Zenon DEF TypeOK
    <3>. QED  BY <2>1, <3>2, <3>3, <3>4, <1>2, Zenon
  <2>2. CASE t # s
    BY <2>2, Zenon DEF MessagesMatchThreads, TypeOK
  <2>. QED  BY <2>1, <2>2, Zenon
<1>6. SlotCaps'
  <2>1. CASE s \in Interactive
    <3>1. Cardinality(running \cap Interactive) < MaxInteractive
      BY <1>0, <2>1, Zenon DEF is_turn, ClassOf, Cap
    <3>2. running' \cap Interactive = (running \cap Interactive) \cup {s}
      BY <2>1, Zenon
    <3>3. running' \cap Background = running \cap Background
      BY <2>1, ClassesAssumption, Zenon
    <3>4. Cardinality(running' \cap Interactive)
            = Cardinality(running \cap Interactive) + 1
      BY <3>2, <1>1, SlotsFinite, FS_AddElement, Zenon
    <3>5. Cardinality(running \cap Interactive) \in Nat
      BY SlotsFinite, Zenon
    <3>6. Cardinality(running' \cap Interactive) <= MaxInteractive
      BY <3>1, <3>4, <3>5, CapsAssumption
    <3>7. Cardinality(running' \cap Background) <= MaxBackground
      BY <3>3, Zenon DEF SlotCaps
    <3>. QED  BY <3>6, <3>7, Zenon DEF SlotCaps
  <2>2. CASE s \in Background
    <3>1. Cardinality(running \cap Background) < MaxBackground
      BY <1>0, <2>2, ClassesAssumption, Zenon DEF is_turn, ClassOf, Cap
    <3>2. running' \cap Background = (running \cap Background) \cup {s}
      BY <2>2, Zenon
    <3>3. running' \cap Interactive = running \cap Interactive
      BY <2>2, ClassesAssumption, Zenon
    <3>4. Cardinality(running' \cap Background)
            = Cardinality(running \cap Background) + 1
      BY <3>2, <1>1, SlotsFinite, FS_AddElement, Zenon
    <3>5. Cardinality(running \cap Background) \in Nat
      BY SlotsFinite, Zenon
    <3>6. Cardinality(running' \cap Background) <= MaxBackground
      BY <3>1, <3>4, <3>5, CapsAssumption
    <3>7. Cardinality(running' \cap Interactive) <= MaxInteractive
      BY <3>3, Zenon DEF SlotCaps
    <3>. QED  BY <3>6, <3>7, Zenon DEF SlotCaps
  <2>. QED  BY <2>1, <2>2, Zenon DEF Sessions
<1>7. PreemptionExact'
  <2>1. CASE s \in Interactive
    BY <2>1, Zenon DEF PreemptionExact, TypeOK, to_pause
  <2>2. CASE s \in Background
    BY <2>2, ClassesAssumption, Zenon DEF PreemptionExact, TypeOK, to_pause
  <2>. QED  BY <2>1, <2>2, Zenon DEF Sessions
<1>. QED  BY <1>3, <1>4, <1>5, <1>6, <1>7, Zenon

\* The backend taking a request on changes no slot and no message (begin).
LEMMA BeginInv ==
  ASSUME NEW s \in Sessions, SchedulerInv, Begin(s)
  PROVE  SchedulerInv'
<1>. USE DEF SchedulerInv, Begin, At, Goto
<1>1. TypeOK'
  BY Zenon DEF TypeOK, PCs
<1>2. BooksMatchThreads'
  BY Zenon DEF BooksMatchThreads, TypeOK
<1>3. MessagesMatchThreads'
  BY Zenon DEF MessagesMatchThreads, TypeOK
<1>4. SlotCaps' /\ PreemptionExact'
  BY Zenon DEF SlotCaps, PreemptionExact
<1>. QED  BY <1>1, <1>2, <1>3, <1>4, Zenon

\* A request that attaches is flagged, and sends itself a pause, exactly when
\* it is background work and an interactive slot is out (Slot::attach).
LEMMA AttachInv ==
  ASSUME NEW s \in Sessions, SchedulerInv, Attach(s)
  PROVE  SchedulerInv'
<1>. USE DEF SchedulerInv, Attach, At, Goto
<1>1. s \in running
  BY Zenon DEF BooksMatchThreads
<1>2. TypeOK'
  <2>1. unsent' \in [Sessions -> SUBSET Messages]
    BY DEF TypeOK, Messages
  <2>. QED  BY <2>1, <1>1, Zenon DEF TypeOK, PCs, pause_now
<1>3. BooksMatchThreads'
  BY DEF BooksMatchThreads, TypeOK
<1>4. MessagesMatchThreads'
  <2>. SUFFICES ASSUME NEW t \in Sessions, NEW m \in unsent'[t]
                PROVE  /\ m[1] \in attached' \cap Background
                       /\ m[2] = "pause" =>
                            m[1] = t \/ (t \in Interactive /\ pc'[t] = "admitted")
    BY Zenon DEF MessagesMatchThreads
  <2>1. CASE t = s
    <3>1. pause_now(s) /\ m = <<s, "pause">>
      BY <2>1, Zenon DEF TypeOK
    <3>. QED  BY <2>1, <3>1, Zenon DEF pause_now
  <2>2. CASE t # s
    BY <2>2, Zenon DEF MessagesMatchThreads, TypeOK
  <2>. QED  BY <2>1, <2>2, Zenon
<1>5. SlotCaps'
  BY Zenon DEF SlotCaps
<1>6. PreemptionExact'
  <2>1. pause_now(s) => running \cap Interactive # {}
    BY Zenon DEF pause_now
  <2>2. s \in Background /\ running \cap Interactive # {} => pause_now(s)
    BY ClassesAssumption, Zenon DEF pause_now
  <2>. QED  BY <2>1, <2>2, Zenon DEF PreemptionExact
<1>. QED  BY <1>2, <1>3, <1>4, <1>5, <1>6, Zenon

\* A charge changes served alone (Slot::charge).
LEMMA ChargeInv ==
  ASSUME NEW s \in Sessions, SchedulerInv, Charge(s)
  PROVE  SchedulerInv'
<1>. USE DEF SchedulerInv, Charge, At
<1>1. TypeOK'
  BY ServedAssumption DEF TypeOK
<1>2. BooksMatchThreads' /\ MessagesMatchThreads' /\ SlotCaps' /\ PreemptionExact'
  BY DEF BooksMatchThreads, MessagesMatchThreads, SlotCaps, PreemptionExact
<1>. QED  BY <1>1, <1>2, Zenon

\* A release gives the slot back and, when no other interactive slot is out,
\* clears every flag (release).
LEMMA ReleaseInv ==
  ASSUME NEW s \in Sessions, SchedulerInv, unsent[s] = {}, Release(s)
  PROVE  SchedulerInv'
<1>. USE DEF SchedulerInv, Release, Goto
<1>1. to_resume(s) \subseteq paused \ {s}
  BY Zenon DEF to_resume
<1>2. TypeOK'
  <2>1. {<<r, "resume">> : r \in to_resume(s) \cap attached} \subseteq Messages
    BY <1>1 DEF TypeOK, Messages, Sessions
  <2>2. \A t \in Sessions : {m \in unsent[t] : m[1] # s} \subseteq Messages
    BY Zenon DEF TypeOK
  <2>3. unsent' \in [Sessions -> SUBSET Messages]
    BY <2>1, <2>2, Zenon
  <2>. QED  BY <2>3, Zenon DEF TypeOK, PCs
<1>3. BooksMatchThreads'
  BY Zenon DEF BooksMatchThreads, TypeOK
<1>4. MessagesMatchThreads'
  <2>. SUFFICES ASSUME NEW t \in Sessions, NEW m \in unsent'[t]
                PROVE  /\ m[1] \in attached' \cap Background
                       /\ m[2] = "pause" =>
                            m[1] = t \/ (t \in Interactive /\ pc'[t] = "admitted")
    BY Zenon DEF MessagesMatchThreads
  <2>1. CASE t = s
    <3>1. unsent'[s] = {<<r, "resume">> : r \in to_resume(s) \cap attached}
      BY Zenon
    <3>2. PICK r \in to_resume(s) \cap attached : m = <<r, "resume">>
      BY <2>1, <3>1, Zenon
    <3>. QED  BY <3>2, <1>1, Zenon DEF TypeOK
  <2>2. CASE t # s
    <3>1. m \in unsent[t] /\ m[1] # s
      BY <2>2, Zenon
    <3>2. pc'[t] = pc[t]
      BY <2>2, Zenon DEF TypeOK
    <3>. QED  BY <3>1, <3>2, Zenon DEF MessagesMatchThreads
  <2>. QED  BY <2>1, <2>2, Zenon
<1>5. SlotCaps'
  <2>1. /\ running' \cap Interactive \in SUBSET (running \cap Interactive)
        /\ running' \cap Background \in SUBSET (running \cap Background)
    BY Zenon
  <2>2. /\ Cardinality(running' \cap Interactive) <= Cardinality(running \cap Interactive)
        /\ Cardinality(running' \cap Background) <= Cardinality(running \cap Background)
    BY <2>1, SlotsFinite, FS_Subset, Zenon
  <2>3. /\ Cardinality(running' \cap Interactive) \in Nat
        /\ Cardinality(running' \cap Background) \in Nat
        /\ Cardinality(running \cap Interactive) \in Nat
        /\ Cardinality(running \cap Background) \in Nat
    BY SlotsFinite, Zenon
  <2>4. /\ Cardinality(running \cap Interactive) <= MaxInteractive
        /\ Cardinality(running \cap Background) <= MaxBackground
    BY Zenon DEF SlotCaps
  <2>5. /\ Cardinality(running' \cap Interactive) <= MaxInteractive
        /\ Cardinality(running' \cap Background) <= MaxBackground
    BY <2>2, <2>3, <2>4, CapsAssumption
  <2>. QED  BY <2>5, Zenon DEF SlotCaps
<1>6. PreemptionExact'
  <2>1. CASE (running \ {s}) \cap Interactive # {}
    BY <2>1, Zenon DEF PreemptionExact, to_resume
  <2>2. CASE (running \ {s}) \cap Interactive = {}
    <3>1. paused' = {}
      BY <2>2, Zenon DEF to_resume
    <3>. QED  BY <2>2, <3>1, Zenon DEF PreemptionExact
  <2>. QED  BY <2>1, <2>2, Zenon
<1>. QED  BY <1>2, <1>3, <1>4, <1>5, <1>6, Zenon

\* A message sent reaches an attached background request (set_paused).
LEMMA SendInv ==
  ASSUME NEW s \in Sessions, SchedulerInv, Send(s)
  PROVE  SchedulerInv'
<1>. USE DEF SchedulerInv, Send
<1>0. PICK m \in unsent[s] :
        /\ held' = IF m[2] = "pause" THEN held \cup {m[1]} ELSE held \ {m[1]}
        /\ unsent' = [unsent EXCEPT ![s] = @ \ {m}]
  BY Zenon
<1>1. m[1] \in attached \cap Background
  BY Zenon DEF MessagesMatchThreads
<1>2. held' \subseteq attached \cap Background
  BY <1>0, <1>1, Zenon DEF BooksMatchThreads
<1>3. attached \subseteq live
  BY Zenon DEF BooksMatchThreads
<1>4. TypeOK'
  BY <1>0, <1>2, <1>3, Zenon DEF TypeOK
<1>5. BooksMatchThreads'
  BY <1>2, Zenon DEF BooksMatchThreads
<1>6. MessagesMatchThreads'
  BY <1>0, Zenon DEF MessagesMatchThreads, TypeOK
<1>7. SlotCaps' /\ PreemptionExact'
  BY Zenon DEF SlotCaps, PreemptionExact
<1>. QED  BY <1>4, <1>5, <1>6, <1>7, Zenon

\* Every step of every thread preserves the invariant.
LEMMA NextInv == SchedulerInv /\ [Next]_vars => SchedulerInv'
<1>. SUFFICES ASSUME SchedulerInv, [Next]_vars
              PROVE  SchedulerInv'
  BY Zenon
<1>1. ASSUME NEW s \in Sessions, Step(s)
      PROVE  SchedulerInv'
  <2>1. CASE Enqueue(s)
    BY <2>1, EnqueueInv, Zenon
  <2>2. CASE Admit(s)
    BY <2>2, AdmitInv, Zenon
  <2>3. CASE Begin(s)
    BY <2>3, BeginInv, Zenon
  <2>4. CASE Attach(s)
    BY <2>4, AttachInv, Zenon
  <2>5. CASE Charge(s)
    BY <2>5, ChargeInv, Zenon
  <2>6. CASE BeginFails(s) \/ Finish(s) \/ GiveUp(s) \/ Cancel(s)
    BY <2>6, ReleaseInv, Zenon DEF BeginFails, Finish, GiveUp, Cancel, At
  <2>7. CASE Send(s)
    BY <2>7, SendInv, Zenon
  <2>. QED  BY <1>1, <2>1, <2>2, <2>3, <2>4, <2>5, <2>6, <2>7, Zenon DEF Step
<1>2. CASE UNCHANGED vars
  BY <1>2 DEF vars, SchedulerInv, TypeOK, BooksMatchThreads,
              MessagesMatchThreads, SlotCaps, PreemptionExact
<1>. QED  BY <1>1, <1>2, Zenon DEF Next

\* The inductive invariant holds throughout.
THEOREM SchedulerInvariant == Spec => []SchedulerInv
  BY InitInv, NextInv, PTL DEF Spec

\* The scheduler's state keeps its type.
THEOREM TypeCorrect == Spec => []TypeOK
<1>. SchedulerInv => TypeOK
  BY Zenon DEF SchedulerInv
<1>. QED  BY SchedulerInvariant, PTL

\* No class ever has more slots out than its cap, for any number of sessions
\* and any caps (is_turn).
THEOREM SlotCapsHold == Spec => []SlotCaps
<1>. SchedulerInv => SlotCaps
  BY Zenon DEF SchedulerInv
<1>. QED  BY SchedulerInvariant, PTL

\* admit, attach and release agree about who is preempted.
THEOREM PreemptionIsExact == Spec => []PreemptionExact
<1>. SchedulerInv => PreemptionExact
  BY Zenon DEF SchedulerInv
<1>. QED  BY SchedulerInvariant, PTL

\* A pause that an admission has yet to send is never out of date: the
\* admission's own slot keeps its target flagged.
THEOREM AdmitPauseStaysCurrent == Spec => []AdmitPauseIsCurrent
<1>1. SchedulerInv => AdmitPauseIsCurrent
  <2>. SUFFICES ASSUME SchedulerInv, NEW s \in Sessions, NEW t \in Sessions,
                       s # t, <<t, "pause">> \in unsent[s]
                PROVE  t \in paused
    BY Zenon DEF AdmitPauseIsCurrent
  <2>1. t \in attached \cap Background /\ s \in Interactive /\ pc[s] = "admitted"
    BY Zenon DEF SchedulerInv, MessagesMatchThreads
  <2>2. running \cap Interactive # {}
    BY <2>1, Zenon DEF SchedulerInv, BooksMatchThreads
  <2>. QED  BY <2>1, <2>2, Zenon DEF SchedulerInv, PreemptionExact
<1>. QED  BY <1>1, SchedulerInvariant, PTL

\* No interactive request is ever held still by the backend.
THEOREM InteractiveIsNeverHeld == Spec => []InteractiveNeverHeld
<1>1. SchedulerInv => InteractiveNeverHeld
  BY ClassesAssumption, Zenon DEF SchedulerInv, BooksMatchThreads, InteractiveNeverHeld
<1>. QED  BY <1>1, SchedulerInvariant, PTL

-----------------------------------------------------------------------------
(* The contract.  Its askers are the set of the queue, so an admission     *)
(* that takes one entry out of the queue must take its session out of that *)
(* set: nobody is queued twice, because a thread in admit does nothing     *)
(* else.  QueueMatchesThreads says so, and is inductive beside SchedulerInv.*)

\* Who is queued is waiting in admit, and once.
QueueMatchesThreads ==
  /\ \A i \in DOMAIN waiting : pc[waiting[i]] = "waiting"
  /\ \A i, j \in DOMAIN waiting : waiting[i] = waiting[j] => i = j

\* What is left after one element is removed (admit's retain).
LEMMA RemoveAtElements ==
  ASSUME NEW S, NEW q \in Seq(S), NEW i \in DOMAIN q
  PROVE  /\ DOMAIN RemoveAt(q, i) = 1..(Len(q) - 1)
         /\ \A k \in 1..(Len(q) - 1) :
              RemoveAt(q, i)[k] = IF k < i THEN q[k] ELSE q[k + 1]
<1>. DEFINE a == SubSeq(q, 1, i - 1)
            b == SubSeq(q, i + 1, Len(q))
<1>1. DOMAIN q = 1..Len(q) /\ Len(q) \in Nat /\ i \in 1..Len(q)
  BY SeqLen, Zenon
<1>2. a \in Seq(S) /\ Len(a) = i - 1 /\ \A k \in 1..(i - 1) : a[k] = q[k]
  BY <1>1, SeqSub
<1>3. b \in Seq(S) /\ Len(b) = Len(q) - i /\ \A k \in 1..(Len(q) - i) : b[k] = q[k + i]
  <2>1. i + 1 \in 1..(Len(q) + 1) /\ Len(q) \in 0..Len(q) /\ i \in Nat
    BY <1>1
  <2>2. /\ b \in Seq(S)
        /\ Len(b) = IF i + 1 <= Len(q) THEN Len(q) - (i + 1) + 1 ELSE 0
        /\ \A k \in 1..(Len(q) - (i + 1) + 1) : b[k] = q[i + 1 + k - 1]
    BY <1>1, <2>1, SeqSub, Zenon
  <2>3. Len(q) - (i + 1) + 1 = Len(q) - i /\ \A k \in Nat : i + 1 + k - 1 = k + i
    BY <1>1, <2>1
  <2>. HIDE DEF a, b
  <2>4. Len(b) = Len(q) - i
    BY <1>1, <2>1, <2>2
  <2>5. ASSUME NEW k \in 1..(Len(q) - i)  PROVE b[k] = q[k + i]
    <3>1. k \in 1..(Len(q) - (i + 1) + 1) /\ i + 1 + k - 1 = k + i
      BY <1>1, <2>1
    <3>2. b[k] = q[i + 1 + k - 1]
      BY <2>2, <3>1, Zenon
    <3>. QED  BY <3>1, <3>2, Zenon
  <2>. QED  BY <2>2, <2>4, <2>5, Zenon
<1>4. RemoveAt(q, i) = a \o b
  BY Zenon DEF RemoveAt
<1>. HIDE DEF a, b
<1>5. /\ a \o b \in Seq(S)
      /\ Len(a \o b) = Len(q) - 1
      /\ \A k \in 1..(Len(q) - 1) : (a \o b)[k] = IF k <= i - 1 THEN a[k] ELSE b[k - (i - 1)]
  <2>1. /\ a \o b \in Seq(S)
        /\ Len(a \o b) = Len(a) + Len(b)
        /\ \A k \in 1..(Len(a) + Len(b)) :
             (a \o b)[k] = IF k <= Len(a) THEN a[k] ELSE b[k - Len(a)]
    BY <1>2, <1>3, SeqConcat, Zenon
  <2>2. Len(a) + Len(b) = Len(q) - 1
    BY <1>1, <1>2, <1>3
  <2>3. Len(a) = i - 1
    BY <1>2, Zenon
  <2>. QED  BY <2>1, <2>2, <2>3, Zenon
<1>6. ASSUME NEW k \in 1..(Len(q) - 1)
      PROVE  (a \o b)[k] = IF k < i THEN q[k] ELSE q[k + 1]
  <2>1. CASE k < i
    <3>1. k <= i - 1 /\ k \in 1..(i - 1)
      BY <1>1, <2>1
    <3>2. (a \o b)[k] = a[k]
      BY <1>5, <3>1, Zenon
    <3>. QED  BY <1>2, <2>1, <3>1, <3>2, Zenon
  <2>2. CASE ~ (k < i)
    <3>1. k - (i - 1) \in 1..(Len(q) - i) /\ (k - (i - 1)) + i = k + 1
      BY <1>1, <2>2
    <3>2. ~ (k <= i - 1)
      BY <1>1, <2>2
    <3>3. (a \o b)[k] = b[k - (i - 1)]
      BY <1>5, <3>2, Zenon
    <3>. QED  BY <1>3, <2>2, <3>1, <3>3, Zenon
  <2>. QED  BY <2>1, <2>2, Zenon
<1>. QED  BY <1>4, <1>5, <1>6, SeqLen, Zenon

\* Taking an entry out of a queue without duplicates takes its session out of
\* the set of askers, and leaves no duplicate.
LEMMA RemoveAtSet ==
  ASSUME NEW S, NEW q \in Seq(S), NEW i \in DOMAIN q,
         \A j, k \in DOMAIN q : q[j] = q[k] => j = k
  PROVE  /\ Range(RemoveAt(q, i)) = Range(q) \ {q[i]}
         /\ \A j, k \in DOMAIN RemoveAt(q, i) :
              RemoveAt(q, i)[j] = RemoveAt(q, i)[k] => j = k
<1>. DEFINE r == RemoveAt(q, i)
<1>0. DOMAIN q = 1..Len(q) /\ Len(q) \in Nat /\ i \in 1..Len(q)
  BY SeqLen, Zenon
<1>1. /\ DOMAIN r = 1..(Len(q) - 1)
      /\ \A k \in 1..(Len(q) - 1) : r[k] = IF k < i THEN q[k] ELSE q[k + 1]
  BY RemoveAtElements, Zenon
<1>. HIDE DEF r
<1>2. ASSUME NEW k \in DOMAIN r
      PROVE  \E j \in DOMAIN q \ {i} : r[k] = q[j]
  <2>1. CASE k < i
    BY <1>0, <1>1, <2>1
  <2>2. CASE ~ (k < i)
    <3>1. k + 1 \in DOMAIN q \ {i} /\ r[k] = q[k + 1]
      BY <1>0, <1>1, <2>2
    <3>. QED  BY <3>1, Zenon
  <2>. QED  BY <2>1, <2>2, Zenon
<1>3. ASSUME NEW j \in DOMAIN q \ {i}
      PROVE  \E k \in DOMAIN r : r[k] = q[j]
  <2>1. CASE j < i
    <3>1. j \in DOMAIN r /\ r[j] = q[j]
      BY <1>0, <1>1, <2>1
    <3>. QED  BY <3>1, Zenon
  <2>2. CASE ~ (j < i)
    <3>1. j - 1 \in DOMAIN r /\ ~ (j - 1 < i) /\ (j - 1) + 1 = j
      BY <1>0, <1>1, <2>2
    <3>2. r[j - 1] = q[j]
      BY <1>1, <3>1, Zenon
    <3>. QED  BY <3>1, <3>2, Zenon
  <2>. QED  BY <2>1, <2>2, Zenon
<1>4. Range(r) = Range(q) \ {q[i]}
  BY <1>2, <1>3 DEF Range
<1>5. ASSUME NEW j \in DOMAIN r, NEW k \in DOMAIN r, r[j] = r[k]
      PROVE  j = k
  <2>1. /\ r[j] = IF j < i THEN q[j] ELSE q[j + 1]
        /\ r[k] = IF k < i THEN q[k] ELSE q[k + 1]
        /\ j \in DOMAIN q /\ j + 1 \in DOMAIN q /\ k \in DOMAIN q /\ k + 1 \in DOMAIN q
    BY <1>0, <1>1
  <2>2. CASE j < i /\ k < i
    BY <1>5, <2>1, <2>2, Zenon
  <2>3. CASE j < i /\ ~ (k < i)
    <3>1. j = k + 1
      BY <1>5, <2>1, <2>3, Zenon
    <3>. QED  BY <1>0, <1>1, <2>3, <3>1
  <2>4. CASE ~ (j < i) /\ k < i
    <3>1. j + 1 = k
      BY <1>5, <2>1, <2>4, Zenon
    <3>. QED  BY <1>0, <1>1, <2>4, <3>1
  <2>5. CASE ~ (j < i) /\ ~ (k < i)
    <3>1. j + 1 = k + 1
      BY <1>5, <2>1, <2>5, Zenon
    <3>. QED  BY <1>0, <1>1, <3>1
  <2>. QED  BY <2>2, <2>3, <2>4, <2>5, Zenon
<1>. QED  BY <1>4, <1>5, Zenon DEF r

\* Queueing adds the session to the askers (admit, up to its loop).
LEMMA AppendSet ==
  ASSUME NEW S, NEW q \in Seq(S), NEW e \in S
  PROVE  /\ Range(Append(q, e)) = Range(q) \cup {e}
         /\ DOMAIN Append(q, e) = 1..(Len(q) + 1)
         /\ Append(q, e)[Len(q) + 1] = e
         /\ \A k \in DOMAIN q : Append(q, e)[k] = q[k]
<1>1. DOMAIN q = 1..Len(q) /\ Len(q) \in Nat
  BY SeqLen, Zenon
<1>2. /\ Append(q, e) \in Seq(S) /\ Len(Append(q, e)) = Len(q) + 1
      /\ \A k \in 1..Len(q) : Append(q, e)[k] = q[k]
      /\ Append(q, e)[Len(q) + 1] = e
  BY SeqAppend
<1>3. DOMAIN Append(q, e) = 1..(Len(q) + 1)
  BY <1>2, SeqLen, Zenon
<1>4. \A k \in 1..(Len(q) + 1) : k \in 1..Len(q) \/ k = Len(q) + 1
  BY <1>1
<1>. QED  BY <1>1, <1>2, <1>3, <1>4 DEF Range

-----------------------------------------------------------------------------
(* The queue and the threads.                                              *)

\* Initially the queue is empty.
LEMMA InitQueue == Init => QueueMatchesThreads
  BY DEF Init, QueueMatchesThreads

\* No step queues a session twice or leaves one queued whose thread has gone
\* on: admit alone touches the queue.
LEMMA NextQueue ==
  SchedulerInv /\ QueueMatchesThreads /\ [Next]_vars => QueueMatchesThreads'
<1>. SUFFICES ASSUME SchedulerInv, QueueMatchesThreads, [Next]_vars
              PROVE  QueueMatchesThreads'
  BY Zenon
<1>0. waiting \in Seq(Sessions) /\ pc \in [Sessions -> PCs]
  BY Zenon DEF SchedulerInv, TypeOK
<1>1. ASSUME NEW s \in Sessions, Enqueue(s)
      PROVE  QueueMatchesThreads'
  <2>1. /\ waiting' = Append(waiting, s) /\ pc[s] = "idle"
        /\ pc' = [pc EXCEPT ![s] = "waiting"]
    BY <1>1, Zenon DEF Enqueue, At, Goto
  <2>2. DOMAIN waiting = 1..Len(waiting) /\ Len(waiting) \in Nat
    BY <1>0, SeqLen, Zenon
  <2>3. \A i \in DOMAIN waiting : waiting[i] # s /\ waiting[i] \in Sessions
    BY <1>0, <2>1, <2>2, SeqElement, Zenon DEF QueueMatchesThreads
  <2>4. /\ DOMAIN waiting' = 1..(Len(waiting) + 1)
        /\ waiting'[Len(waiting) + 1] = s
        /\ \A k \in DOMAIN waiting : waiting'[k] = waiting[k]
    BY <1>0, <2>1, AppendSet
  <2>5. \A k \in DOMAIN waiting' : k \in DOMAIN waiting \/ k = Len(waiting) + 1
    BY <2>2, <2>4
  <2>6. \A k \in DOMAIN waiting : pc'[waiting[k]] = "waiting"
    BY <1>0, <2>1, <2>3, Zenon DEF QueueMatchesThreads
  <2>7. pc'[s] = "waiting"
    BY <1>0, <2>1, Zenon
  <2>. QED  BY <2>3, <2>4, <2>5, <2>6, <2>7, Zenon DEF QueueMatchesThreads
<1>2. ASSUME NEW s \in Sessions, Admit(s)
      PROVE  QueueMatchesThreads'
  <2>1. PICK i \in DOMAIN waiting : waiting[i] = s /\ waiting' = RemoveAt(waiting, i)
    BY <1>2, Zenon DEF Admit
  <2>2. /\ Range(waiting') = Range(waiting) \ {s}
        /\ \A j, k \in DOMAIN waiting' : waiting'[j] = waiting'[k] => j = k
    BY <1>0, <2>1, RemoveAtSet DEF QueueMatchesThreads
  <2>3. \A k \in DOMAIN waiting' :
          \E j \in DOMAIN waiting : waiting'[k] = waiting[j] /\ waiting[j] # s
    BY <2>2 DEF Range
  <2>4. \A j \in DOMAIN waiting : waiting[j] # s => pc'[waiting[j]] = "waiting"
    <3>1. \A j \in DOMAIN waiting : waiting[j] \in Sessions
      BY <1>0, SeqElement, SeqLen, Zenon
    <3>2. pc' = [pc EXCEPT ![s] = "admitted"]
      BY <1>2, Zenon DEF Admit, Goto
    <3>. QED  BY <1>0, <3>1, <3>2, Zenon DEF QueueMatchesThreads
  <2>. QED  BY <2>2, <2>3, <2>4 DEF QueueMatchesThreads
<1>3. ASSUME NEW s \in Sessions, NEW l \in PCs, pc[s] # "waiting",
             pc' = [pc EXCEPT ![s] = l], waiting' = waiting
      PROVE  QueueMatchesThreads'
  <2>1. \A j \in DOMAIN waiting : waiting[j] \in Sessions /\ waiting[j] # s
    BY <1>0, <1>3, SeqElement, SeqLen DEF QueueMatchesThreads
  <2>. QED  BY <1>0, <1>3, <2>1, Zenon DEF QueueMatchesThreads
<1>4. CASE pc' = pc /\ waiting' = waiting
  BY <1>4, Zenon DEF QueueMatchesThreads
<1>5. ASSUME NEW s \in Sessions, Step(s)
      PROVE  QueueMatchesThreads'
  <2>1. CASE Begin(s) \/ Attach(s)
    BY <1>3, <2>1, Zenon DEF Begin, Attach, At, Goto, PCs
  <2>2. CASE BeginFails(s) \/ Finish(s) \/ GiveUp(s) \/ Cancel(s)
    BY <1>3, <2>2, Zenon DEF BeginFails, Finish, GiveUp, Cancel, Release, At, Goto, PCs
  <2>3. CASE Charge(s) \/ Send(s)
    BY <1>4, <2>3, Zenon DEF Charge, Send
  <2>. QED  BY <1>1, <1>2, <1>5, <2>1, <2>2, <2>3, Zenon DEF Step
<1>6. CASE UNCHANGED vars
  BY <1>4, <1>6, Zenon DEF vars
<1>. QED  BY <1>5, <1>6, Zenon DEF Next

-----------------------------------------------------------------------------
(* Each step is one of the contract's, or none.                            *)

\* Initially nobody asks, holds or works.
LEMMA InitContract == Init => Contract!ContractInit
  BY DEF Init, Contract!ContractInit, Contract!Clients, Sessions, Range

\* Who is told to stand still follows from who holds and who works, after
\* every step.
LEMMA FrozenExact ==
  ASSUME SchedulerInv'
  PROVE  Contract!Freeze
<1>1. /\ attached' \subseteq running' /\ paused' \subseteq running' \cap Background
      /\ \A s \in attached' \cap Background : s \in paused' <=> running' \cap Interactive # {}
      /\ paused' # {} => running' \cap Interactive # {}
  BY Zenon DEF SchedulerInv, TypeOK, PreemptionExact
<1>. QED  BY <1>1, Zenon DEF Contract!Freeze

\* admit, up to its loop, asks.
LEMMA EnqueueAsks ==
  ASSUME SchedulerInv, QueueMatchesThreads, NEW s \in Sessions, Enqueue(s)
  PROVE  Contract!Ask(s)
<1>1. waiting \in Seq(Sessions) /\ waiting' = Append(waiting, s) /\ pc[s] = "idle"
  BY Zenon DEF SchedulerInv, TypeOK, Enqueue, At
<1>2. Range(waiting') = Range(waiting) \cup {s}
  BY <1>1, AppendSet
<1>3. s \notin Range(waiting) /\ s \notin running
  BY <1>1, Zenon DEF QueueMatchesThreads, Range, SchedulerInv, BooksMatchThreads
<1>4. UNCHANGED <<running, attached, paused, served>>
  BY Zenon DEF Enqueue
<1>. QED  BY <1>2, <1>3, <1>4, Zenon DEF Contract!Ask

\* admit, its turn come, grants a slot in the order promised (is_turn).
LEMMA AdmitGrants ==
  ASSUME SchedulerInv, SchedulerInv', QueueMatchesThreads, NEW s \in Sessions, Admit(s)
  PROVE  Contract!Grant(s)
<1>1. PICK i \in DOMAIN waiting : /\ waiting[i] = s
                                  /\ is_turn(i)
                                  /\ waiting' = RemoveAt(waiting, i)
  BY Zenon DEF Admit
<1>2. waiting \in Seq(Sessions)
  BY Zenon DEF SchedulerInv, TypeOK
<1>3. Range(waiting') = Range(waiting) \ {s}
  BY <1>1, <1>2, RemoveAtSet, Zenon DEF QueueMatchesThreads
<1>4. s \in Range(waiting)
  BY <1>1, Zenon DEF Range
<1>5. Contract!Cardinality(running \cap Contract!Class(s)) < Contract!Slots(s)
  <2>1. Cardinality(running \cap Contract!Class(s)) < Contract!Slots(s)
    BY <1>1, Zenon DEF is_turn, ClassOf, Cap, Contract!Class, Contract!Slots
  <2>2. Contract!Cardinality(running \cap Contract!Class(s))
          = Cardinality(running \cap Contract!Class(s))
    BY Zenon DEF Cardinality, Contract!Cardinality
  <2>. QED  BY <2>1, <2>2, Zenon
<1>6. ASSUME s \in Background, NEW t \in Range(waiting), t \in Interactive
      PROVE  FALSE
  <2>1. PICK j \in DOMAIN waiting : waiting[j] = t
    BY Zenon DEF Range
  <2>2. KeyLE(i, j)
    BY <1>1, <2>1, Zenon DEF is_turn
  <2>3. ClassOf(s) = Background /\ ClassOf(t) = Interactive /\ t \notin Background
    BY <1>6, ClassesAssumption, Zenon DEF ClassOf
  <2>. QED  BY <1>1, <1>6, <2>1, <2>2, <2>3, ClassesAssumption, Zenon DEF KeyLE
<1>7. ASSUME NEW t \in Range(waiting), t \in Contract!Class(s)
      PROVE  served[s] <= served[t]
  <2>1. PICK j \in DOMAIN waiting : waiting[j] = t
    BY Zenon DEF Range
  <2>2. KeyLE(i, j)
    BY <1>1, <2>1, Zenon DEF is_turn
  <2>3. ~ (s \in Interactive /\ t \in Background)
    BY <1>7, ClassesAssumption, Zenon DEF Contract!Class
  <2>4. served[s] < served[t] \/ served[s] = served[t]
    BY <1>1, <2>1, <2>2, <2>3, Zenon DEF KeyLE
  <2>5. t \in Sessions
    BY <1>2, <2>1, SeqElement, SeqLen, Zenon
  <2>6. served[s] \in Nat /\ served[t] \in Nat
    BY <2>5, ServedAssumption DEF SchedulerInv, TypeOK
  <2>. QED  BY <2>4, <2>6
<1>8. running' = running \cup {s} /\ UNCHANGED <<attached, served>>
  BY Zenon DEF Admit
<1>9. Contract!Freeze
  BY FrozenExact, Zenon
<1>10. s \in Background => Range(waiting) \cap Interactive = {}
  BY <1>6, Zenon
<1>11. \A t \in Range(waiting) \cap Contract!Class(s) : served[s] <= served[t]
  BY <1>7, Zenon
<1>. QED  BY <1>3, <1>4, <1>5, <1>8, <1>9, <1>10, <1>11, Zenon DEF Contract!Grant

\* attach puts the holder to work, frozen or not (Slot::attach).
LEMMA AttachWorks ==
  ASSUME SchedulerInv, SchedulerInv', NEW s \in Sessions, Attach(s)
  PROVE  Contract!Work(s)
<1>1. s \in running \ attached
  BY Zenon DEF Attach, At, SchedulerInv, BooksMatchThreads
<1>2. attached' = attached \cup {s} /\ UNCHANGED <<waiting, running, served>>
  BY Zenon DEF Attach
<1>3. Contract!Freeze
  BY FrozenExact, Zenon
<1>. QED  BY <1>1, <1>2, <1>3, Zenon DEF Contract!Work

\* A charge is a token of a working holder (Slot::charge).
LEMMA ChargeProduces ==
  ASSUME SchedulerInv, NEW s \in Sessions, Charge(s)
  PROVE  Contract!Produce(s)
  BY Zenon DEF Charge, At, SchedulerInv, BooksMatchThreads, Contract!Produce

\* However a request ends, its slot is returned and what it froze goes on
\* (release).
LEMMA ReleaseReturns ==
  ASSUME SchedulerInv, SchedulerInv', NEW s \in Sessions,
         pc[s] \in {"admitted", "streaming"}, Release(s)
  PROVE  Contract!Return(s)
<1>1. s \in running
  BY Zenon DEF SchedulerInv, BooksMatchThreads
<1>2. /\ running' = running \ {s} /\ attached' = attached \ {s}
      /\ UNCHANGED <<waiting, served>>
  BY Zenon DEF Release
<1>3. Contract!Freeze
  BY FrozenExact, Zenon
<1>. QED  BY <1>1, <1>2, <1>3, Zenon DEF Contract!Return

\* Every step of the scheduler is a step of the contract, or leaves all of it
\* unchanged.
LEMMA NextContract ==
  SchedulerInv /\ SchedulerInv' /\ QueueMatchesThreads /\ [Next]_vars
    => [Contract!ContractNext]_(Contract!contractVars)
<1>. SUFFICES ASSUME SchedulerInv, SchedulerInv', QueueMatchesThreads, [Next]_vars
              PROVE  Contract!ContractNext \/ UNCHANGED Contract!contractVars
  BY Zenon
<1>1. ASSUME NEW s \in Sessions, Step(s)
      PROVE  Contract!ContractNext \/ UNCHANGED Contract!contractVars
  <2>0. s \in Contract!Clients
    BY Zenon DEF Contract!Clients, Sessions
  <2>1. CASE Enqueue(s)
    BY <2>0, <2>1, EnqueueAsks, Zenon DEF Contract!ContractNext
  <2>2. CASE Admit(s)
    BY <2>0, <2>2, AdmitGrants, Zenon DEF Contract!ContractNext
  <2>3. CASE Attach(s)
    BY <2>0, <2>3, AttachWorks, Zenon DEF Contract!ContractNext
  <2>4. CASE Charge(s)
    BY <2>0, <2>4, ChargeProduces, Zenon DEF Contract!ContractNext
  <2>5. CASE BeginFails(s) \/ Finish(s) \/ GiveUp(s) \/ Cancel(s)
    <3>1. Release(s) /\ pc[s] \in {"admitted", "streaming"}
      BY <2>5, Zenon DEF BeginFails, Finish, GiveUp, Cancel, At
    <3>. QED  BY <2>0, <3>1, ReleaseReturns, Zenon DEF Contract!ContractNext
  <2>6. CASE Begin(s) \/ Send(s)
    BY <2>6, Zenon DEF Begin, Send, Contract!contractVars
  <2>. QED  BY <1>1, <2>1, <2>2, <2>3, <2>4, <2>5, <2>6, Zenon DEF Step
<1>2. CASE UNCHANGED vars
  BY <1>2, Zenon DEF vars, Contract!contractVars
<1>. QED  BY <1>1, <1>2, Zenon DEF Next

\* The scheduler implements its contract for every number of sessions, every
\* pair of caps and every interleaving: slots are granted within the caps,
\* interactive first and the least served first, and exactly the background
\* requests at a backend stand still while an interactive one has a slot.
THEOREM SchedulerImplementsContract == Spec => ImplementsContract
<1>1. Init => QueueMatchesThreads /\ Contract!ContractInit
  BY InitQueue, InitContract, Zenon
<1>. QED  BY <1>1, NextQueue, NextContract, SchedulerInvariant, PTL
          DEF Spec, ImplementsContract, Contract!ContractSpec

-----------------------------------------------------------------------------
(* Cancellation.  NoStrayCancel is not inductive: whoever is between the   *)
(* two steps of cancel_in_flight, and a flag that a turn has not cleared,  *)
(* must belong to the turn at hand (CancelsOverlap).                       *)

\* The requests in the socket, by their places.
Waiting(q) == {i \in DOMAIN q : q[i] # "cancel"}

\* The requests in a socket are finitely many.
LEMMA WaitingFinite ==
  ASSUME NEW q \in Seq(Frames)
  PROVE  IsFiniteSet(Waiting(q)) /\ Cardinality(Waiting(q)) \in Nat
<1>1. DOMAIN q = 1..Len(q) /\ Len(q) \in Nat
  BY SeqLen, Zenon
<1>2. IsFiniteSet(1..Len(q))
  BY <1>1, FS_Interval
<1>3. Waiting(q) \in SUBSET (1..Len(q))
  BY <1>1, Zenon DEF Waiting
<1>4. IsFiniteSet(Waiting(q))
  BY <1>2, <1>3, FS_Subset, Zenon
<1>. QED  BY <1>4, FS_CardinalityType, Zenon

\* Writing a request adds one, and writing a cancel none.
LEMMA WaitingAppend ==
  ASSUME NEW q \in Seq(Frames), NEW f \in Frames
  PROVE  /\ Append(q, f) \in Seq(Frames) /\ Len(Append(q, f)) = Len(q) + 1
         /\ Cardinality(Waiting(Append(q, f)))
              <= Cardinality(Waiting(q)) + (IF f = "cancel" THEN 0 ELSE 1)
<1>1. /\ DOMAIN q = 1..Len(q) /\ Len(q) \in Nat
      /\ Append(q, f) \in Seq(Frames) /\ Len(Append(q, f)) = Len(q) + 1
      /\ \A i \in 1..Len(q) : Append(q, f)[i] = q[i]
      /\ Append(q, f)[Len(q) + 1] = f
      /\ DOMAIN Append(q, f) = 1..(Len(q) + 1)
  BY SeqLen, SeqAppend
<1>2. CASE f = "cancel"
  <2>1. Waiting(Append(q, f)) = Waiting(q)
    BY <1>1, <1>2 DEF Waiting
  <2>. QED  BY <1>1, <1>2, <2>1, WaitingFinite
<1>3. CASE f # "cancel"
  <2>1. Waiting(Append(q, f)) = Waiting(q) \cup {Len(q) + 1}
    BY <1>1, <1>3 DEF Waiting
  <2>2. Len(q) + 1 \notin Waiting(q)
    BY <1>1 DEF Waiting
  <2>3. Cardinality(Waiting(Append(q, f))) = Cardinality(Waiting(q)) + 1
    BY <2>1, <2>2, WaitingFinite, FS_AddElement, Zenon
  <2>. QED  BY <1>1, <1>3, <2>3, WaitingFinite
<1>. QED  BY <1>2, <1>3, Zenon

\* Reading a request takes one away, and reading a cancel none.
LEMMA WaitingTail ==
  ASSUME NEW q \in Seq(Frames), q # << >>
  PROVE  /\ Head(q) \in Frames /\ Tail(q) \in Seq(Frames) /\ Len(Tail(q)) <= Len(q)
         /\ Cardinality(Waiting(Tail(q))) \in Nat
         /\ Cardinality(Waiting(Tail(q)))
              <= Cardinality(Waiting(q)) - (IF Head(q) = "cancel" THEN 0 ELSE 1)
<1>1. /\ DOMAIN q = 1..Len(q) /\ Len(q) \in Nat \ {0}
      /\ Tail(q) \in Seq(Frames) /\ Len(Tail(q)) = Len(q) - 1
      /\ \A i \in 1..Len(Tail(q)) : Tail(q)[i] = q[i + 1]
      /\ DOMAIN Tail(q) = 1..Len(Tail(q)) /\ Head(q) = q[1] /\ Head(q) \in Frames
  BY SeqLen, SeqEmpty, SeqTail
<1>. DEFINE S == Waiting(Tail(q))
            T == Waiting(q) \ {1}
            f == [i \in S |-> i + 1]
<1>2. f \in Injection(S, T)
  BY <1>1 DEF Waiting, Injection, IsInjective
<1>3. IsFiniteSet(T) /\ Cardinality(T) = IF 1 \in Waiting(q) THEN Cardinality(Waiting(q)) - 1
                                                            ELSE Cardinality(Waiting(q))
  BY WaitingFinite, FS_RemoveElement, Zenon
<1>4. Cardinality(S) <= Cardinality(T)
  BY <1>2, <1>3, FS_Injection, Zenon
<1>5. 1 \in Waiting(q) <=> Head(q) # "cancel"
  BY <1>1 DEF Waiting
<1>6. Cardinality(S) \in Nat
  BY <1>1, WaitingFinite, Zenon
<1>. QED  BY <1>1, <1>3, <1>4, <1>5, <1>6, WaitingFinite

\* The requests written: started, being offered, and in the socket.
LEMMA RequestsCount ==
  /\ Requests = turn + (IF reader = "offering" THEN 1 ELSE 0) + Cardinality(Waiting(socket))
  /\ Requests' = turn' + (IF reader' = "offering" THEN 1 ELSE 0)
                 + Cardinality(Waiting(socket'))
BY Zenon DEF Requests, Waiting

\* The invariant holds of a session at its start.
LEMMA CancelStart == CancelInit => CancelInv
<1>. SUFFICES ASSUME CancelInit PROVE CancelInv
  BY Zenon
<1>1. MaxTurns \in Nat /\ MaxQueue \in Nat /\ MaxCalls \in Nat
  BY CancellationBounds, Zenon
<1>2. /\ socket = << >> /\ reader = "reading" /\ offer = "cancel" /\ turn = 0 /\ bus = "idle"
      /\ calls = 0 /\ current_req = 0 /\ hits = {} /\ covered = {} /\ worker = "top"
      /\ cancelled = FALSE
  BY Zenon DEF CancelInit, Unused
<1>3. Cardinality(Waiting(socket)) = 0
  <2>1. Waiting(<< >>) = {}
    BY DEF Waiting
  <2>. QED  BY <1>2, <2>1, FS_EmptySet, Zenon
<1>4. Requests = 0
  BY <1>2, <1>3, RequestsCount
<1>5. {gone, shut, stream, cancel_sent, cancelled, closed} \subseteq BOOLEAN
  BY Zenon DEF CancelInit, Unused
<1>6. socket \in Seq(Frames) /\ Len(socket) = 0
  BY <1>2
<1>7. CancelTypeOK
  BY <1>1, <1>2, <1>5, <1>6 DEF CancelTypeOK, Frames
<1>. QED
  BY <1>1, <1>2, <1>4, <1>7 DEF CancelInv, NoStrayCancel, CancelsOverlap, TurnsAreRequests

\* The writer thread, the deadline, and what a strange helper does besides
\* writing.
LEMMA WriteKeeps ==
  ASSUME CancelInv, NEW f \in Frames, Write(f)
  PROVE  CancelInv'
<1>1. socket \in Seq(Frames) /\ Cardinality(Waiting(socket)) \in Nat /\ turn \in Nat
  BY WaitingFinite, CancellationBounds DEF CancelInv, CancelTypeOK
<1>2. /\ socket' \in Seq(Frames) /\ Len(socket') = Len(socket) + 1
      /\ Cardinality(Waiting(socket')) \in Nat
      /\ Cardinality(Waiting(socket'))
           <= Cardinality(Waiting(socket)) + (IF f = "cancel" THEN 0 ELSE 1)
  BY <1>1, WaitingAppend, WaitingFinite, Zenon DEF Write
<1>3. Requests' <= MaxTurns
  <2>1. turn' = turn /\ reader' = reader /\ MaxTurns \in Nat /\ Requests <= MaxTurns
    BY CancellationBounds, Zenon DEF CancelInv, TurnsAreRequests, Write, readerVars, workerVars
  <2>2. f # "cancel" => Requests < MaxTurns
    BY Zenon DEF Write
  <2>. QED  BY <1>1, <1>2, <2>1, <2>2, RequestsCount
<1>4. Len(socket') <= MaxQueue
  BY <1>1, <1>2, CancellationBounds, SeqLen DEF Write
<1>5. calls' \in 0..MaxCalls
  BY CancellationBounds DEF Write, CancelInv, CancelTypeOK
<1>. QED
  BY <1>2, <1>3, <1>4, <1>5
  DEF Write, CancelInv, CancelTypeOK, NoStrayCancel, CancelsOverlap, TurnsAreRequests,
      readerVars, workerVars

\* The reader takes a frame away, and offers it if it is a request.
LEMMA ReadKeeps ==
  ASSUME CancelInv, ReadCancel \/ ReadFrame
  PROVE  CancelInv'
<1>1. /\ socket \in Seq(Frames) /\ socket # << >> /\ Cardinality(Waiting(socket)) \in Nat
      /\ turn \in Nat /\ Len(socket) \in Nat /\ Len(socket) <= MaxQueue
  BY WaitingFinite, CancellationBounds, SeqLen
  DEF CancelInv, CancelTypeOK, ReadCancel, ReadFrame
<1>2. /\ Head(socket) \in Frames /\ socket' \in Seq(Frames) /\ Len(socket') <= Len(socket)
      /\ Cardinality(Waiting(socket')) \in Nat
      /\ Cardinality(Waiting(socket'))
           <= Cardinality(Waiting(socket)) - (IF Head(socket) = "cancel" THEN 0 ELSE 1)
  BY <1>1, WaitingTail, Zenon DEF ReadCancel, ReadFrame
<1>3. Len(socket') <= MaxQueue
  BY <1>1, <1>2, CancellationBounds, SeqLen
<1>4. Requests' <= MaxTurns
  <2>1. Requests <= MaxTurns /\ MaxTurns \in Nat /\ turn' = turn /\ reader = "reading"
    BY CancellationBounds, Zenon
    DEF CancelInv, TurnsAreRequests, ReadCancel, ReadFrame, workerVars
  <2>2. \/ reader' # "offering"
        \/ reader' = "offering" /\ Head(socket) # "cancel"
    BY Zenon DEF ReadCancel, ReadFrame
  <2>. QED  BY <1>1, <1>2, <2>1, <2>2, RequestsCount
<1>5. covered' \subseteq 0..turn /\ covered \subseteq covered' /\ turn' = turn
  <2>1. covered \subseteq 0..turn /\ turn \in 0..turn
    BY <1>1 DEF CancelInv, CancelTypeOK
  <2>. QED  BY <2>1, Zenon DEF ReadCancel, ReadFrame, SetFlag, workerVars
<1>6. CASE ReadCancel
  <2>1. CancelTypeOK'
    BY <1>2, <1>3, <1>5, <1>6, Zenon
    DEF ReadCancel, SetFlag, CancelInv, CancelTypeOK, workerVars, busVars
  <2>. QED
    BY <2>1, <1>4, <1>5, <1>6, Zenon
    DEF ReadCancel, SetFlag, CancelInv, NoStrayCancel, CancelsOverlap, TurnsAreRequests,
        workerVars, busVars
<1>7. CASE ReadFrame
  BY <1>2, <1>3, <1>4, <1>7, Zenon
  DEF ReadFrame, CancelInv, CancelTypeOK, NoStrayCancel, CancelsOverlap, TurnsAreRequests,
      workerVars, busVars
<1>. QED  BY <1>6, <1>7, Zenon

\* The rendezvous makes the request that was offered the turn at hand.
LEMMA ReceiveKeeps ==
  ASSUME CancelInv, Receive
  PROVE  CancelInv'
<1>1. /\ Cardinality(Waiting(socket)) \in Nat /\ turn \in Nat /\ MaxTurns \in Nat
      /\ turn + 1 + Cardinality(Waiting(socket)) <= MaxTurns
  <2>1. socket \in Seq(Frames) /\ turn \in Nat /\ MaxTurns \in Nat
    BY CancellationBounds DEF CancelInv, CancelTypeOK
  <2>2. Requests <= MaxTurns /\ reader = "offering"
    BY Zenon DEF CancelInv, TurnsAreRequests, Receive
  <2>3. Cardinality(Waiting(socket)) \in Nat
    BY <2>1, WaitingFinite, Zenon
  <2>. QED  BY <2>1, <2>2, <2>3, RequestsCount, Zenon
<1>2. turn' = turn + 1 /\ turn' \in 0..MaxTurns /\ Requests' <= MaxTurns
  <2>1. turn' = turn + 1 /\ reader' = "reading" /\ socket' = socket
    BY Zenon DEF Receive, clientVars
  <2>. QED  BY <1>1, <2>1, RequestsCount
<1>3. hits' \subseteq 1..turn' /\ covered' \subseteq 0..turn' /\ covered \subseteq covered'
  <2>1. hits \subseteq 1..turn /\ covered \subseteq 0..turn
    BY Zenon DEF CancelInv, CancelTypeOK
  <2>2. hits' = hits /\ covered \subseteq covered' /\ covered' \subseteq covered \cup {turn + 1}
    BY Zenon DEF Receive
  <2>. QED  BY <1>1, <1>2, <2>1, <2>2
<1>4. CancelTypeOK'
  BY <1>2, <1>3, Zenon DEF Receive, CancelInv, CancelTypeOK, clientVars, busVars, Frames
<1>5. CancelsOverlap'
  BY <1>2, Zenon DEF Receive, CancelInv, CancelsOverlap, busVars
<1>6. NoStrayCancel' /\ TurnsAreRequests'
  BY <1>1, <1>2, <1>3 DEF Receive, CancelInv, NoStrayCancel, TurnsAreRequests
<1>. QED  BY <1>4, <1>5, <1>6, Zenon DEF CancelInv

\* Every other step leaves the socket and the count of turns alone.
LEMMA QuietKeeps ==
  ASSUME CancelInv, UNCHANGED <<socket, turn>>,
         reader' = "offering" => reader = "offering",
         [CancelNext]_cancelVars
  PROVE  CancelInv'
<1>1. /\ Cardinality(Waiting(socket)) \in Nat /\ turn \in Nat /\ MaxTurns \in Nat
      /\ Requests <= MaxTurns
  BY WaitingFinite, CancellationBounds
  DEF CancelInv, CancelTypeOK, TurnsAreRequests
<1>2. Requests' <= MaxTurns
  BY <1>1, RequestsCount
<1>3. CASE UNCHANGED cancelVars
  BY <1>2, <1>3
  DEF cancelVars, clientVars, readerVars, workerVars, busVars, CancelInv, CancelTypeOK,
      NoStrayCancel, CancelsOverlap, TurnsAreRequests
<1>4. CASE HangUp \/ OfferFails \/ Top \/ ReaderIsGone \/ Refuse \/ ClearFlag \/ BeginRequest
             \/ Publish \/ EndTurn \/ Retire \/ BusShuts
  <2>1. CancelTypeOK'
    BY <1>1, <1>4, Zenon
    DEF HangUp, OfferFails, Top, ReaderIsGone, Refuse, ClearFlag, BeginRequest, Publish, EndTurn,
        Retire, BusShuts, clientVars, readerVars, workerVars, busVars, CancelInv, CancelTypeOK
  <2>2. NoStrayCancel' /\ CancelsOverlap'
    BY <1>4
    DEF HangUp, OfferFails, Top, ReaderIsGone, Refuse, ClearFlag, BeginRequest, Publish, EndTurn,
        Retire, BusShuts, clientVars, readerVars, workerVars, busVars, CancelInv,
        NoStrayCancel, CancelsOverlap
  <2>3. TurnsAreRequests'
    BY <1>2, <1>4, Zenon
    DEF HangUp, OfferFails, Top, ReaderIsGone, Refuse, ClearFlag, BeginRequest, Publish, EndTurn,
        Retire, BusShuts, workerVars, CancelInv, TurnsAreRequests
  <2>. QED  BY <2>1, <2>2, <2>3, Zenon DEF CancelInv
<1>5. CASE ReaderCancels \/ SeeFlag \/ BusCancels
  <2>1. current_req \in {0, turn} /\ (current_req # 0 => turn \in 1..turn)
    BY <1>1 DEF CancelInv, CancelTypeOK, TurnsAreRequests
  <2>2. hits' \subseteq 1..turn /\ hits' \subseteq covered
    <3>1. \/ hits' = hits \cup ({current_req} \ {0})
          \/ hits' = hits \cup {turn} /\ worker = "streaming"
      <4>1. ReaderCancels => hits' = hits \cup ({current_req} \ {0})
        BY Zenon DEF ReaderCancels, CancelCurrent
      <4>2. BusCancels => hits' = hits \cup ({current_req} \ {0})
        BY Zenon DEF BusCancels, CancelCurrent
      <4>3. SeeFlag => hits' = hits \cup {turn} /\ worker = "streaming"
        BY Zenon DEF SeeFlag
      <4>. QED  BY <1>5, <4>1, <4>2, <4>3, Zenon
    <3>2. turn \in covered
      BY <1>5, Zenon DEF ReaderCancels, SeeFlag, BusCancels, CancelInv, CancelsOverlap
    <3>3. worker = "streaming" => turn \in 1..turn
      BY <1>1 DEF CancelInv, TurnsAreRequests
    <3>4. hits \subseteq 1..turn /\ hits \subseteq covered
      BY Zenon DEF CancelInv, CancelTypeOK, NoStrayCancel
    <3>. QED  BY <2>1, <3>1, <3>2, <3>3, <3>4, Zenon
  <2>3. CancelTypeOK'
    BY <1>1, <1>5, <2>2, Zenon
    DEF ReaderCancels, SeeFlag, BusCancels, clientVars, readerVars, workerVars, busVars,
        CancelInv, CancelTypeOK
  <2>4. NoStrayCancel' /\ CancelsOverlap'
    BY <1>5, <2>2, Zenon
    DEF ReaderCancels, SeeFlag, BusCancels, clientVars, readerVars, workerVars, busVars,
        CancelInv, NoStrayCancel, CancelsOverlap
  <2>5. TurnsAreRequests'
    BY <1>2, <1>5, Zenon
    DEF ReaderCancels, SeeFlag, BusCancels, workerVars, CancelInv, TurnsAreRequests
  <2>. QED  BY <2>3, <2>4, <2>5, Zenon DEF CancelInv
<1>6. CASE ReadEof \/ BusCancel \/ BusClose \/ BusFlags
  <2>1. /\ covered' = covered \cup {turn} /\ covered' \subseteq 0..turn
        /\ calls' \in 0..MaxCalls
    <3>1. covered \subseteq 0..turn /\ turn \in 0..turn /\ calls \in 0..MaxCalls
      BY <1>1 DEF CancelInv, CancelTypeOK
    <3>2. covered' = covered \cup {turn}
      BY <1>6, Zenon DEF ReadEof, BusCancel, BusClose, BusFlags, SetFlag
    <3>3. calls' \in 0..MaxCalls
      <4>1. BusCancel => calls < MaxCalls /\ calls' = calls + 1
        BY Zenon DEF BusCancel
      <4>2. ReadEof \/ BusClose \/ BusFlags => calls' = calls
        BY Zenon DEF ReadEof, BusClose, BusFlags, busVars
      <4>3. MaxCalls \in Nat
        BY CancellationBounds, Zenon
      <4>4. CASE BusCancel
        BY <3>1, <4>1, <4>3, <4>4
      <4>. QED  BY <1>6, <3>1, <4>2, <4>4, Zenon
    <3>4. covered' \subseteq 0..turn
      BY <3>1, <3>2, Zenon
    <3>. QED  BY <3>2, <3>3, <3>4, Zenon
  <2>. QED
    BY <1>1, <1>2, <1>6, <2>1, Zenon
    DEF ReadEof, BusCancel, BusClose, BusFlags, SetFlag, clientVars, readerVars, workerVars,
        busVars, CancelInv, CancelTypeOK, NoStrayCancel, CancelsOverlap, TurnsAreRequests
<1>7. \/ UNCHANGED cancelVars
      \/ HangUp \/ OfferFails \/ Top \/ ReaderIsGone \/ Refuse \/ ClearFlag \/ BeginRequest
      \/ Publish \/ EndTurn \/ Retire \/ BusShuts
      \/ ReaderCancels \/ SeeFlag \/ BusCancels \/ ReadEof \/ BusCancel \/ BusClose \/ BusFlags
  <2>1. \A f \in Frames : ~ Write(f)
    <3>1. SUFFICES ASSUME NEW f \in Frames, Write(f) PROVE FALSE
      BY Zenon
    <3>2. Len(socket') = Len(socket) + 1 /\ socket \in Seq(Frames)
      BY <3>1, WaitingAppend, Zenon DEF Write, CancelInv, CancelTypeOK
    <3>. QED  BY <3>2, SeqLen
  <2>2. ~ ReadCancel /\ ~ ReadFrame
    <3>1. socket # << >> => Len(Tail(socket)) # Len(socket)
      BY SeqTail, SeqLen DEF CancelInv, CancelTypeOK
    <3>. QED  BY <3>1, Zenon DEF ReadCancel, ReadFrame
  <2>3. ~ Receive
    BY <1>1 DEF Receive
  <2>. QED
    BY <2>1, <2>2, <2>3, Zenon
    DEF CancelNext, Client, Reader, Works, Done, DoneCancelled, TokenUnsent, Bus
<1>. QED  BY <1>3, <1>4, <1>5, <1>6, <1>7, Zenon

\* The invariant of Cancellation: no cancel reaches a turn it does not overlap
\* (cancel_in_flight, session.rs:308-322), the flag, current_req and the turn
\* agree, and turns are the requests the client wrote.
THEOREM CancelHolds == CancelSpec => []CancelInv
<1>1. ASSUME CancelInv, [CancelNext]_cancelVars PROVE CancelInv'
  <2>1. CASE \E f \in Frames : Write(f)
    BY <1>1, <2>1, WriteKeeps, Zenon
  <2>2. CASE ReadCancel \/ ReadFrame
    BY <1>1, <2>2, ReadKeeps, Zenon
  <2>3. CASE Receive
    BY <1>1, <2>3, ReceiveKeeps, Zenon
  <2>4. CASE ~ (\E f \in Frames : Write(f)) /\ ~ ReadCancel /\ ~ ReadFrame /\ ~ Receive
    <3>1. UNCHANGED <<socket, turn>> /\ (reader' = "offering" => reader = "offering")
      BY <1>1, <2>4, Zenon
      DEF CancelNext, Client, Reader, Works, Bus, HangUp, OfferFails, Top, ReaderIsGone, Refuse,
          ClearFlag, BeginRequest, Publish, EndTurn, Done, DoneCancelled, TokenUnsent, Retire,
          BusShuts, ReaderCancels, SeeFlag, BusCancels, ReadEof, BusCancel, BusClose, BusFlags,
          cancelVars, clientVars, readerVars, workerVars
    <3>. QED  BY <1>1, <3>1, QuietKeeps, Zenon
  <2>. QED  BY <2>1, <2>2, <2>3, <2>4, Zenon
<1>. QED  BY <1>1, CancelStart, PTL DEF CancelSpec

\* A request is cancelled only if somebody's cancellation overlapped its turn.
THEOREM NoCancelGoesAstray == CancelSpec => []NoStrayCancel
<1>1. CancelInv => NoStrayCancel
  BY Zenon DEF CancelInv
<1>. QED  BY <1>1, CancelHolds, PTL

-----------------------------------------------------------------------------
(* Unblock.  A wake-up could be lost only if a call went pending with its  *)
(* result already in; that the thread holding the mutex is asking rests on *)
(* every reply being for a thread that waits, and the only one for it.     *)

\* Nobody has asked yet.
LEMMA UnblockStart == UnblockInit => NoLostWakeup /\ UnblockBooks
<1>. SUFFICES ASSUME UnblockInit PROVE NoLostWakeup /\ UnblockBooks
  BY Zenon
<1>1. Nobody \notin Asking /\ \A c \in BusCalls : c \in Asking /\ c \notin Askers
  BY AskingApart, Zenon DEF Nobody, Asking
<1>2. thread \in [Asking -> {"unborn", "check"}] /\ \A c \in BusCalls : thread[c] = "unborn"
  BY <1>1, Zenon DEF UnblockInit
<1>. QED
  BY <1>1, <1>2, Zenon DEF UnblockInit, NoLostWakeup, UnblockBooks, Waits

\* What the executor does keeps every waker with its pending call.
LEMMA ExecutorKeeps ==
  ASSUME NoLostWakeup, UnblockBooks, Executor
  PROVE  (NoLostWakeup /\ UnblockBooks)'
<1>1. CASE ReadReply
  <2>1. PICK m \in replies : replies' = replies \ {m} /\ heard' = heard \cup {m}
    BY <1>1, Zenon DEF ReadReply
  <2>2. replies' \cup heard' = replies \cup heard /\ replies' \cap heard' = {}
    BY <2>1 DEF UnblockBooks
  <2>. QED  BY <1>1, <2>2, Zenon DEF ReadReply, NoLostWakeup, UnblockBooks
<1>2. ASSUME NEW c \in BusCalls, Dispatch(c) PROVE (NoLostWakeup /\ UnblockBooks)'
  <2>1. c \in Asking /\ thread[c] = "unborn" /\ mutex # c /\ task[c] = "new"
    BY <1>2, Zenon DEF Asking, Dispatch, UnblockBooks, Waits
  <2>2. /\ task' = [task EXCEPT ![c] = "ready"]
        /\ \/ thread' = [thread EXCEPT ![c] = "check"] /\ result' = result
           \/ result' = [result EXCEPT ![c] = "failed"] /\ thread' = thread
        /\ UNCHANGED <<waker, mutex, replies, heard>>
    BY <1>2, Zenon DEF Dispatch, Set
  <2>3. \A d \in Asking : /\ thread'[d] \in Waits <=> thread[d] \in Waits
                          /\ d # c => result'[d] = result[d] /\ thread'[d] = thread[d]
    BY <2>1, <2>2, Zenon DEF UnblockBooks, Waits
  <2>4. /\ task' \in [BusCalls -> {"new", "ready", "pending", "blocking", "done"}]
        /\ thread' \in [Asking -> {"unborn", "check", "allowed", "denied", "failed", "gone"}
                                    \cup Waits]
        /\ result' \in [Asking -> {"none", "allowed", "denied", "failed"}]
        /\ \A d \in BusCalls : d \in Asking /\ (d # c => task'[d] = task[d])
        /\ task'[c] = "ready"
    BY <2>1, <2>2 DEF UnblockBooks, Asking
  <2>5. \A m \in replies \cup heard : m[1] \in Asking
    BY Zenon DEF UnblockBooks
  <2>6. \A d \in BusCalls : task'[d] = "pending" => d \in waker' /\ result'[d] = "none"
    BY <2>2, <2>3, <2>4, Zenon DEF NoLostWakeup
  <2>7. mutex' # Nobody => thread'[mutex'] \in Waits
    BY <2>2, <2>3, Zenon DEF NoLostWakeup, UnblockBooks
  <2>8. waker' \subseteq {d \in BusCalls : task'[d] = "pending"}
    BY <2>1, <2>2, <2>4, Zenon DEF UnblockBooks
  <2>9. \A d \in BusCalls : task'[d] = "new" => thread'[d] = "unborn"
    BY <2>3, <2>4 DEF UnblockBooks
  <2>. QED
    BY <2>2, <2>3, <2>4, <2>5, <2>6, <2>7, <2>8, <2>9 DEF NoLostWakeup, UnblockBooks
<1>3. ASSUME NEW c \in BusCalls, PollCall(c) PROVE (NoLostWakeup /\ UnblockBooks)'
  <2>1. /\ task[c] = "ready" /\ UNCHANGED <<result, thread, mutex, replies, heard>>
        /\ \/ /\ result[c] # "none"
              /\ task' = [task EXCEPT ![c] = "done"] /\ waker' = waker
           \/ /\ result[c] = "none"
              /\ task' = [task EXCEPT ![c] = "pending"] /\ waker' = waker \cup {c}
    BY <1>3, Zenon DEF PollCall, Set
  <2>. QED  BY <2>1 DEF NoLostWakeup, UnblockBooks
<1>. QED  BY <1>1, <1>2, <1>3, Zenon DEF Executor

\* What one thread does disturbs no other thread's question.
LEMMA ThreadKeeps ==
  ASSUME NoLostWakeup, UnblockBooks, NEW c \in Asking, ThreadStep(c) \/ Authority(c)
  PROVE  (NoLostWakeup /\ UnblockBooks)'
<1>0. Nobody \notin Asking /\ BusCalls \subseteq Asking
  BY AskingApart, Zenon DEF Nobody, Asking
<1>1. CASE AskPolkit(c)
  <2>1. /\ thread[c] = "check" /\ mutex = Nobody /\ mutex' = c
        /\ thread' = [thread EXCEPT ![c] = "asked with details"]
        /\ UNCHANGED <<task, waker, result, replies, heard>>
    BY <1>1, Zenon DEF AskPolkit, Set
  <2>2. \A m \in replies \cup heard : m[1] \in Asking
    BY Zenon DEF UnblockBooks
  <2>3. \A d \in Asking : thread[d] \notin Waits
    BY <1>0, <2>1, Zenon DEF UnblockBooks
  <2>4. replies \cup heard = {}
    BY <2>2, <2>3 DEF UnblockBooks
  <2>5. \A d \in Asking : d # c => thread'[d] = thread[d]
    BY <2>1, Zenon DEF UnblockBooks
  <2>6. /\ thread'[c] = "asked with details"
        /\ thread' \in [Asking -> {"unborn", "check", "allowed", "denied", "failed", "gone"}
                                    \cup Waits]
    BY <2>1, Zenon DEF UnblockBooks, Waits
  <2>7. \A d \in Asking : thread'[d] \in Waits <=> mutex' = d
    BY <2>1, <2>3, <2>5, <2>6, Zenon DEF Waits
  <2>8. \A d \in BusCalls : task'[d] = "new" => thread'[d] = "unborn"
    BY <1>0, <2>1, <2>5, Zenon DEF UnblockBooks
  <2>. QED
    BY <2>1, <2>4, <2>6, <2>7, <2>8, Zenon DEF NoLostWakeup, UnblockBooks
<1>2. CASE Authority(c)
  <2>1. PICK say \in Says : replies' = replies \cup {<<c, say>>}
    BY <1>2, Zenon DEF Authority
  <2>2. /\ thread[c] \in Waits /\ \A m \in replies \cup heard : m[1] # c
        /\ UNCHANGED <<task, waker, result, thread, mutex, heard>>
    BY <1>2, Zenon DEF Authority
  <2>3. replies' \cup heard' \subseteq Asking \X Says
    BY <2>1, <2>2 DEF UnblockBooks
  <2>4. <<c, say>>[1] = c /\ <<c, say>> \notin heard
    BY <2>2
  <2>. QED
    BY <2>1, <2>2, <2>3, <2>4 DEF NoLostWakeup, UnblockBooks
<1>3. CASE AskAgain(c)
  <2>1. /\ thread[c] = "asked with details"
        /\ thread' = [thread EXCEPT ![c] = "asked"] /\ heard' \subseteq heard
        /\ UNCHANGED <<task, waker, result, mutex, replies>>
    BY <1>3, Zenon DEF AskAgain, Set
  <2>2. thread' \in [Asking -> {"unborn", "check", "allowed", "denied", "failed", "gone"}
                                 \cup Waits]
    BY <2>1, Zenon DEF UnblockBooks, Waits
  <2>3. \A d \in Asking : /\ thread'[d] \in Waits <=> thread[d] \in Waits
                          /\ thread[d] = "unborn" => thread'[d] = "unborn"
    BY <2>1, Zenon DEF UnblockBooks, Waits
  <2>4. \A m \in replies \cup heard : m[1] \in Asking
    BY Zenon DEF UnblockBooks
  <2>. QED
    BY <1>0, <2>1, <2>2, <2>3, <2>4, Zenon DEF NoLostWakeup, UnblockBooks
<1>4. CASE Hear(c)
  <2>1. PICK m \in heard : /\ m[1] = c /\ heard' = heard \ {m}
                           /\ thread' = [thread EXCEPT ![c] = interpret(m[2])]
    BY <1>4, Zenon DEF Hear, Set
  <2>2. mutex' = Nobody /\ UNCHANGED <<task, waker, result, replies>>
    BY <1>4, Zenon DEF Hear
  <2>3. interpret(m[2]) \in {"allowed", "denied", "failed"}
    BY Zenon DEF interpret
  <2>4. mutex = c /\ thread[c] \in Waits
    BY <2>1, Zenon DEF UnblockBooks
  <2>5. /\ thread' \in [Asking -> {"unborn", "check", "allowed", "denied", "failed", "gone"}
                                    \cup Waits]
        /\ thread'[c] \notin Waits
        /\ \A d \in Asking : d # c => thread'[d] = thread[d]
    BY <2>1, <2>3, Zenon DEF UnblockBooks, Waits
  <2>6. \A d \in Asking : thread'[d] \notin Waits
    BY <2>4, <2>5, Zenon DEF UnblockBooks
  <2>7. \A n \in replies \cup heard : n[1] \in Asking /\ n[1] = c
    BY <2>4, Zenon DEF UnblockBooks
  <2>8. replies' \cup heard' = {}
    BY <2>1, <2>2, <2>7 DEF UnblockBooks
  <2>9. \A d \in BusCalls : task[d] = "new" => thread'[d] = "unborn"
    BY <1>0, <2>4, <2>5, Zenon DEF UnblockBooks, Waits
  <2>. QED
    BY <1>0, <2>2, <2>5, <2>6, <2>8, <2>9 DEF NoLostWakeup, UnblockBooks
<1>5. CASE Complete(c)
  <2>1. /\ thread[c] \in {"allowed", "denied", "failed"}
        /\ result' = [result EXCEPT ![c] = thread[c]]
        /\ thread' = [thread EXCEPT ![c] = "gone"]
        /\ waker' = waker \ {c} /\ UNCHANGED <<mutex, replies, heard>>
    BY <1>5, Zenon DEF Complete, Set
  <2>2. task' = IF c \in waker THEN [task EXCEPT ![c] = "ready"] ELSE
                IF c \in BusCalls /\ task[c] = "blocking" THEN [task EXCEPT ![c] = "done"]
                ELSE task
    BY <1>5, Zenon DEF Complete, Set
  <2>3. /\ thread' \in [Asking -> {"unborn", "check", "allowed", "denied", "failed", "gone"}
                                    \cup Waits]
        /\ result' \in [Asking -> {"none", "allowed", "denied", "failed"}]
        /\ \A d \in Asking : /\ thread'[d] \in Waits <=> thread[d] \in Waits
                             /\ d # c => result'[d] = result[d] /\ thread'[d] = thread[d]
    BY <2>1, Zenon DEF UnblockBooks, Waits
  <2>4. /\ task' \in [BusCalls -> {"new", "ready", "pending", "blocking", "done"}]
        /\ \A d \in BusCalls : d # c => task'[d] = task[d]
        /\ c \in BusCalls => task'[c] \notin {"pending", "new"}
    BY <2>1, <2>2, Zenon DEF UnblockBooks, NoLostWakeup
  <2>5. \A m \in replies \cup heard : m[1] \in Asking
    BY Zenon DEF UnblockBooks
  <2>6. \A d \in BusCalls : /\ task'[d] = "pending" => d \in waker' /\ result'[d] = "none"
                            /\ task'[d] = "new" => thread'[d] = "unborn"
    BY <1>0, <2>1, <2>3, <2>4 DEF UnblockBooks, NoLostWakeup
  <2>7. waker' \subseteq {d \in BusCalls : task'[d] = "pending"}
    BY <2>1, <2>4, Zenon DEF UnblockBooks
  <2>. QED
    BY <1>0, <2>1, <2>3, <2>4, <2>5, <2>6, <2>7 DEF NoLostWakeup, UnblockBooks
<1>. QED  BY <1>1, <1>2, <1>3, <1>4, <1>5, Zenon DEF ThreadStep

\* However many calls and sessions ask polkit, no call is left pending with its
\* result in and nobody to wake it (unblock.rs), and the polkit mutex is held
\* only by a thread that waits for a reply.
THEOREM NoWakeupIsLost == UnblockSpec => [](NoLostWakeup /\ UnblockBooks)
<1>1. ASSUME NoLostWakeup /\ UnblockBooks, [UnblockNext]_unblockVars
      PROVE  (NoLostWakeup /\ UnblockBooks)'
  <2>1. CASE UNCHANGED unblockVars
    BY <1>1, <2>1, Zenon DEF unblockVars, NoLostWakeup, UnblockBooks
  <2>. QED  BY <1>1, <2>1, ExecutorKeeps, ThreadKeeps, Zenon DEF UnblockNext
<1>. QED  BY <1>1, UnblockStart, PTL DEF UnblockSpec
=============================================================================
