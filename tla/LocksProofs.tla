---------------------------- MODULE LocksProofs -----------------------------
(***************************************************************************)
(* Proofs about the two components that serialise their work with a mutex: *)
(* BackendControl, for any number of sessions, models and time-outs, and   *)
(* Grants, for any number of threads, capabilities, crashes and failed     *)
(* writes.                                                                 *)
(***************************************************************************)
EXTENDS BackendControl, Grants, FiniteSetTheorems, TLAPS

-----------------------------------------------------------------------------
(* Sequences.                                                              *)

\* The length of a sequence, and its domain.
LEMMA SeqLen ==
  ASSUME NEW S, NEW s \in Seq(S)
  PROVE  Len(s) \in Nat /\ DOMAIN s = 1..Len(s) /\ s \in [1..Len(s) -> S]
  OBVIOUS

\* Only the empty sequence has no elements.
LEMMA SeqEmpty ==
  ASSUME NEW S
  PROVE  /\ << >> \in Seq(S) /\ Len(<< >>) = 0
         /\ \A s \in Seq(S) : s # << >> => Len(s) \in Nat \ {0}
  OBVIOUS

\* What Append adds, and what it keeps.
LEMMA SeqAppend ==
  ASSUME NEW S, NEW s \in Seq(S), NEW e \in S
  PROVE  /\ Append(s, e) \in Seq(S) /\ Append(s, e) # << >>
         /\ Len(Append(s, e)) = Len(s) + 1 /\ Append(s, e)[Len(s) + 1] = e
         /\ \A i \in 1..Len(s) : Append(s, e)[i] = s[i]
  OBVIOUS

\* What Head and Tail are of a sequence that is not empty.
LEMMA SeqTail ==
  ASSUME NEW S, NEW s \in Seq(S), s # << >>
  PROVE  /\ Head(s) \in S /\ Tail(s) \in Seq(S) /\ Len(Tail(s)) = Len(s) - 1
         /\ \A i \in 1..Len(Tail(s)) : Tail(s)[i] = s[i + 1]
  OBVIOUS

-----------------------------------------------------------------------------
(* BackendControl.  The inductive invariant is RepliesAccounted with       *)
(* LoadedIsBacked.  Replies carry no request id, so a record in loaded is  *)
(* right only because of what can still be on its way: at most one stale   *)
(* message when one operation timed out (StaleRepliesBounded), in front of *)
(* the waiting operation's own (OwnIsLast), and harmless (StaleIsHarmless).*)

ControlInv == RepliesAccounted /\ LoadedIsBacked

\* What Tail and Append leave at each place (the channel and the socket).
LEMMA TailAt ==
  ASSUME NEW S, NEW q \in Seq(S), q # << >>
  PROVE  /\ Head(q) = q[1] /\ Head(q) \in S
         /\ Tail(q) \in Seq(S) /\ Len(q) \in Nat \ {0}
         /\ Len(Tail(q)) = Len(q) - 1
         /\ \A i \in 1..Len(Tail(q)) : Tail(q)[i] = q[i + 1] /\ i + 1 \in 1..Len(q)
         /\ DOMAIN q = 1..Len(q) /\ DOMAIN Tail(q) = 1..Len(Tail(q))
  BY SeqTail, SeqEmpty, SeqLen

LEMMA AppendAt ==
  ASSUME NEW S, NEW q \in Seq(S), NEW e \in S
  PROVE  /\ Append(q, e) \in Seq(S) /\ Len(q) \in Nat
         /\ Len(Append(q, e)) = Len(q) + 1
         /\ Append(q, e)[Len(q) + 1] = e
         /\ \A i \in 1..Len(q) : Append(q, e)[i] = q[i]
         /\ DOMAIN q = 1..Len(q) /\ DOMAIN Append(q, e) = 1..(Len(q) + 1)
         /\ Append(q, e) # << >>
  BY SeqAppend, SeqLen

\* The mutex is held by nobody or by one caller.
LEMMA HolderCount ==
  ASSUME ControlTypeOK, OneWaits
  PROVE  /\ \/ control_op = {} /\ Cardinality(control_op) = 0
            \/ \E c \in Callers : control_op = {c} /\ Cardinality(control_op) = 1
         /\ \A c \in Callers : stage[c] = "wait" => control_op = {c}
<1>1. \A c \in Callers : stage[c] = "wait" => control_op = {c}
  BY Zenon DEF ControlTypeOK, OneWaits
<1>2. CASE control_op = {}
  BY <1>1, <1>2, FS_EmptySet, Zenon
<1>3. CASE control_op # {}
  <2>1. PICK c \in Callers : stage[c] = "wait"
    BY <1>3, Zenon DEF ControlTypeOK
  <2>. QED  BY <1>1, <2>1, FS_Singleton, Zenon
<1>. QED  BY <1>2, <1>3, Zenon

\* Initially nothing is loaded and nothing is on its way.
LEMMA InitControl == ControlInit => ControlInv
<1>. SUFFICES ASSUME ControlInit PROVE ControlInv
  BY Zenon
<1>1. \A c \in Callers : stage[c] \in {"idle", "out"}
  BY Zenon DEF ControlInit
<1>2. ControlTypeOK
  BY <1>1, SeqEmpty, ControlAssumption DEF ControlInit, ControlTypeOK, Callers
<1>3. AskedOnce /\ OneWaits /\ OwnIsLast
  BY <1>1, Zenon DEF AskedOnce, OneWaits, OwnIsLast, Callers
<1>4. StaleRepliesBounded
  BY SeqEmpty, FS_EmptySet, ControlAssumption DEF ControlInit, StaleRepliesBounded
<1>5. StaleIsHarmless /\ LoadedIsBacked
  BY SeqEmpty DEF ControlInit, StaleIsHarmless, LoadedIsBacked
<1>. QED  BY <1>2, <1>3, <1>4, <1>5, Zenon DEF ControlInv, RepliesAccounted

\* A step that neither asks nor answers changes no operation.
LEMMA QuietInv ==
  ASSUME ControlInv, stage' \in [Callers -> {"out", "idle", "looking", "scanning",
                                             "lock", "wait", "ready"}],
         want' \in [Callers -> Models],
         in_use' \subseteq Models, doomed' \subseteq Models,
         \A c \in Callers : /\ stage'[c] = "wait" <=> stage[c] = "wait"
                            /\ stage[c] = "wait" => want'[c] = want[c],
         UNCHANGED <<context, control_op, loaded, timeouts, inbox, control, resident>>
  PROVE  ControlInv'
<1>. USE DEF ControlInv, RepliesAccounted
<1>0. Janitor \in Callers /\ Users \subseteq Callers
  BY Zenon DEF Callers
<1>1. ControlTypeOK'
  BY Zenon DEF ControlTypeOK
<1>2. AskedOnce' /\ StaleRepliesBounded' /\ OneWaits'
  BY <1>0, Zenon DEF AskedOnce, StaleRepliesBounded, OneWaits
<1>3. OwnIsLast'
  BY Zenon DEF OwnIsLast, Answers
<1>4. StaleIsHarmless' /\ LoadedIsBacked'
  BY <1>0 DEF StaleIsHarmless, LoadedIsBacked, Unloading
<1>. QED  BY <1>1, <1>2, <1>3, <1>4, Zenon

\* Everything a session or the janitor does outside an operation.
LEMMA OutsideInv ==
  ASSUME ControlInv,
         \/ \E u \in Users : Session(u)
         \/ Cleans
         \/ \E c \in Callers : FindsWork(c)
  PROVE  ControlInv'
<1>0. Janitor \in Callers /\ Users \subseteq Callers
  BY Zenon DEF Callers
<1>. USE DEF GoTo
<1>1. ASSUME NEW u \in Users, Session(u) PROVE ControlInv'
  BY <1>0, <1>1, QuietInv, Zenon
     DEF Session, Create, Close, Load, EndTurn, ControlInv, RepliesAccounted, ControlTypeOK
<1>2. CASE Cleans
  <2>1. CASE LookAtSessions
    BY <1>0, <2>1, QuietInv DEF LookAtSessions, ControlInv, RepliesAccounted, ControlTypeOK
  <2>2. CASE LookAtModels \/ Sleep
    BY <1>0, <2>2, QuietInv, Zenon
       DEF LookAtModels, Sleep, ControlInv, RepliesAccounted, ControlTypeOK
  <2>3. ASSUME NEW m \in Models, Unload(m) PROVE ControlInv'
    BY <1>0, <2>3, QuietInv, Zenon DEF Unload, ControlInv, RepliesAccounted, ControlTypeOK
  <2>. QED  BY <1>2, <2>1, <2>2, <2>3, Zenon DEF Cleans
<1>3. ASSUME NEW c \in Callers, FindsWork(c) PROVE ControlInv'
  BY <1>3, QuietInv, Zenon DEF FindsWork, ControlInv, RepliesAccounted, ControlTypeOK
<1>. QED  BY <1>1, <1>2, <1>3, Zenon

\* An operation asks when nobody waits; its request goes to the end (load and
\* unload, up to the send).
LEMMA AskInv ==
  ASSUME NEW c \in Callers, ControlInv, Ask(c)
  PROVE  ControlInv'
<1>. USE DEF ControlInv, RepliesAccounted
<1>. DEFINE msg == [kind    |-> IF c = Janitor THEN "unload" ELSE "load",
                    model   |-> want[c],
                    context |-> IF c = Janitor THEN 0 ELSE context[c]]
<1>0. /\ inbox' = Append(inbox, msg) /\ MustAsk(c)
      /\ control_op = {} /\ control_op' = {c} /\ stage' = [stage EXCEPT ![c] = "wait"]
      /\ UNCHANGED <<want, context, in_use, doomed, loaded, timeouts, control,
                     resident>>
  BY Zenon DEF Ask, GoTo
<1>1. /\ \A d \in Callers : stage[d] # "wait"
      /\ \A d \in Callers : stage'[d] = "wait" <=> d = c
      /\ Janitor \in Callers /\ \A m : ~ Unloading(m)
  BY <1>0, Zenon DEF ControlTypeOK, Callers, Unloading
<1>2. msg \in Message /\ inbox \in Seq(Message)
  BY Zenon DEF ControlTypeOK, Message, Callers
<1>3. /\ inbox' \in Seq(Message) /\ Len(inbox) \in Nat /\ Len(inbox') = Len(inbox) + 1
      /\ inbox'[Len(inbox')] = msg /\ inbox' # << >>
      /\ DOMAIN inbox = 1..Len(inbox) /\ DOMAIN inbox' = 1..(Len(inbox) + 1)
      /\ \A i \in 1..Len(inbox) : inbox'[i] = inbox[i]
  BY <1>0, <1>2, AppendAt
<1>4. /\ msg.kind = IF c = Janitor THEN "unload" ELSE "load"
      /\ msg.model = want[c]
  BY Zenon
<1>. HIDE DEF msg
<1>5. ControlTypeOK'
  BY <1>0, <1>1, <1>3 DEF ControlTypeOK
<1>6. AskedOnce' /\ OneWaits'
  BY <1>0, <1>1, ControlAssumption DEF AskedOnce, OneWaits, MustAsk, Callers
<1>7. StaleRepliesBounded'
  <2>1. Cardinality(control_op) = 0 /\ Cardinality(control_op') = 1
    BY <1>0, FS_EmptySet, FS_Singleton, Zenon
  <2>2. Len(control) \in Nat /\ timeouts \in Nat
    BY ControlAssumption, SeqLen DEF ControlTypeOK
  <2>. QED  BY <1>0, <1>3, <2>1, <2>2 DEF StaleRepliesBounded
<1>8. OwnIsLast'
  BY <1>0, <1>1, <1>3, <1>4, Zenon DEF OwnIsLast
<1>9. StaleIsHarmless'
  <2>. SUFFICES ASSUME timeouts <= 1 PROVE StaleIsHarmless'
    BY <1>0, Zenon DEF StaleIsHarmless
  <2>1. ASSUME NEW i \in DOMAIN inbox', inbox'[i].kind = "unload"
        PROVE  \/ loaded'[inbox'[i].model] = 0
               \/ i = Len(inbox') /\ Unloading(inbox[i].model)'
    <3>1. CASE i \in DOMAIN inbox
      <4>1. inbox[i].kind = "unload" /\ inbox'[i] = inbox[i]
        BY <1>3, <2>1, <3>1, Zenon
      <4>2. loaded[inbox[i].model] = 0
        BY <1>1, <3>1, <4>1, Zenon DEF StaleIsHarmless
      <4>. QED  BY <1>0, <4>1, <4>2, Zenon
    <3>2. CASE i = Len(inbox')
      BY <1>0, <1>1, <1>3, <1>4, <2>1, <3>2, Zenon DEF Unloading
    <3>. QED  BY <1>3, <2>1, <3>1, <3>2
  <2>2. ASSUME NEW i \in DOMAIN control', control'[i].kind = "loaded"
        PROVE  resident'[control'[i].model] = control'[i].context
    BY <1>0, <1>1, <2>2, Zenon DEF StaleIsHarmless
  <2>. QED  BY <2>1, <2>2, Zenon DEF StaleIsHarmless
<1>10. LoadedIsBacked'
  BY <1>0, <1>1, Zenon DEF LoadedIsBacked
<1>. QED  BY <1>5, <1>6, <1>7, <1>8, <1>9, <1>10, Zenon

\* A waiting operation has its own message on its way and as many stale ones
\* as operations have timed out at most.
LEMMA FewPending ==
  ASSUME ControlInv
  PROVE  /\ Len(inbox) \in Nat /\ Len(control) \in Nat /\ timeouts \in Nat
         /\ Len(inbox) + Len(control) <= timeouts + 1
         /\ control_op = {} => Len(inbox) + Len(control) <= timeouts
<1>1. timeouts \in Nat /\ Len(inbox) \in Nat /\ Len(control) \in Nat
  BY ControlAssumption, SeqLen DEF ControlInv, RepliesAccounted, ControlTypeOK
<1>2. Len(inbox) + Len(control) <= timeouts + Cardinality(control_op)
  BY Zenon DEF ControlInv, RepliesAccounted, StaleRepliesBounded
<1>3. \/ control_op = {} /\ Cardinality(control_op) = 0
      \/ Cardinality(control_op) = 1 /\ control_op # {}
  BY HolderCount, Zenon DEF ControlInv, RepliesAccounted
<1>. QED  BY <1>1, <1>2, <1>3

\* A waiting operation discards a reply that is not its own (await_until).
LEMMA DiscardInv ==
  ASSUME NEW c \in Callers, ControlInv, Discard(c)
  PROVE  ControlInv'
<1>. USE DEF ControlInv, RepliesAccounted, Discard, daemonVars
<1>0. /\ control \in Seq(Reply) /\ control # << >> /\ control' = Tail(control)
      /\ UNCHANGED <<stage, want, context, in_use, doomed, control_op, loaded,
                     timeouts, inbox, resident>>
  BY Zenon DEF ControlTypeOK
<1>1. /\ Head(control) = control[1]
      /\ control' \in Seq(Reply) /\ Len(control) \in Nat \ {0}
      /\ Len(control') = Len(control) - 1
      /\ \A i \in 1..Len(control') : control'[i] = control[i + 1]
                                     /\ i + 1 \in 1..Len(control)
      /\ DOMAIN control = 1..Len(control) /\ DOMAIN control' = 1..Len(control')
  BY <1>0, TailAt
<1>2. \A d \in Callers : stage[d] = "wait" => d = c
  BY Zenon DEF OneWaits
<1>3. ControlTypeOK'
  BY <1>0, <1>1 DEF ControlTypeOK
<1>4. AskedOnce' /\ OneWaits' /\ LoadedIsBacked'
  BY <1>0, Zenon DEF AskedOnce, OneWaits, LoadedIsBacked, Unloading
<1>5. StaleRepliesBounded'
  <2>1. Len(inbox) \in Nat /\ timeouts \in Nat /\ Cardinality(control_op) \in Nat
    BY HolderCount, ControlAssumption, SeqLen DEF ControlTypeOK
  <2>. QED  BY <1>0, <1>1, <2>1 DEF StaleRepliesBounded
<1>6. OwnIsLast'
  <2>1. inbox = << >> => Len(control) > 1
    <3>. SUFFICES ASSUME inbox = << >>, Len(control) = 1 PROVE FALSE
      BY <1>1
    <3>. QED  BY <1>1, Zenon DEF OwnIsLast
  <2>2. inbox = << >> => control' # << >> /\ control'[Len(control')] = control[Len(control)]
    <3>. SUFFICES ASSUME inbox = << >>
                  PROVE  /\ control' # << >>
                         /\ control'[Len(control')] = control[Len(control)]
      BY Zenon
    <3>1. Len(control') \in 1..Len(control') /\ Len(control') + 1 = Len(control)
      BY <1>1, <2>1
    <3>2. control' # << >>
      <4>1. Len(control') # 0
        BY <1>1, <3>1
      <4>. QED  BY <1>1, <4>1, SeqEmpty, Zenon
    <3>. QED  BY <1>1, <3>1, <3>2, Zenon
  <2>. QED  BY <1>0, <1>2, <2>2, Zenon DEF OwnIsLast, Answers
<1>7. StaleIsHarmless'
  BY <1>0, <1>1 DEF StaleIsHarmless, Unloading
<1>. QED  BY <1>3, <1>4, <1>5, <1>6, <1>7, Zenon

\* A reply that the janitor waits behind is not one to load, when it leaves at
\* most one stale message (OwnIsLast with FewPending).
LEMMA JanitorSeesNoLoad ==
  ASSUME ControlInv, stage[Janitor] = "wait", NEW i \in DOMAIN control,
         Len(inbox) + Len(control) <= i
  PROVE  control[i].kind # "loaded"
<1>1. Janitor \in Callers /\ DOMAIN control = 1..Len(control)
  BY SeqLen, Zenon DEF ControlInv, RepliesAccounted, ControlTypeOK, Callers
<1>2. Len(inbox) = 0 /\ i = Len(control)
  BY <1>1, FewPending
<1>3. inbox = << >>
  BY <1>2, SeqEmpty, Zenon DEF ControlInv, RepliesAccounted, ControlTypeOK
<1>4. control[Len(control)].kind = "unloaded"
  BY <1>1, <1>3, Zenon DEF ControlInv, RepliesAccounted, OwnIsLast
<1>. QED  BY <1>2, <1>4, Zenon

\* An operation that returns, answered or not, leaves the mutex free.
LEMMA ReturnFacts ==
  ASSUME NEW c \in Callers, NEW l \in {"idle", "ready"}, ControlInv,
         stage[c] = "wait", Return(c, l)
  PROVE  /\ stage' \in [Callers -> {"out", "idle", "looking", "scanning", "lock",
                                    "wait", "ready"}]
         /\ \A d \in Callers : stage'[d] # "wait"
         /\ \A m : ~ Unloading(m)'
         /\ control_op = {c} /\ control_op' = {}
         /\ Cardinality(control_op) = 1 /\ Cardinality(control_op') = 0
         /\ \A m : Unloading(m) => c = Janitor /\ want[c] = m
         /\ AskedOnce' /\ OneWaits' /\ OwnIsLast'
<1>1. /\ stage' \in [Callers -> {"out", "idle", "looking", "scanning", "lock",
                                 "wait", "ready"}]
      /\ stage'[c] # "wait" /\ \A d \in Callers \ {c} : stage'[d] = stage[d]
  BY Zenon DEF Return, GoTo, ControlInv, RepliesAccounted, ControlTypeOK
<1>2. Janitor \in Callers /\ Users \subseteq Callers
  BY Zenon DEF Callers
<1>3. \A d \in Callers : stage[d] = "wait" => d = c
  BY Zenon DEF ControlInv, RepliesAccounted, OneWaits
<1>4. \A d \in Callers : stage'[d] # "wait"
  BY <1>1, <1>3, Zenon
<1>5. control_op = {c} /\ control_op' = {}
  BY HolderCount, Zenon DEF ControlInv, RepliesAccounted, Return
<1>6. AskedOnce' /\ OneWaits' /\ OwnIsLast'
  BY <1>2, <1>4, Zenon DEF AskedOnce, OneWaits, OwnIsLast
<1>. QED  BY <1>1, <1>2, <1>3, <1>4, <1>5, <1>6, FS_EmptySet, FS_Singleton, Zenon DEF Unloading

\* An operation that times out leaves its own message behind (await_until).
LEMMA TimeOutInv ==
  ASSUME NEW c \in Callers, ControlInv, TimeOut(c)
  PROVE  ControlInv'
<1>. USE DEF ControlInv, RepliesAccounted
<1>0. /\ stage[c] = "wait" /\ timeouts < MaxTimeouts /\ timeouts' = timeouts + 1
      /\ loaded' = IF c = Janitor THEN [loaded EXCEPT ![want[c]] = 0] ELSE loaded
      /\ Return(c, "idle")
      /\ UNCHANGED <<want, context, in_use, doomed, inbox, control, resident>>
  BY Zenon DEF TimeOut
<1>1. /\ stage' \in [Callers -> {"out", "idle", "looking", "scanning", "lock",
                                 "wait", "ready"}]
      /\ \A d \in Callers : stage'[d] # "wait"
      /\ control_op = {c} /\ control_op' = {}
      /\ Cardinality(control_op) = 1 /\ Cardinality(control_op') = 0
      /\ \A m : Unloading(m) => c = Janitor /\ want[c] = m
      /\ AskedOnce' /\ OneWaits' /\ OwnIsLast'
  BY <1>0, ReturnFacts, Zenon
<1>2. /\ Len(inbox) \in Nat /\ Len(control) \in Nat /\ timeouts \in Nat
      /\ Len(inbox) + Len(control) <= timeouts + 1
  BY FewPending, Zenon
<1>3. /\ loaded' \in [Models -> Contexts \cup {0}]
      /\ \A m \in Models : loaded'[m] # 0 => loaded'[m] = loaded[m] /\ ~ Unloading(m)
  BY <1>0, <1>1, Zenon DEF ControlTypeOK
<1>4. ControlTypeOK'
  BY <1>0, <1>1, <1>2, <1>3, ControlAssumption DEF ControlTypeOK
<1>5. StaleRepliesBounded'
  BY <1>0, <1>1, <1>2 DEF StaleRepliesBounded
<1>6. ASSUME timeouts' <= 1
      PROVE  StaleIsHarmless'
  <2>0. timeouts <= 1 /\ Len(inbox) + Len(control) <= 1
    BY <1>0, <1>2, <1>6
  <2>1. ASSUME NEW i \in DOMAIN inbox, inbox[i].kind = "unload"
        PROVE  loaded'[inbox[i].model] = 0
    <3>1. inbox[i] \in Message
      BY <2>1, SeqLen DEF ControlTypeOK
    <3>2. inbox[i].model \in Models
      BY <3>1, Zenon DEF Message
    <3>. QED  BY <1>3, <2>0, <2>1, <3>2, Zenon DEF StaleIsHarmless
  <2>2. ASSUME NEW i \in DOMAIN control, control[i].kind = "loaded"
        PROVE  resident[control[i].model] = control[i].context
    <3>1. ~ Unloading(control[i].model)
      <4>. SUFFICES ASSUME stage[Janitor] = "wait" PROVE FALSE
        BY Zenon DEF Unloading
      <4>1. i \in 1..Len(control)
        BY SeqLen, Zenon DEF ControlTypeOK
      <4>. QED  BY <1>2, <2>0, <2>2, <4>1, JanitorSeesNoLoad
    <3>. QED  BY <2>0, <2>2, <3>1, Zenon DEF StaleIsHarmless
  <2>. QED  BY <1>0, <2>1, <2>2, Zenon DEF StaleIsHarmless
<1>7. LoadedIsBacked'
  BY <1>0, <1>2, <1>3 DEF LoadedIsBacked
<1>. QED  BY <1>1, <1>4, <1>5, <1>6, <1>7, Zenon DEF StaleIsHarmless

\* An operation takes the head of the channel for its answer.  That may be a
\* stale reply, which then says what its own would (load and unload).
LEMMA AnsweredInv ==
  ASSUME NEW c \in Callers, ControlInv, Answered(c)
  PROVE  ControlInv'
<1>. USE DEF ControlInv, RepliesAccounted
<1>. DEFINE r == control[1]
<1>0. /\ stage[c] = "wait" /\ control # << >> /\ Answers(c, Head(control))
      /\ loaded' = LoadedAfter(c, Head(control)) /\ control' = Tail(control)
      /\ \E l \in {"idle", "ready"} : Return(c, l)
      /\ UNCHANGED <<want, context, in_use, doomed, timeouts, inbox, resident>>
  BY Zenon DEF Answered
<1>1. /\ Head(control) = r /\ r \in Reply
      /\ control' \in Seq(Reply) /\ Len(control) \in Nat \ {0}
      /\ Len(control') = Len(control) - 1
      /\ \A i \in 1..Len(control') : control'[i] = control[i + 1]
                                     /\ i + 1 \in 1..Len(control)
      /\ DOMAIN control = 1..Len(control) /\ DOMAIN control' = 1..Len(control')
  BY <1>0, TailAt DEF ControlTypeOK
<1>2. /\ stage' \in [Callers -> {"out", "idle", "looking", "scanning", "lock",
                                 "wait", "ready"}]
      /\ \A d \in Callers : stage'[d] # "wait"
      /\ control_op = {c} /\ control_op' = {}
      /\ Cardinality(control_op) = 1 /\ Cardinality(control_op') = 0
      /\ \A m : Unloading(m) => c = Janitor /\ want[c] = m
      /\ AskedOnce' /\ OneWaits' /\ OwnIsLast'
  BY <1>0, ReturnFacts
<1>3. /\ Len(inbox) \in Nat /\ timeouts \in Nat
      /\ Len(inbox) + Len(control) <= timeouts + 1
  BY FewPending, Zenon
<1>4. r.context \in Contexts \cup {0} /\ want[c] \in Models
  BY <1>1, Zenon DEF Reply, ControlTypeOK
<1>. HIDE DEF r
<1>5. loaded' \in [Models -> Contexts \cup {0}]
  BY <1>0, <1>1, <1>4, Zenon DEF ControlTypeOK, LoadedAfter
<1>6. ControlTypeOK'
  BY <1>0, <1>1, <1>2, <1>5 DEF ControlTypeOK
<1>7. StaleRepliesBounded'
  BY <1>0, <1>1, <1>2, <1>3 DEF StaleRepliesBounded
<1>8. ASSUME NEW m \in Models, loaded'[m] # 0
      PROVE  \/ loaded'[m] = loaded[m] /\ ~ Unloading(m)
             \/ /\ c # Janitor /\ r.kind = "loaded" /\ m = want[c] /\ m = r.model
                /\ loaded'[m] = r.context
  BY <1>0, <1>1, <1>2, <1>4, <1>8 DEF ControlTypeOK, LoadedAfter, Answers
<1>9. ASSUME timeouts <= 1
      PROVE  LoadedIsBacked'
  <2>. SUFFICES ASSUME NEW m \in Models, loaded'[m] # 0
                PROVE  resident[m] = loaded'[m]
    BY <1>0, Zenon DEF LoadedIsBacked
  <2>1. CASE loaded'[m] = loaded[m] /\ ~ Unloading(m)
    BY <1>9, <2>1, Zenon DEF LoadedIsBacked
  <2>2. CASE /\ c # Janitor /\ r.kind = "loaded" /\ m = want[c] /\ m = r.model
             /\ loaded'[m] = r.context
    BY <1>1, <1>2, <1>9, <2>2 DEF StaleIsHarmless, r
  <2>. QED  BY <1>8, <2>1, <2>2, Zenon
<1>10. ASSUME timeouts <= 1
       PROVE  StaleIsHarmless'
  <2>1. ASSUME NEW i \in DOMAIN inbox, inbox[i].kind = "unload"
        PROVE  loaded'[inbox[i].model] = 0
    <3>. DEFINE m == inbox[i].model
    <3>. SUFFICES ASSUME loaded'[m] # 0 PROVE FALSE
      BY Zenon
    <3>1. m \in Models /\ i \in 1..Len(inbox)
      <4>1. inbox[i] \in Message /\ i \in 1..Len(inbox)
        BY <2>1, SeqLen, Zenon DEF ControlTypeOK
      <4>. QED  BY <4>1, Zenon DEF Message
    <3>2. loaded[m] = 0 \/ Unloading(m)
      BY <1>10, <2>1, Zenon DEF StaleIsHarmless
    <3>3. c # Janitor
      BY <1>8, <3>1, <3>2, Zenon
    <3>4. inbox # << >> /\ inbox[Len(inbox)].kind = "load"
      <4>1. inbox # << >>
        BY <3>1, SeqEmpty
      <4>. QED  BY <1>0, <3>3, <4>1, Zenon DEF OwnIsLast
    <3>5. i # Len(inbox)
      BY <2>1, <3>4, Zenon
    <3>. QED  BY <1>1, <1>3, <1>10, <3>1, <3>5
  <2>2. ASSUME NEW i \in DOMAIN control', control'[i].kind = "loaded"
        PROVE  resident[control'[i].model] = control'[i].context
    <3>1. control'[i] = control[i + 1] /\ i + 1 \in DOMAIN control /\ i >= 1
      BY <1>1
    <3>2. ~ Unloading(control[i + 1].model)
      <4>. SUFFICES ASSUME stage[Janitor] = "wait" PROVE FALSE
        BY Zenon DEF Unloading
      <4>. QED  BY <1>1, <1>3, <1>10, <2>2, <3>1, JanitorSeesNoLoad
    <3>. QED  BY <1>10, <2>2, <3>1, <3>2, Zenon DEF StaleIsHarmless
  <2>. QED  BY <1>0, <2>1, <2>2, Zenon DEF StaleIsHarmless
<1>11. timeouts' = timeouts
  BY <1>0, Zenon
<1>. QED  BY <1>2, <1>6, <1>7, <1>9, <1>10, <1>11, Zenon DEF StaleIsHarmless, LoadedIsBacked

\* The backend answers the head of its inbox, in order (its command loop).
LEMMA RespondFacts ==
  ASSUME NEW kind, NEW size, ControlInv, inbox # << >>,
         resident' \in [Models -> Contexts \cup {0}],
         Respond(kind, size),
         [kind |-> kind, model |-> inbox[1].model, context |-> size] \in Reply,
         IF inbox[1].kind = "load" THEN kind \in {"loaded", "error"}
                                   ELSE kind = "unloaded"
  PROVE  /\ ControlTypeOK' /\ AskedOnce' /\ OneWaits' /\ StaleRepliesBounded'
         /\ OwnIsLast'
         /\ UNCHANGED <<stage, want, loaded, control_op, timeouts>>
         /\ \A m : Unloading(m)' <=> Unloading(m)
         /\ DOMAIN inbox = 1..Len(inbox) /\ DOMAIN control = 1..Len(control)
         /\ Len(inbox) \in Nat \ {0} /\ Len(control) \in Nat
         /\ Len(inbox') = Len(inbox) - 1
         /\ \A i \in DOMAIN inbox' : inbox'[i] = inbox[i + 1] /\ i + 1 \in DOMAIN inbox
         /\ DOMAIN control' = 1..(Len(control) + 1)
         /\ \A i \in DOMAIN control : control'[i] = control[i]
         /\ control'[Len(control) + 1].kind = kind
         /\ control'[Len(control) + 1].model = inbox[1].model
         /\ control'[Len(control) + 1].context = size
<1>. USE DEF ControlInv, RepliesAccounted
<1>. DEFINE rep == [kind |-> kind, model |-> inbox[1].model, context |-> size]
<1>0. inbox \in Seq(Message) /\ control \in Seq(Reply)
  BY Zenon DEF ControlTypeOK
<1>1. /\ Head(inbox) = inbox[1] /\ Tail(inbox) \in Seq(Message)
      /\ Len(inbox) \in Nat \ {0} /\ Len(Tail(inbox)) = Len(inbox) - 1
      /\ \A i \in 1..Len(Tail(inbox)) : Tail(inbox)[i] = inbox[i + 1]
                                        /\ i + 1 \in 1..Len(inbox)
      /\ DOMAIN inbox = 1..Len(inbox) /\ DOMAIN Tail(inbox) = 1..Len(Tail(inbox))
  BY <1>0, TailAt, Zenon
<1>2. inbox' = Tail(inbox) /\ control' = Append(control, rep) /\ UNCHANGED daemonVars
  BY <1>1, Zenon DEF Respond
<1>3. /\ Append(control, rep) \in Seq(Reply) /\ Len(control) \in Nat
      /\ Len(Append(control, rep)) = Len(control) + 1
      /\ Append(control, rep)[Len(control) + 1] = rep
      /\ \A i \in 1..Len(control) : Append(control, rep)[i] = control[i]
      /\ DOMAIN control = 1..Len(control)
      /\ DOMAIN Append(control, rep) = 1..(Len(control) + 1)
      /\ Append(control, rep) # << >>
  BY <1>0, AppendAt
<1>4. rep.kind = kind /\ rep.model = inbox[1].model /\ rep.context = size
  BY Zenon
<1>. HIDE DEF rep
<1>5. UNCHANGED <<stage, want, context, in_use, doomed, control_op, loaded, timeouts>>
  BY <1>2, Zenon DEF daemonVars
<1>6. ControlTypeOK'
  BY <1>1, <1>2, <1>3, <1>5, Zenon DEF ControlTypeOK
<1>7. AskedOnce' /\ OneWaits' /\ \A m : Unloading(m)' <=> Unloading(m)
  BY <1>5, Zenon DEF AskedOnce, OneWaits, Unloading
<1>8. StaleRepliesBounded'
  <2>1. Cardinality(control_op) \in Nat /\ timeouts \in Nat
    BY HolderCount, ControlAssumption DEF ControlTypeOK
  <2>. QED  BY <1>1, <1>2, <1>3, <1>5, <2>1 DEF StaleRepliesBounded
<1>9. OwnIsLast'
  <2>. SUFFICES ASSUME NEW c \in Callers, stage[c] = "wait"
                PROVE  IF inbox' # << >>
                       THEN /\ inbox'[Len(inbox')].model = want[c]
                            /\ inbox'[Len(inbox')].kind =
                                 IF c = Janitor THEN "unload" ELSE "load"
                       ELSE /\ control' # << >>
                            /\ \/ control'[Len(control')].kind = "error"
                               \/ /\ control'[Len(control')].kind =
                                       IF c = Janitor THEN "unloaded" ELSE "loaded"
                                  /\ control'[Len(control')].model = want[c]
                            /\ c = Janitor => control'[Len(control')].kind = "unloaded"
    BY <1>5, Zenon DEF OwnIsLast, Answers
  <2>1. /\ inbox[Len(inbox)].model = want[c]
        /\ inbox[Len(inbox)].kind = IF c = Janitor THEN "unload" ELSE "load"
    BY Zenon DEF OwnIsLast
  <2>2. CASE inbox' # << >>
    <3>1. Len(inbox') \in Nat \ {0}
      BY <1>1, <1>2, <2>2, SeqEmpty, Zenon
    <3>2. inbox'[Len(inbox')] = inbox[Len(inbox)]
      BY <1>1, <1>2, <3>1
    <3>. QED  BY <2>1, <2>2, <3>2, Zenon
  <2>3. CASE inbox' = << >>
    <3>1. Len(inbox) = 1
      BY <1>1, <1>2, <2>3, SeqEmpty
    <3>2. control'[Len(control')] = rep /\ control' # << >>
      BY <1>2, <1>3, Zenon
    <3>. QED  BY <1>4, <2>1, <2>3, <3>1, <3>2, Zenon
  <2>. QED  BY <2>2, <2>3, Zenon
<1>. QED  BY <1>1, <1>2, <1>3, <1>4, <1>5, <1>6, <1>7, <1>8, <1>9

\* Taking the head off the inbox leaves the rest of it as harmless as it was.
LEMMA InboxStaysHarmless ==
  ASSUME ControlInv, timeouts <= 1, inbox # << >>,
         Len(inbox) \in Nat \ {0}, Len(inbox') = Len(inbox) - 1,
         \A i \in DOMAIN inbox' : inbox'[i] = inbox[i + 1] /\ i + 1 \in DOMAIN inbox,
         DOMAIN inbox' = 1..Len(inbox'),
         \A m : Unloading(m)' <=> Unloading(m), loaded' = loaded
  PROVE  \A i \in DOMAIN inbox' : inbox'[i].kind = "unload" =>
           \/ loaded'[inbox'[i].model] = 0
           \/ i = Len(inbox') /\ Unloading(inbox[i].model)'
<1>. SUFFICES ASSUME NEW i \in DOMAIN inbox', inbox'[i].kind = "unload",
                     loaded[inbox'[i].model] # 0
              PROVE  i = Len(inbox') /\ Unloading(inbox[i].model)'
  BY Zenon
<1>1. i + 1 = Len(inbox) /\ Unloading(inbox[i + 1].model)
  BY Zenon DEF ControlInv, RepliesAccounted, StaleIsHarmless
<1>2. stage'[Janitor] = "wait" /\ want'[Janitor] = inbox[i + 1].model
  BY <1>1, Zenon DEF Unloading
<1>. QED  BY <1>1, <1>2 DEF Unloading

\* The backend loads the model, or has it already (handle, Load).
LEMMA BackendLoadsInv ==
  ASSUME ControlInv, BackendLoads
  PROVE  ControlInv'
<1>. DEFINE m == inbox[1].model
            n == IF resident[m] # 0 THEN resident[m] ELSE inbox[1].context
<1>0. inbox # << >> /\ inbox \in Seq(Message) /\ Head(inbox) = inbox[1]
      /\ inbox[1] \in Message /\ inbox[1].kind = "load"
  BY TailAt DEF BackendLoads, ControlInv, RepliesAccounted, ControlTypeOK
<1>1. m \in Models /\ inbox[1].context \in Contexts /\ 0 \notin Contexts
  BY <1>0, ControlAssumption, Zenon DEF Message
<1>2. resident \in [Models -> Contexts \cup {0}]
  BY Zenon DEF ControlInv, RepliesAccounted, ControlTypeOK
<1>3. n \in Contexts /\ n # 0 /\ (resident[m] # 0 => n = resident[m])
  BY <1>1, <1>2, Zenon
<1>4. resident' = [resident EXCEPT ![m] = n] /\ Respond("loaded", n)
  BY <1>0, Zenon DEF BackendLoads
<1>. HIDE DEF n
<1>5. [kind |-> "loaded", model |-> inbox[1].model, context |-> n] \in Reply
  BY <1>1, <1>3, Zenon DEF Reply
<1>6. resident' \in [Models -> Contexts \cup {0}]
  BY <1>1, <1>2, <1>3, <1>4, Zenon
<1>7. /\ ControlTypeOK' /\ AskedOnce' /\ OneWaits' /\ StaleRepliesBounded'
      /\ OwnIsLast'
      /\ UNCHANGED <<stage, want, loaded, control_op, timeouts>>
      /\ \A k : Unloading(k)' <=> Unloading(k)
      /\ DOMAIN inbox = 1..Len(inbox) /\ DOMAIN control = 1..Len(control)
      /\ Len(inbox) \in Nat \ {0} /\ Len(control) \in Nat
      /\ Len(inbox') = Len(inbox) - 1
      /\ \A i \in DOMAIN inbox' : inbox'[i] = inbox[i + 1] /\ i + 1 \in DOMAIN inbox
      /\ DOMAIN control' = 1..(Len(control) + 1)
      /\ \A i \in DOMAIN control : control'[i] = control[i]
      /\ control'[Len(control) + 1].kind = "loaded"
      /\ control'[Len(control) + 1].model = m
      /\ control'[Len(control) + 1].context = n
  BY <1>0, <1>4, <1>5, <1>6, RespondFacts, Zenon
<1>8. \A k \in Models : resident[k] # 0 => resident'[k] = resident[k]
  BY <1>1, <1>2, <1>3, <1>4, Zenon
<1>9. LoadedIsBacked'
  BY <1>7, <1>8, Zenon DEF ControlInv, LoadedIsBacked
<1>10. ASSUME timeouts <= 1
       PROVE  StaleIsHarmless'
  <2>1. \A i \in DOMAIN inbox' : inbox'[i].kind = "unload" =>
           \/ loaded'[inbox'[i].model] = 0
           \/ i = Len(inbox') /\ Unloading(inbox[i].model)'
    <3>1. DOMAIN inbox' = 1..Len(inbox')
      BY <1>7, SeqLen, Zenon DEF ControlTypeOK
    <3>. QED  BY <1>0, <1>7, <1>10, <3>1, InboxStaysHarmless
  <2>2. ASSUME NEW i \in DOMAIN control', control'[i].kind = "loaded"
        PROVE  \/ resident'[control'[i].model] = control'[i].context
               \/ Unloading(control[i].model)'
    <3>1. CASE i = Len(control) + 1
      BY <1>1, <1>2, <1>4, <1>7, <3>1, Zenon
    <3>2. CASE i \in DOMAIN control
      <4>1. control[i] \in Reply /\ control[i].kind = "loaded" /\ control'[i] = control[i]
        BY <1>7, <2>2, <3>2, SeqLen DEF ControlInv, RepliesAccounted, ControlTypeOK
      <4>2. control[i].model \in Models /\ control[i].context # 0
        BY <1>1, <4>1, Zenon DEF Reply
      <4>3. resident[control[i].model] = control[i].context \/ Unloading(control[i].model)
        BY <1>10, <3>2, <4>1, Zenon DEF ControlInv, RepliesAccounted, StaleIsHarmless
      <4>. QED  BY <1>7, <1>8, <4>1, <4>2, <4>3 DEF Unloading
    <3>. QED  BY <1>7, <3>1, <3>2
  <2>. QED  BY <2>1, <2>2, Zenon DEF StaleIsHarmless
<1>. QED  BY <1>7, <1>9, <1>10, Zenon DEF ControlInv, RepliesAccounted, StaleIsHarmless

\* The backend cannot load, and has nothing new (load's error).
LEMMA BackendFailsInv ==
  ASSUME ControlInv, BackendFails
  PROVE  ControlInv'
<1>0. inbox # << >> /\ inbox \in Seq(Message) /\ Head(inbox) = inbox[1]
      /\ inbox[1] \in Message /\ inbox[1].kind = "load"
  BY TailAt DEF BackendFails, ControlInv, RepliesAccounted, ControlTypeOK
<1>1. resident' = resident /\ Respond("error", 0)
      /\ resident \in [Models -> Contexts \cup {0}]
  BY Zenon DEF BackendFails, ControlInv, RepliesAccounted, ControlTypeOK
<1>2. [kind |-> "error", model |-> inbox[1].model, context |-> 0] \in Reply
  BY <1>0, Zenon DEF Reply, Message
<1>3. /\ ControlTypeOK' /\ AskedOnce' /\ OneWaits' /\ StaleRepliesBounded'
      /\ OwnIsLast'
      /\ UNCHANGED <<stage, want, loaded, control_op, timeouts>>
      /\ \A k : Unloading(k)' <=> Unloading(k)
      /\ DOMAIN control = 1..Len(control)
      /\ Len(inbox) \in Nat \ {0} /\ Len(control) \in Nat
      /\ Len(inbox') = Len(inbox) - 1
      /\ \A i \in DOMAIN inbox' : inbox'[i] = inbox[i + 1] /\ i + 1 \in DOMAIN inbox
      /\ DOMAIN control' = 1..(Len(control) + 1)
      /\ \A i \in DOMAIN control : control'[i] = control[i]
      /\ control'[Len(control) + 1].kind = "error"
  BY <1>0, <1>1, <1>2, RespondFacts, Zenon
<1>4. LoadedIsBacked'
  BY <1>1, <1>3, Zenon DEF ControlInv, LoadedIsBacked
<1>5. ASSUME timeouts <= 1
      PROVE  StaleIsHarmless'
  <2>1. \A i \in DOMAIN inbox' : inbox'[i].kind = "unload" =>
           \/ loaded'[inbox'[i].model] = 0
           \/ i = Len(inbox') /\ Unloading(inbox[i].model)'
    <3>1. DOMAIN inbox' = 1..Len(inbox')
      BY <1>3, SeqLen, Zenon DEF ControlTypeOK
    <3>. QED  BY <1>0, <1>3, <1>5, <3>1, InboxStaysHarmless, Zenon
  <2>2. ASSUME NEW i \in DOMAIN control', control'[i].kind = "loaded"
        PROVE  \/ resident'[control'[i].model] = control'[i].context
               \/ Unloading(control[i].model)'
    <3>1. i \in DOMAIN control /\ control'[i] = control[i]
      BY <1>3, <2>2
    <3>2. resident[control[i].model] = control[i].context \/ Unloading(control[i].model)
      BY <1>5, <2>2, <3>1, Zenon DEF ControlInv, RepliesAccounted, StaleIsHarmless
    <3>. QED  BY <1>1, <1>3, <3>1, <3>2, Zenon DEF Unloading
  <2>. QED  BY <2>1, <2>2, Zenon DEF StaleIsHarmless
<1>. QED  BY <1>3, <1>4, <1>5, Zenon DEF ControlInv, RepliesAccounted, StaleIsHarmless

\* The backend unloads.  With a reply to load still in the channel, the unload
\* is the waiting janitor's own, since there is no room for a second stale
\* message (handle, Unload).
LEMMA BackendUnloadsInv ==
  ASSUME ControlInv, BackendUnloads
  PROVE  ControlInv'
<1>. DEFINE m == inbox[1].model
<1>0. inbox # << >> /\ inbox \in Seq(Message) /\ Head(inbox) = inbox[1]
      /\ inbox[1] \in Message /\ inbox[1].kind = "unload"
  BY TailAt DEF BackendUnloads, ControlInv, RepliesAccounted, ControlTypeOK
<1>1. m \in Models /\ resident \in [Models -> Contexts \cup {0}]
  BY <1>0, Zenon DEF Message, ControlInv, RepliesAccounted, ControlTypeOK
<1>2. resident' = [resident EXCEPT ![m] = 0] /\ Respond("unloaded", 0)
  BY <1>0, Zenon DEF BackendUnloads
<1>3. [kind |-> "unloaded", model |-> inbox[1].model, context |-> 0] \in Reply
  BY <1>1, Zenon DEF Reply
<1>4. /\ ControlTypeOK' /\ AskedOnce' /\ OneWaits' /\ StaleRepliesBounded'
      /\ OwnIsLast'
      /\ UNCHANGED <<stage, want, loaded, control_op, timeouts>>
      /\ \A k : Unloading(k)' <=> Unloading(k)
      /\ DOMAIN inbox = 1..Len(inbox) /\ DOMAIN control = 1..Len(control)
      /\ Len(inbox) \in Nat \ {0} /\ Len(control) \in Nat
      /\ Len(inbox') = Len(inbox) - 1
      /\ \A i \in DOMAIN inbox' : inbox'[i] = inbox[i + 1] /\ i + 1 \in DOMAIN inbox
      /\ DOMAIN control' = 1..(Len(control) + 1)
      /\ \A i \in DOMAIN control : control'[i] = control[i]
      /\ control'[Len(control) + 1].kind = "unloaded"
  <2>1. resident' \in [Models -> Contexts \cup {0}]
    BY <1>1, <1>2, Zenon
  <2>. QED  BY <1>0, <1>2, <1>3, <2>1, RespondFacts, Zenon
<1>5. \A k \in Models \ {m} : resident'[k] = resident[k]
  BY <1>1, <1>2, Zenon
<1>6. ASSUME timeouts <= 1
      PROVE  loaded[m] = 0 \/ Unloading(m)
  BY <1>0, <1>4, <1>6 DEF ControlInv, RepliesAccounted, StaleIsHarmless
<1>7. LoadedIsBacked'
  BY <1>4, <1>5, <1>6, Zenon DEF ControlInv, LoadedIsBacked
<1>8. ASSUME timeouts <= 1, NEW i \in DOMAIN control
      PROVE  Unloading(m)
  <2>1. Len(inbox) = 1 /\ control_op # {}
    BY <1>4, <1>8, FewPending
  <2>2. PICK c \in Callers : stage[c] = "wait"
    BY <2>1, Zenon DEF ControlInv, RepliesAccounted, ControlTypeOK
  <2>3. inbox[1].kind = (IF c = Janitor THEN "unload" ELSE "load") /\ m = want[c]
    BY <1>0, <2>1, <2>2, Zenon DEF ControlInv, RepliesAccounted, OwnIsLast
  <2>. QED  BY <1>0, <2>2, <2>3, Zenon DEF Unloading
<1>9. ASSUME timeouts <= 1
      PROVE  StaleIsHarmless'
  <2>1. \A i \in DOMAIN inbox' : inbox'[i].kind = "unload" =>
           \/ loaded'[inbox'[i].model] = 0
           \/ i = Len(inbox') /\ Unloading(inbox[i].model)'
    <3>1. DOMAIN inbox' = 1..Len(inbox')
      BY <1>4, SeqLen, Zenon DEF ControlTypeOK
    <3>. QED  BY <1>0, <1>4, <1>9, <3>1, InboxStaysHarmless, Zenon
  <2>2. ASSUME NEW i \in DOMAIN control', control'[i].kind = "loaded"
        PROVE  \/ resident'[control'[i].model] = control'[i].context
               \/ Unloading(control[i].model)'
    <3>1. i \in DOMAIN control /\ control'[i] = control[i]
      BY <1>4, <2>2
    <3>2. resident[control[i].model] = control[i].context \/ Unloading(control[i].model)
      BY <1>9, <2>2, <3>1, Zenon DEF ControlInv, RepliesAccounted, StaleIsHarmless
    <3>3. control[i].model \in Models
      <4>1. control[i] \in Reply
        BY <3>1, SeqLen DEF ControlInv, RepliesAccounted, ControlTypeOK
      <4>. QED  BY <4>1, Zenon DEF Reply
    <3>4. CASE control[i].model = m
      BY <1>4, <1>8, <1>9, <3>1, <3>4, Zenon DEF Unloading
    <3>5. CASE control[i].model # m
      BY <1>4, <1>5, <3>1, <3>2, <3>3, <3>5 DEF Unloading
    <3>. QED  BY <3>4, <3>5, Zenon
  <2>. QED  BY <2>1, <2>2, Zenon DEF StaleIsHarmless
<1>. QED  BY <1>4, <1>7, <1>9, Zenon DEF ControlInv, RepliesAccounted, StaleIsHarmless

\* Every step keeps the invariant.
LEMMA NextControl == ControlInv /\ [ControlNext]_controlVars => ControlInv'
<1>. SUFFICES ASSUME ControlInv, [ControlNext]_controlVars PROVE ControlInv'
  BY Zenon
<1>1. CASE UNCHANGED controlVars
  BY <1>1, QuietInv, Zenon
     DEF controlVars, daemonVars, ControlInv, RepliesAccounted, ControlTypeOK
<1>2. CASE (\E u \in Users : Session(u)) \/ Cleans
  BY <1>2, OutsideInv, Zenon
<1>3. ASSUME NEW c \in Callers, Operation(c) PROVE ControlInv'
  BY <1>3, OutsideInv, AskInv, AnsweredInv, DiscardInv, TimeOutInv, Zenon DEF Operation
<1>4. CASE Backend
  BY <1>4, BackendLoadsInv, BackendFailsInv, BackendUnloadsInv, Zenon DEF Backend
<1>. QED  BY <1>1, <1>2, <1>3, <1>4, Zenon DEF ControlNext

\* Callers that race for a model ask once, and stale replies are at most as
\* many as operations timed out, for any number of sessions, models and
\* time-outs (load, unload, await_until).
THEOREM RepliesAreAccounted == ControlSpec => []RepliesAccounted
<1>1. ControlSpec => []ControlInv
  BY InitControl, NextControl, PTL DEF ControlSpec
<1>. QED  BY <1>1, PTL DEF ControlInv

\* As long as one operation at most has timed out, load's fast path finds in
\* loaded what the backend has, unless that model is being unloaded.
THEOREM LoadedIsTrue == ControlSpec => []LoadedIsBacked
<1>1. ControlSpec => []ControlInv
  BY InitControl, NextControl, PTL DEF ControlSpec
<1>. QED  BY <1>1, PTL DEF ControlInv

-----------------------------------------------------------------------------
(* Grants.  SavedIsWhole is not inductive by itself.  It needs that saves  *)
(* which never overlapped take turns, that the one at work has the         *)
(* temporary name for itself and finds it empty, and that this is never    *)
(* the file in use (SavesInOrder).  That what the file holds was once said *)
(* needs the same of every copy and of every file (DecisionsKept).         *)

\* The inductive part of the invariants.
GrantsCore == GrantsTypeOK /\ DecisionsKept /\ SavesInOrder /\ SavedIsWhole

-----------------------------------------------------------------------------
(* Helpers.                                                                *)

\* With no temporary file there is an inode nobody uses: every thread has at
\* most one open, and one more has the real name.
LEMMA FreeInode ==
  ASSUME GrantsTypeOK, tmp = 0
  PROVE  \E j \in Inodes : j \notin InUse
<1>. DEFINE Open == {fd[t] : t \in Threads}
            n == Cardinality(Threads)
<1>1. IsFiniteSet(Threads) /\ n \in Nat
  BY GrantsAssumption, FS_CardinalityType, Zenon
<1>2. IsFiniteSet(Open) /\ Cardinality(Open) \in Nat /\ Cardinality(Open) <= n
  <2>1. [t \in Threads |-> fd[t]] \in Surjection(Threads, Open)
    BY Zenon DEF Surjection
  <2>. QED  BY <1>1, <2>1, FS_Surjection, FS_CardinalityType, Zenon
<1>3. /\ IsFiniteSet(Open \cup {path})
      /\ Cardinality(Open \cup {path}) \in Nat /\ Cardinality(Open \cup {path}) <= n + 1
  <2>1. /\ IsFiniteSet(Open \cup {path})
        /\ Cardinality(Open \cup {path}) = IF path \in Open THEN Cardinality(Open)
                                                            ELSE Cardinality(Open) + 1
    BY <1>2, FS_AddElement, Zenon
  <2>. QED  BY <1>1, <1>2, <2>1
<1>4. /\ IsFiniteSet((Open \cup {path}) \cup {0})
      /\ Cardinality((Open \cup {path}) \cup {0}) \in Nat
      /\ Cardinality((Open \cup {path}) \cup {0}) <= n + 2
  <2>1. /\ IsFiniteSet((Open \cup {path}) \cup {0})
        /\ Cardinality((Open \cup {path}) \cup {0})
             = IF 0 \in Open \cup {path} THEN Cardinality(Open \cup {path})
                                         ELSE Cardinality(Open \cup {path}) + 1
    BY <1>3, FS_AddElement, Zenon
  <2>. QED  BY <1>1, <1>3, <2>1
<1>5. IsFiniteSet(0..(n + 2)) /\ Cardinality(0..(n + 2)) = n + 3
  <2>1. 0 \in Int /\ n + 2 \in Int
    BY <1>1
  <2>. QED  BY <1>1, <2>1, FS_Interval
<1>6. InUse = (Open \cup {path}) \cup {0}
  BY Zenon DEF InUse
<1>. SUFFICES ASSUME Inodes \subseteq InUse PROVE FALSE
  BY Zenon
<1>7. 0..(n + 2) \subseteq InUse
  BY <1>1, <1>6 DEF Inodes
<1>8. Cardinality(0..(n + 2)) <= Cardinality(InUse)
  BY <1>4, <1>6, <1>7, FS_Subset, Zenon
<1>. QED  BY <1>1, <1>4, <1>5, <1>6, <1>8

\* load_grants finds a table, and one that was really decided on.
LEMMA LoadIsReal == GrantsCore => load_grants \in Tables /\ Made(load_grants)
<1>. SUFFICES ASSUME GrantsCore PROVE load_grants \in Tables /\ Made(load_grants)
  BY Zenon
<1>1. CASE \E table \in Tables : path # 0 /\ disk[path] = {table}
  <2>1. load_grants \in Tables /\ disk[path] = {load_grants} /\ path # 0
    BY <1>1, Zenon DEF load_grants
  <2>2. path \in Inodes
    BY <2>1, Zenon DEF GrantsCore, GrantsTypeOK
  <2>. QED  BY <2>1, <2>2, Zenon DEF GrantsCore, DecisionsKept
<1>2. CASE ~ \E table \in Tables : path # 0 /\ disk[path] = {table}
  <2>1. load_grants = Empty
    BY <1>2, Zenon DEF load_grants
  <2>. QED  BY <2>1, Zenon DEF Empty, Tables, Made, Decisions
<1>. QED  BY <1>1, <1>2, Zenon

\* Nothing is known at the first start.
LEMMA GrantsStart == GrantsInit => GrantsCore
<1>. SUFFICES ASSUME GrantsInit PROVE GrantsCore
  BY Zenon
<1>1. Empty \in Tables /\ Made(Empty)
  BY Zenon DEF Empty, Tables, Made, Decisions
<1>2. GrantsTypeOK
  <2>1. MaxCrashes \in Nat /\ MaxFailures \in Nat
    BY GrantsAssumption, Zenon
  <2>2. 0 \in 0..MaxCrashes /\ 0 \in 0..MaxFailures
    BY <2>1
  <2>3. disk \in [Inodes -> {{}} \cup {{table} : table \in Tables}]
    BY Zenon DEF GrantsInit
  <2>. QED  BY <1>1, <2>2, <2>3, Zenon DEF GrantsInit, GrantsTypeOK
<1>3. DecisionsKept
  BY <1>1, Zenon DEF GrantsInit, DecisionsKept
<1>4. SavesInOrder /\ SavedIsWhole
  BY Zenon DEF GrantsInit, SavesInOrder, SavedIsWhole, Saving
<1>. QED  BY <1>2, <1>3, <1>4, Zenon DEF GrantsCore

-----------------------------------------------------------------------------
(* Each step keeps the invariant.                                          *)

\* A step on the table in memory, before the saving starts.
LEMMA DecideKeeps ==
  ASSUME GrantsCore, NEW t \in Threads, Decides(t)
  PROVE  GrantsCore'
<1>1. /\ doing[t] \in {"idle", "wanting", "prompting"}
      /\ \E l \in {"idle", "wanting", "prompting", "save"} : doing' = [doing EXCEPT ![t] = l]
      /\ UNCHANGED <<fd, tmp, path, disk, overlap, crashes, failures>>
      /\ said \subseteq said'
  BY Zenon DEF Decides, Check, Prompt, Answer, Unreachable, SetGrant, Revoke, Remember, MoveTo, files,
         bounds
<1>2. /\ grants' \in Tables /\ (\A k \in Capabilities : grants'[k] # "none"
                                    => <<k, grants'[k]>> \in said')
      /\ snapshot' \in {snapshot, [snapshot EXCEPT ![t] = grants']}
      /\ said' \subseteq Capabilities \X Decisions
  <2>1. /\ grants \in Tables /\ asking[t] \in Capabilities /\ said \subseteq Capabilities \X Decisions
        /\ \A k \in Capabilities : grants[k] # "none" => <<k, grants[k]>> \in said
    BY Zenon DEF GrantsCore, GrantsTypeOK, DecisionsKept, Made
  <2>2. CASE UNCHANGED <<grants, snapshot, said>>
    BY <2>1, <2>2, Zenon
  <2>3. ASSUME NEW k \in Capabilities, NEW d \in Decisions,
               grants' = [grants EXCEPT ![k] = d], said' = said \cup {<<k, d>>},
               snapshot' = [snapshot EXCEPT ![t] = grants']
        PROVE  /\ grants' \in Tables
               /\ \A c \in Capabilities : grants'[c] # "none" => <<c, grants'[c]>> \in said'
               /\ said' \subseteq Capabilities \X Decisions
    BY <2>1, <2>3 DEF Tables
  <2>4. CASE Revoke(t)
    BY <2>1, <2>4, Zenon DEF Revoke, Remember, Empty, Tables, Decisions
  <2>5. CASE \E d \in Decisions : Answer(t, d)
    BY <2>1, <2>3, <2>5, Zenon DEF Answer, Remember
  <2>6. CASE \E k \in Capabilities, d \in Decisions : SetGrant(t, k, d)
    BY <2>3, <2>6, Zenon DEF SetGrant, Remember
  <2>. QED
    BY <2>2, <2>4, <2>5, <2>6, Zenon DEF Decides, Check, Prompt, Unreachable
<1>3. GrantsTypeOK'
  <2>1. asking' \in [Threads -> Capabilities]
    <3>1. asking \in [Threads -> Capabilities]
      BY Zenon DEF GrantsCore, GrantsTypeOK
    <3>2. asking' = asking \/ \E k \in Capabilities : asking' = [asking EXCEPT ![t] = k]
      BY Zenon DEF Decides, Check, Prompt, Answer, Unreachable, SetGrant, Revoke
    <3>. QED  BY <3>1, <3>2, Zenon
  <2>2. polkit' = {u \in Threads : doing'[u] = "prompting"} /\ \A u, v \in polkit' : u = v
    <3>1. /\ polkit = {u \in Threads : doing[u] = "prompting"} /\ \A u, v \in polkit : u = v
          /\ doing \in [Threads -> {"idle", "wanting", "prompting", "save", "write", "rename"}]
      BY Zenon DEF GrantsCore, GrantsTypeOK
    <3>2. \/ /\ doing[t] \in {"idle", "wanting"} /\ polkit' = polkit
             /\ \E l \in {"wanting", "save"} : doing' = [doing EXCEPT ![t] = l]
          \/ polkit = {} /\ polkit' = {t} /\ doing' = [doing EXCEPT ![t] = "prompting"]
          \/ /\ doing[t] = "prompting" /\ polkit' = {}
             /\ \E l \in {"idle", "save"} : doing' = [doing EXCEPT ![t] = l]
      BY Zenon DEF Decides, Check, Prompt, Answer, Unreachable, SetGrant, Revoke, Remember, MoveTo
    <3>. QED  BY <3>1, <3>2
  <2>3. snapshot' \in [Threads -> Tables]
    BY <1>2, Zenon DEF GrantsCore, GrantsTypeOK
  <2>4. doing' \in [Threads -> {"idle", "wanting", "prompting", "save", "write", "rename"}]
    BY <1>1, Zenon DEF GrantsCore, GrantsTypeOK
  <2>. QED  BY <1>1, <1>2, <2>1, <2>2, <2>3, <2>4, Zenon DEF GrantsCore, GrantsTypeOK
<1>4. DecisionsKept'
  <2>1. \A u \in Threads : snapshot'[u] \in {snapshot[u], grants'}
    BY <1>2, Zenon DEF GrantsCore, GrantsTypeOK
  <2>. QED  BY <1>1, <1>2, <2>1, Zenon DEF GrantsCore, DecisionsKept, Made
<1>5. \A u \in Threads : \A l \in {"write", "rename"} :
        (doing'[u] = l <=> doing[u] = l) /\ (doing[u] = l => snapshot'[u] = snapshot[u])
  BY <1>1, <1>2, Zenon DEF GrantsCore, GrantsTypeOK
<1>6. Saving' = Saving
  BY <1>5, Zenon DEF Saving
<1>7. SavesInOrder' /\ SavedIsWhole'
  BY <1>1, <1>5, <1>6, Zenon DEF GrantsCore, SavesInOrder, SavedIsWhole
<1>. QED  BY <1>3, <1>4, <1>7, Zenon DEF GrantsCore

\* Opening the temporary file never truncates the one in use, unless saves
\* have overlapped.
LEMMA OpenTmpKeeps ==
  ASSUME GrantsCore, NEW t \in Threads, OpenTmp(t)
  PROVE  GrantsCore'
<1>. DEFINE i == IF tmp # 0 THEN tmp ELSE CHOOSE j \in Inodes : j \notin InUse
<1>1. i \in Inodes /\ (tmp = 0 => i \notin InUse)
  BY FreeInode, Zenon DEF GrantsCore, GrantsTypeOK
<1>2. i # 0 /\ (tmp = 0 => i # path)
  BY <1>1, FS_CardinalityType, GrantsAssumption, Zenon DEF Inodes, InUse
<1>. HIDE DEF i
<1>3. /\ doing[t] = "save" /\ doing' = [doing EXCEPT ![t] = "write"]
      /\ overlap' = (overlap \/ Saving # {})
      /\ tmp' = i /\ fd' = [fd EXCEPT ![t] = i] /\ disk' = [disk EXCEPT ![i] = {}]
      /\ UNCHANGED <<asking, polkit, grants, snapshot, path, said, crashes, failures>>
      /\ tmp # 0 => i = tmp
  BY Zenon DEF OpenTmp, MoveTo, memory, bounds, i
<1>4. GrantsTypeOK'
  <2>1. disk' \in [Inodes -> {{}} \cup {{table} : table \in Tables}]
    BY <1>3, Zenon DEF GrantsCore, GrantsTypeOK
  <2>2. polkit' = {u \in Threads : doing'[u] = "prompting"}
    BY <1>3, Zenon DEF GrantsCore, GrantsTypeOK
  <2>. QED  BY <1>1, <1>3, <2>1, <2>2, Zenon DEF GrantsCore, GrantsTypeOK
<1>5. DecisionsKept'
  <2>1. \A j \in Inodes : disk'[j] \subseteq disk[j]
    BY <1>3, Zenon DEF GrantsCore, GrantsTypeOK
  <2>. QED  BY <1>3, <2>1, Zenon DEF GrantsCore, DecisionsKept, Made
<1>6. \A u \in Threads : u # t => doing'[u] = doing[u] /\ fd'[u] = fd[u]
  BY <1>3, Zenon DEF GrantsCore, GrantsTypeOK
<1>7. doing'[t] = "write" /\ fd'[t] = i /\ disk'[i] = {}
  BY <1>1, <1>3, Zenon DEF GrantsCore, GrantsTypeOK
<1>8. CASE overlap'
  BY <1>2, <1>4, <1>5, <1>6, <1>7, <1>8, Zenon DEF GrantsCore, SavesInOrder, SavedIsWhole
<1>9. CASE ~ overlap'
  <2>1. ~ overlap /\ Saving = {} /\ Saving' = {t}
    BY <1>3, <1>6, <1>7, <1>9 DEF Saving, GrantsCore, GrantsTypeOK
  <2>2. i # path
    BY <1>2, <1>3, <2>1, Zenon DEF GrantsCore, SavesInOrder
  <2>3. path # 0 => path \in Inodes /\ disk'[path] = disk[path]
    BY <1>3, <2>2, Zenon DEF GrantsCore, GrantsTypeOK
  <2>4. \A u \in Threads : u # t => doing'[u] \notin {"write", "rename"}
    BY <2>1, Zenon DEF Saving
  <2>5. SavesInOrder'
    BY <1>2, <1>3, <1>6, <1>7, <2>1, <2>2, <2>4 DEF GrantsCore, SavesInOrder
  <2>6. SavedIsWhole'
    BY <1>3, <1>7, <2>1, <2>3, <2>4, Zenon DEF GrantsCore, SavedIsWhole
  <2>. QED  BY <1>4, <1>5, <2>5, <2>6, Zenon DEF GrantsCore
<1>. QED  BY <1>8, <1>9, Zenon

\* The writer thread, the deadline, and what a strange helper does besides
\* writing.
LEMMA WriteKeeps ==
  ASSUME GrantsCore, NEW t \in Threads, Write(t)
  PROVE  GrantsCore'
<1>1. /\ doing[t] = "write" /\ doing' = [doing EXCEPT ![t] = "rename"]
      /\ fd' = [fd EXCEPT ![t] = 0]
      /\ \/ disk' = [disk EXCEPT ![fd[t]] = {snapshot[t]}]
         \/ disk[fd[t]] # {} /\ disk' = [disk EXCEPT ![fd[t]] = {}]
      /\ UNCHANGED <<asking, polkit, grants, snapshot, tmp, path, said, overlap, crashes, failures>>
  BY Zenon DEF Write, MoveTo, memory, bounds
<1>2. fd[t] \in Inodes /\ fd[t] # 0 /\ snapshot[t] \in Tables
  BY <1>1, Zenon DEF GrantsCore, GrantsTypeOK, SavesInOrder
<1>3. /\ \A u \in Threads : u # t => doing'[u] = doing[u] /\ fd'[u] = fd[u]
      /\ doing'[t] = "rename" /\ fd'[t] = 0
  BY <1>1, Zenon DEF GrantsCore, GrantsTypeOK
<1>4. /\ \A j \in Inodes : j # fd[t] => disk'[j] = disk[j]
      /\ disk'[fd[t]] \in {{}, {snapshot[t]}}
      /\ disk[fd[t]] = {} => disk'[fd[t]] = {snapshot[t]}
      /\ disk' \in [Inodes -> {{}} \cup {{table} : table \in Tables}]
  BY <1>1, <1>2 DEF GrantsCore, GrantsTypeOK
<1>5. GrantsTypeOK'
  <2>1. polkit' = {u \in Threads : doing'[u] = "prompting"}
    BY <1>1, <1>3, Zenon DEF GrantsCore, GrantsTypeOK
  <2>. QED  BY <1>1, <1>4, <2>1, Zenon DEF GrantsCore, GrantsTypeOK
<1>6. DecisionsKept'
  <2>1. \A j \in Inodes : disk'[j] \subseteq disk[j] \cup {snapshot[t]}
    BY <1>4, Zenon
  <2>. QED  BY <1>1, <2>1, Zenon DEF GrantsCore, DecisionsKept, Made
<1>7. CASE overlap
  BY <1>1, <1>3, <1>5, <1>6, <1>7 DEF GrantsCore, SavesInOrder, SavedIsWhole
<1>8. CASE ~ overlap
  <2>1. t \in Saving /\ Saving = {t} /\ Saving' = {t}
    <3>1. t \in Saving
      BY <1>1, Zenon DEF Saving
    <3>2. Saving = {t}
      BY <1>8, <3>1, Zenon DEF GrantsCore, SavesInOrder
    <3>. QED  BY <1>3, <3>2, Zenon DEF Saving
  <2>2. fd[t] = tmp /\ tmp # 0 /\ tmp # path /\ disk'[tmp] = {snapshot[t]}
    BY <1>1, <1>4, <1>8, <2>1, Zenon DEF GrantsCore, SavesInOrder
  <2>3. \A u \in Threads : u # t => doing'[u] \notin {"write", "rename"}
    BY <2>1, Zenon DEF Saving
  <2>4. path # 0 => path \in Inodes /\ disk'[path] = disk[path]
    BY <1>4, <2>2, Zenon DEF GrantsCore, GrantsTypeOK
  <2>5. SavesInOrder'
    BY <1>1, <1>3, <2>1, <2>2, <2>3 DEF GrantsCore, SavesInOrder
  <2>6. SavedIsWhole'
    BY <1>1, <1>8, <2>2, <2>3, <2>4, Zenon DEF GrantsCore, SavedIsWhole
  <2>. QED  BY <1>5, <1>6, <2>5, <2>6, Zenon DEF GrantsCore
<1>. QED  BY <1>7, <1>8, Zenon

\* A save ends: its write is cut short, or the rename has been tried.
LEMMA SaveEndsKeeps ==
  ASSUME GrantsCore, NEW t \in Threads, WriteFails(t) \/ Rename(t)
  PROVE  GrantsCore'
<1>1. /\ doing[t] \in {"write", "rename"} /\ doing' = [doing EXCEPT ![t] = "idle"]
      /\ snapshot' = [snapshot EXCEPT ![t] = Empty]
      /\ UNCHANGED <<asking, polkit, grants, disk, said, overlap, crashes>>
  BY Zenon DEF WriteFails, Rename, MoveTo, bounds
<1>2. /\ fd' = [fd EXCEPT ![t] = 0]
      /\ failures' \in 0..MaxFailures
  <2>1. CASE WriteFails(t)
    <3>1. MaxFailures \in Nat /\ failures \in 0..MaxFailures
      BY GrantsAssumption, Zenon DEF GrantsCore, GrantsTypeOK
    <3>. QED  BY <2>1, <3>1 DEF WriteFails
  <2>2. CASE Rename(t)
    <3>1. fd[t] = 0 /\ fd \in [Threads -> Inodes \cup {0}] /\ fd' = fd
      BY <2>2, Zenon DEF Rename, GrantsCore, SavesInOrder, GrantsTypeOK
    <3>. QED  BY <2>2, <3>1, Zenon DEF Rename, bounds, GrantsCore, GrantsTypeOK
  <2>. QED  BY <2>1, <2>2, Zenon
<1>3. \/ tmp' = tmp /\ path' = path
      \/ tmp' = 0 /\ path' = (IF tmp # 0 THEN tmp ELSE path) /\ doing[t] = "rename"
  BY Zenon DEF WriteFails, Rename
<1>4. Empty \in Tables /\ \A k \in Capabilities : Empty[k] = "none"
  BY Zenon DEF Empty, Tables
<1>5. /\ \A u \in Threads : u # t => /\ doing'[u] = doing[u] /\ fd'[u] = fd[u]
                                     /\ snapshot'[u] = snapshot[u]
      /\ doing'[t] = "idle" /\ fd'[t] = 0 /\ snapshot'[t] = Empty
  BY <1>1, <1>2, Zenon DEF GrantsCore, GrantsTypeOK
<1>6. GrantsTypeOK'
  <2>1. polkit' = {u \in Threads : doing'[u] = "prompting"}
    BY <1>1, <1>5, Zenon DEF GrantsCore, GrantsTypeOK
  <2>. QED  BY <1>1, <1>2, <1>3, <1>4, <2>1 DEF GrantsCore, GrantsTypeOK
<1>7. DecisionsKept'
  BY <1>1, <1>4, <1>5 DEF GrantsCore, DecisionsKept, Made
<1>8. CASE overlap
  BY <1>1, <1>5, <1>6, <1>7, <1>8 DEF GrantsCore, SavesInOrder, SavedIsWhole
<1>9. CASE ~ overlap
  <2>1. t \in Saving /\ Saving = {t} /\ Saving' = {}
    <3>1. t \in Saving
      BY <1>1, Zenon DEF Saving
    <3>2. Saving = {t}
      BY <1>9, <3>1, Zenon DEF GrantsCore, SavesInOrder
    <3>. QED  BY <1>5, <3>2 DEF Saving
  <2>2. \A u \in Threads : doing'[u] \notin {"write", "rename"}
    BY <2>1, Zenon DEF Saving
  <2>3. doing[t] = "rename" => disk[tmp] = {snapshot[t]}
    BY <1>9, Zenon DEF GrantsCore, SavedIsWhole
  <2>4. SavesInOrder'
    BY <1>1, <1>3, <1>5, <1>9, <2>1, <2>2 DEF GrantsCore, SavesInOrder
  <2>5. SavedIsWhole'
    BY <1>1, <1>3, <1>9, <2>2, <2>3, Zenon DEF GrantsCore, SavedIsWhole
  <2>. QED  BY <1>6, <1>7, <2>4, <2>5, Zenon DEF GrantsCore
<1>. QED  BY <1>8, <1>9, Zenon

\* After a crash the table is what the file holds, and nobody is saving.
LEMMA RestartKeeps ==
  ASSUME GrantsCore, Restart
  PROVE  GrantsCore'
<1>1. /\ doing' = [t \in Threads |-> "idle"] /\ polkit' = {} /\ grants' = load_grants
      /\ snapshot' = [t \in Threads |-> Empty] /\ fd' = [t \in Threads |-> 0]
      /\ UNCHANGED <<asking, tmp, path, disk, said, overlap, failures>>
      /\ crashes < MaxCrashes /\ crashes' = crashes + 1
  BY Zenon DEF Restart
<1>2. /\ Empty \in Tables /\ \A k \in Capabilities : Empty[k] = "none"
      /\ load_grants \in Tables /\ Made(load_grants)
  BY LoadIsReal, Zenon DEF Empty, Tables
<1>3. crashes' \in 0..MaxCrashes
  <2>1. MaxCrashes \in Nat /\ crashes \in 0..MaxCrashes
    BY GrantsAssumption, Zenon DEF GrantsCore, GrantsTypeOK
  <2>. QED  BY <1>1, <2>1
<1>4. GrantsTypeOK'
  BY <1>1, <1>2, <1>3, Zenon DEF GrantsCore, GrantsTypeOK
<1>5. DecisionsKept'
  BY <1>1, <1>2, Zenon DEF GrantsCore, DecisionsKept, Made
<1>6. Saving' = {}
  BY <1>1, Zenon DEF Saving
<1>7. SavesInOrder' /\ SavedIsWhole'
  BY <1>1, <1>6, Zenon DEF GrantsCore, SavesInOrder, SavedIsWhole
<1>. QED  BY <1>4, <1>5, <1>7, Zenon DEF GrantsCore

-----------------------------------------------------------------------------
(* The theorems.                                                           *)

\* The inductive part holds throughout.
LEMMA CoreHolds == GrantsSpec => []GrantsCore
<1>1. ASSUME GrantsCore, [GrantsNext]_grantsVars PROVE GrantsCore'
  <2>1. CASE UNCHANGED grantsVars
    BY <1>1, <2>1
    DEF grantsVars, memory, files, bounds, GrantsCore, GrantsTypeOK, DecisionsKept, Made,
        SavesInOrder, SavedIsWhole, Saving
  <2>2. CASE Restart
    BY <1>1, <2>2, RestartKeeps, Zenon
  <2>3. ASSUME NEW t \in Threads, Decides(t) \/ Saves(t) PROVE GrantsCore'
    BY <1>1, <2>3, DecideKeeps, OpenTmpKeeps, WriteKeeps, SaveEndsKeeps, Zenon DEF Saves
  <2>. QED  BY <1>1, <2>1, <2>2, <2>3, Zenon DEF GrantsNext
<1>. QED  BY <1>1, GrantsStart, PTL DEF GrantsSpec

\* However many threads decide and save, crash and fail to write, no decision
\* is in the table or found by load_grants that nobody made.
THEOREM GrantsHold == GrantsSpec => []GrantsInv
<1>1. GrantsCore => GrantsInv
  BY LoadIsReal, Zenon DEF GrantsCore, GrantsInv, DecisionsAreReal, DecisionsKept
<1>. QED  BY <1>1, CoreHolds, PTL

\* While saves have not overlapped, grants.json holds a whole table, whatever
\* crash or failed write cuts save_grants short.
THEOREM GrantsAreWhole == GrantsSpec => []SavedIsWhole
<1>1. GrantsCore => SavedIsWhole
  BY Zenon DEF GrantsCore
<1>. QED  BY <1>1, CoreHolds, PTL
=============================================================================
