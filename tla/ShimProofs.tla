----------------------------- MODULE ShimProofs -----------------------------
(***************************************************************************)
(* Proofs about Shim, for any number of events and of tool calls in them.  *)
(*                                                                         *)
(* The inductive invariant is ShimInv.  What a client has been sent is     *)
(* well-formed only because the thread's text_open and index say where in  *)
(* it the thread is: Stands and Leads give a stream a place, in a block or *)
(* between two, and each relay writes frames that lead from the place it   *)
(* is at to the one it notes.  A write may fail anywhere, so every prefix  *)
(* of those frames has to be in order too (LeadsPrefix, CutShort).         *)
(***************************************************************************)
EXTENDS Shim, TLAPS

-----------------------------------------------------------------------------
(* Sequences.                                                              *)

\* The length of a sequence, and its domain.
LEMMA SeqLen ==
  ASSUME NEW S, NEW s \in Seq(S)
  PROVE  Len(s) \in Nat /\ DOMAIN s = 1..Len(s) /\ s \in [1..Len(s) -> S]
  OBVIOUS

\* Only the empty sequence has no elements.
LEMMA SeqEmpty ==
  ASSUME NEW S
  PROVE  /\ << >> \in Seq(S) /\ Len(<< >>) = 0
         /\ \A s \in Seq(S) : s # << >> => Len(s) \in Nat \ {0}
  OBVIOUS

\* The elements of a concatenation.
LEMMA SeqConcat ==
  ASSUME NEW S, NEW s \in Seq(S), NEW t \in Seq(S)
  PROVE  /\ s \o t \in Seq(S) /\ Len(s \o t) = Len(s) + Len(t)
         /\ \A i \in 1..(Len(s) + Len(t)) :
              (s \o t)[i] = IF i <= Len(s) THEN s[i] ELSE t[i - Len(s)]
  OBVIOUS

\* The empty sequence adds nothing.
LEMMA SeqConcatEmpty ==
  ASSUME NEW S, NEW s \in Seq(S)
  PROVE  s \o << >> = s /\ << >> \o s = s
  OBVIOUS

\* The first elements of a sequence.
LEMMA Prefix ==
  ASSUME NEW S, NEW s \in Seq(S), NEW k \in 0..Len(s)
  PROVE  /\ SubSeq(s, 1, k) \in Seq(S) /\ Len(SubSeq(s, 1, k)) = k
         /\ \A i \in 1..k : SubSeq(s, 1, k)[i] = s[i]
  OBVIOUS

\* Sequences with the same elements are the same.
LEMMA SeqSame ==
  ASSUME NEW S, NEW s \in Seq(S), NEW t \in Seq(S), Len(s) = Len(t),
         \A i \in 1..Len(s) : s[i] = t[i]
  PROVE  s = t
  OBVIOUS

-----------------------------------------------------------------------------
(* Frames about blocks.                                                    *)

Names == {"status", "start", "delta", "stop", "chunk", "[DONE]", "comment", "error", "message_start",
          "message_delta", "message_stop", "created", "completed", "failed"}
Frames == [event : Names, index : Nat]
PartsOf(o) == {i \in DOMAIN o : IsPart(o[i])}

\* StreamWellFormed's first two conjuncts, of any sequence of frames.
InBlocks(o) ==
  /\ \A i \in PartsOf(o) : (\A k \in PartsOf(o) : i <= k) => o[i] = Frame("start", 0)
  /\ \A i, j \in PartsOf(o) : i < j /\ (\A k \in PartsOf(o) : k <= i \/ j <= k) =>
                                MayFollow(o[i], o[j])

\* Where a stream is: in block n, or between blocks and the next one is n.
Places == {"in", "between"}
Enters(f, p, n) == IF p = "in" THEN f \in {Frame("delta", n), Frame("stop", n)}
                               ELSE f = Frame("start", n)
Exits(f, p, n) == IF f.event = "stop" THEN p = "between" /\ n = f.index + 1
                                      ELSE p = "in" /\ n = f.index
Stands(o, p, n) ==
  \/ PartsOf(o) = {} /\ p = "between" /\ n = 0
  \/ \E i \in PartsOf(o) : (\A k \in PartsOf(o) : k <= i) /\ Exits(o[i], p, n)

\* The frames u are about blocks and lead from one place to another.
Leads(u, p, n, q, m) ==
  /\ u \in Seq(Frames)
  /\ \A k \in DOMAIN u : IsPart(u[k])
  /\ \A k \in DOMAIN u : IF k = 1 THEN Enters(u[1], p, n) ELSE MayFollow(u[k - 1], u[k])
  /\ IF u = << >> THEN p = q /\ m = n ELSE Exits(u[Len(u)], q, m)

\* A frame about a block is one.
LEMMA PartFrames ==
  ASSUME NEW n \in Nat
  PROVE  /\ Frame("start", n) \in Frames /\ IsPart(Frame("start", n))
         /\ Frame("delta", n) \in Frames /\ IsPart(Frame("delta", n))
         /\ Frame("stop", n) \in Frames /\ IsPart(Frame("stop", n))
         /\ Frame("start", n).event = "start" /\ Frame("start", n).index = n
         /\ Frame("delta", n).event = "delta" /\ Frame("delta", n).index = n
         /\ Frame("stop", n).event = "stop" /\ Frame("stop", n).index = n
<1>1. ASSUME NEW x \in Names
      PROVE  Frame(x, n) \in Frames /\ Frame(x, n).event = x /\ Frame(x, n).index = n
  BY Zenon DEF Frame, Frames
<1>2. "start" \in Names /\ "delta" \in Names /\ "stop" \in Names
  BY Zenon DEF Names
<1>. QED  BY <1>1, <1>2, Zenon DEF IsPart

\* What may come after a frame is what may come where it leads.
LEMMA FollowsWhereItLeads ==
  ASSUME NEW f \in Frames, NEW g \in Frames, NEW p \in Places, NEW n \in Nat,
         IsPart(f), Exits(f, p, n), Enters(g, p, n)
  PROVE  MayFollow(f, g)
  BY Zenon DEF Exits, Enters, MayFollow, Places, IsPart, Frames

\* Frames that lead from where the stream stands leave it in blocks.
LEMMA LeadsOn ==
  ASSUME NEW o \in Seq(Frames), NEW u, NEW p \in Places, NEW n \in Nat,
         NEW q \in Places, NEW m \in Nat,
         InBlocks(o), Stands(o, p, n), Leads(u, p, n, q, m)
  PROVE  o \o u \in Seq(Frames) /\ InBlocks(o \o u) /\ Stands(o \o u, q, m)
<1>. DEFINE w == o \o u
            L == Len(o)
            U == Len(u)
<1>1. /\ u \in Seq(Frames) /\ DOMAIN o = 1..L /\ DOMAIN u = 1..U /\ L \in Nat /\ U \in Nat
      /\ \A i \in 1..L : o[i] \in Frames
      /\ \A i \in 1..U : u[i] \in Frames
  BY SeqLen, Zenon DEF Leads
<1>2. /\ w \in Seq(Frames) /\ DOMAIN w = 1..(L + U) /\ Len(w) = L + U
      /\ \A i \in 1..L : w[i] = o[i]
      /\ \A i \in 1..U : w[L + i] = u[i]
  <2>1. /\ w \in Seq(Frames) /\ Len(w) = L + U
        /\ \A i \in 1..(L + U) : w[i] = IF i <= L THEN o[i] ELSE u[i - L]
    BY <1>1, SeqConcat, Zenon
  <2>2. DOMAIN w = 1..(L + U)
    BY <2>1, SeqLen, Zenon
  <2>. HIDE DEF w
  <2>3. \A i \in 1..L : i \in 1..(L + U) /\ w[i] = o[i]
    BY <1>1, <2>1
  <2>4. ASSUME NEW i \in 1..U  PROVE w[L + i] = u[i]
    <3>1. L + i \in 1..(L + U) /\ ~ (L + i <= L) /\ (L + i) - L = i
      BY <1>1
    <3>. QED  BY <2>1, <3>1, Zenon
  <2>. QED  BY <2>1, <2>2, <2>3, <2>4, Zenon
<1>. HIDE DEF w, L, U
<1>3. /\ \A i \in 1..U : IsPart(u[i])
      /\ U > 0 => Enters(u[1], p, n)
      /\ \A i \in 2..U : MayFollow(u[i - 1], u[i])
      /\ U = 0 => p = q /\ m = n /\ u = << >>
      /\ U > 0 => Exits(u[U], q, m)
  <2>1. \A i \in 1..U : IsPart(u[i]) /\ (i = 1 => Enters(u[1], p, n)) /\ (i # 1 => MayFollow(u[i - 1], u[i]))
    BY <1>1, Zenon DEF Leads
  <2>2. u = << >> <=> U = 0
    BY <1>1, SeqEmpty, Zenon DEF U
  <2>3. IF u = << >> THEN p = q /\ m = n ELSE Exits(u[U], q, m)
    BY Zenon DEF Leads, U
  <2>4. (U > 0 => 1 \in 1..U) /\ \A i \in 2..U : i \in 1..U /\ i # 1
    BY <1>1
  <2>. QED  BY <1>1, <2>1, <2>2, <2>3, <2>4
<1>4. /\ \A i \in 1..L : i \in PartsOf(w) <=> i \in PartsOf(o)
      /\ \A i \in 1..U : L + i \in PartsOf(w)
      /\ PartsOf(o) \subseteq 1..L
      /\ \A i \in PartsOf(w) : i \in 1..L \/ \E k \in 1..U : i = L + k
  <2>1. \A i \in 1..L : i \in PartsOf(w) <=> i \in PartsOf(o)
    BY <1>1, <1>2 DEF PartsOf
  <2>2. ASSUME NEW i \in 1..U  PROVE L + i \in PartsOf(w)
    <3>1. L + i \in 1..(L + U)
      BY <1>1
    <3>. QED  BY <1>2, <1>3, <3>1, Zenon DEF PartsOf
  <2>3. \A i \in 1..(L + U) : i \in 1..L \/ (i - L \in 1..U /\ i = L + (i - L))
    BY <1>1
  <2>. QED  BY <1>1, <1>2, <2>1, <2>2, <2>3, Zenon DEF PartsOf
<1>5. ASSUME NEW i \in PartsOf(w), \A k \in PartsOf(w) : i <= k
      PROVE  w[i] = Frame("start", 0)
  <2>1. CASE i \in 1..L
    BY <1>2, <1>4, <1>5, <2>1, Zenon DEF InBlocks
  <2>2. CASE i \notin 1..L
    <3>1. PICK k \in 1..U : i = L + k
      BY <1>4, <2>2, Zenon
    <3>2. L + 1 \in PartsOf(w) /\ U > 0
      BY <1>1, <1>4, <3>1
    <3>3. k = 1
      BY <1>1, <1>5, <3>1, <3>2
    <3>4. PartsOf(o) = {}
      <4>1. \A j \in PartsOf(o) : j \in PartsOf(w) /\ j <= L
        BY <1>1, <1>4
      <4>2. \A j \in PartsOf(o) : L + 1 <= j
        BY <1>5, <3>1, <3>3, <4>1, Zenon
      <4>3. \A j \in PartsOf(o) : j \in Nat
        BY <1>1, <1>4
      <4>. QED  BY <1>1, <4>1, <4>2, <4>3
    <3>5. p = "between" /\ n = 0
      BY <3>4, Zenon DEF Stands
    <3>. QED  BY <1>2, <1>3, <3>1, <3>2, <3>3, <3>5, Zenon DEF Enters
  <2>. QED  BY <2>1, <2>2, Zenon
<1>6. ASSUME NEW i \in PartsOf(w), NEW j \in PartsOf(w), i < j,
             \A k \in PartsOf(w) : k <= i \/ j <= k
      PROVE  MayFollow(w[i], w[j])
  <2>1. CASE j \in 1..L
    <3>1. i \in 1..L
      <4>1. i \in 1..L \/ \E k \in 1..U : i = L + k
        BY <1>4, Zenon
      <4>2. \A k \in 1..U : ~ (L + k < j)
        BY <1>1, <2>1
      <4>. QED  BY <1>6, <4>1, <4>2, Zenon
    <3>. QED  BY <1>2, <1>4, <1>6, <2>1, <3>1, Zenon DEF InBlocks
  <2>2. CASE j \notin 1..L
    <3>1. PICK k \in 1..U : j = L + k
      BY <1>4, <2>2, Zenon
    <3>2. CASE i \in 1..L
      <4>1. L + 1 \in PartsOf(w) /\ U > 0
        BY <1>1, <1>4, <3>1
      <4>2. k = 1
        BY <1>1, <1>6, <3>1, <3>2, <4>1
      <4>3. i \in PartsOf(o) /\ \A l \in PartsOf(o) : l <= i
        <5>1. \A l \in PartsOf(o) : l \in PartsOf(w) /\ l \in 1..L
          BY <1>4, Zenon
        <5>. QED  BY <1>1, <1>4, <1>6, <3>1, <3>2, <5>1
      <4>4. PICK l \in PartsOf(o) : (\A h \in PartsOf(o) : h <= l) /\ Exits(o[l], p, n)
        BY <4>3, Zenon DEF Stands
      <4>5. l = i
        <5>1. l <= i /\ i <= l /\ l \in Nat /\ i \in Nat
          BY <1>1, <1>4, <3>2, <4>3, <4>4
        <5>. QED  BY <5>1
      <4>6. IsPart(o[i]) /\ o[i] \in Frames /\ u[1] \in Frames
        BY <1>1, <3>2, <4>1, <4>3 DEF PartsOf
      <4>7. MayFollow(o[i], u[1])
        BY <1>3, <4>1, <4>4, <4>5, <4>6, FollowsWhereItLeads, Zenon
      <4>. QED  BY <1>2, <3>1, <3>2, <4>1, <4>2, <4>7, Zenon
    <3>3. CASE i \notin 1..L
      <4>1. PICK l \in 1..U : i = L + l
        BY <1>4, <3>3, Zenon
      <4>2. k = l + 1
        <5>1. l + 1 \in 1..U /\ l < k
          BY <1>1, <1>6, <3>1, <4>1
        <5>2. L + (l + 1) <= L + l \/ L + k <= L + (l + 1)
          BY <1>4, <1>6, <3>1, <4>1, <5>1, Zenon
        <5>. QED  BY <1>1, <5>1, <5>2
      <4>3. k \in 2..U /\ k - 1 = l
        BY <1>1, <4>1, <4>2, <3>1
      <4>. QED  BY <1>2, <1>3, <3>1, <4>1, <4>3, Zenon
    <3>. QED  BY <3>2, <3>3, Zenon
  <2>. QED  BY <2>1, <2>2, Zenon
<1>7. Stands(w, q, m)
  <2>1. CASE U = 0
    <3>1. w = o
      BY <1>3, <2>1, SeqConcatEmpty, Zenon DEF w
    <3>. QED  BY <1>3, <2>1, <3>1, Zenon
  <2>2. CASE U # 0
    <3>1. U \in 1..U /\ L + U \in PartsOf(w) /\ w[L + U] = u[U] /\ U > 0
      BY <1>1, <1>2, <1>4, <2>2
    <3>2. \A k \in PartsOf(w) : k <= L + U
      BY <1>1, <1>2 DEF PartsOf
    <3>. QED  BY <1>3, <3>1, <3>2, Zenon DEF Stands
  <2>. QED  BY <2>1, <2>2, Zenon
<1>. QED  BY <1>2, <1>5, <1>6, <1>7, Zenon DEF InBlocks, w

\* Frames about something else change nothing of that.
LEMMA PlainOn ==
  ASSUME NEW o \in Seq(Frames), NEW v \in Seq(Frames), NEW p \in Places, NEW n \in Nat,
         InBlocks(o), Stands(o, p, n), \A k \in DOMAIN v : ~ IsPart(v[k])
  PROVE  o \o v \in Seq(Frames) /\ InBlocks(o \o v) /\ Stands(o \o v, p, n)
<1>. DEFINE w == o \o v
            L == Len(o)
            V == Len(v)
<1>1. DOMAIN o = 1..L /\ DOMAIN v = 1..V /\ L \in Nat /\ V \in Nat
  BY SeqLen, Zenon
<1>2. /\ w \in Seq(Frames) /\ DOMAIN w = 1..(L + V)
      /\ \A i \in 1..(L + V) : w[i] = IF i <= L THEN o[i] ELSE v[i - L]
  <2>1. /\ w \in Seq(Frames) /\ Len(w) = L + V
        /\ \A i \in 1..(L + V) : w[i] = IF i <= L THEN o[i] ELSE v[i - L]
    BY <1>1, SeqConcat, Zenon
  <2>2. DOMAIN w = 1..(L + V)
    BY <2>1, SeqLen, Zenon
  <2>. QED  BY <2>1, <2>2, Zenon
<1>. HIDE DEF w, L, V
<1>3. \A i \in 1..(L + V) : i \in 1..L \/ (i - L \in 1..V /\ ~ (i <= L))
  BY <1>1
<1>4. \A i \in 1..L : i \in 1..(L + V) /\ i <= L
  BY <1>1
<1>5. PartsOf(w) = PartsOf(o) /\ \A i \in PartsOf(o) : w[i] = o[i]
  BY <1>1, <1>2, <1>3, <1>4, Zenon DEF PartsOf
<1>6. InBlocks(w)
  BY <1>5, Zenon DEF InBlocks
<1>7. Stands(w, p, n)
  BY <1>5, Zenon DEF Stands
<1>. QED  BY <1>2, <1>6, <1>7, Zenon DEF w

\* One way after the other is a way.
LEMMA LeadsConcat ==
  ASSUME NEW p \in Places, NEW n \in Nat, NEW q \in Places, NEW m \in Nat,
         NEW r \in Places, NEW l \in Nat, NEW u, NEW v,
         Leads(u, p, n, q, m), Leads(v, q, m, r, l)
  PROVE  Leads(u \o v, p, n, r, l)
<1>. DEFINE w == u \o v
            U == Len(u)
            V == Len(v)
<1>1. /\ u \in Seq(Frames) /\ v \in Seq(Frames) /\ U \in Nat /\ V \in Nat
      /\ DOMAIN u = 1..U /\ DOMAIN v = 1..V
      /\ \A i \in 1..U : u[i] \in Frames
      /\ \A i \in 1..V : v[i] \in Frames
  BY SeqLen, Zenon DEF Leads
<1>2. CASE u = << >>
  <2>1. w = v
    BY <1>1, <1>2, SeqConcatEmpty, Zenon
  <2>2. p = q /\ n = m
    BY <1>2, Zenon DEF Leads
  <2>. QED  BY <2>1, <2>2, Zenon
<1>3. CASE v = << >>
  <2>1. w = u
    BY <1>1, <1>3, SeqConcatEmpty, Zenon
  <2>2. q = r /\ m = l
    BY <1>3, Zenon DEF Leads
  <2>. QED  BY <2>1, <2>2, Zenon
<1>4. CASE u # << >> /\ v # << >>
  <2>1. U > 0 /\ V > 0
    BY <1>1, <1>4, SeqEmpty
  <2>2. /\ w \in Seq(Frames) /\ Len(w) = U + V /\ DOMAIN w = 1..(U + V)
        /\ \A i \in 1..(U + V) : w[i] = IF i <= U THEN u[i] ELSE v[i - U]
    <3>1. /\ w \in Seq(Frames) /\ Len(w) = U + V
          /\ \A i \in 1..(U + V) : w[i] = IF i <= U THEN u[i] ELSE v[i - U]
      BY <1>1, SeqConcat, Zenon
    <3>2. DOMAIN w = 1..(U + V)
      BY <3>1, SeqLen, Zenon
    <3>. QED  BY <3>1, <3>2, Zenon
  <2>3. /\ \A k \in 1..U : /\ IsPart(u[k])
                          /\ IF k = 1 THEN Enters(u[1], p, n) ELSE MayFollow(u[k - 1], u[k])
        /\ \A k \in 1..V : /\ IsPart(v[k])
                          /\ IF k = 1 THEN Enters(v[1], q, m) ELSE MayFollow(v[k - 1], v[k])
    BY <1>1, Zenon DEF Leads
  <2>4. Exits(u[U], q, m) /\ Exits(v[V], r, l)
    BY <1>4, Zenon DEF Leads
  <2>. HIDE DEF w, U, V
  <2>5. MayFollow(u[U], v[1])
    <3>1. U \in 1..U /\ 1 \in 1..V
      BY <1>1, <2>1
    <3>. QED  BY <1>1, <2>3, <2>4, <3>1, FollowsWhereItLeads, Zenon
  <2>6. ASSUME NEW k \in 1..(U + V)
        PROVE  /\ IsPart(w[k])
               /\ IF k = 1 THEN Enters(w[1], p, n) ELSE MayFollow(w[k - 1], w[k])
    <3>1. CASE k <= U
      <4>1. k \in 1..U /\ 1 \in 1..U /\ 1 \in 1..(U + V) /\ 1 <= U
        BY <1>1, <2>1, <3>1
      <4>2. k # 1 => k - 1 \in 1..(U + V) /\ k - 1 <= U
        BY <1>1, <3>1
      <4>. QED  BY <2>2, <2>3, <3>1, <4>1, <4>2, Zenon
    <3>2. CASE k = U + 1
      <4>1. /\ 1 \in 1..V /\ ~ (k <= U) /\ k - U = 1 /\ k - 1 = U /\ U \in 1..(U + V) /\ U <= U
            /\ k # 1
        BY <1>1, <2>1, <3>2
      <4>2. w[k] = v[1] /\ w[k - 1] = u[U]
        BY <2>2, <4>1, Zenon
      <4>. QED  BY <2>3, <2>5, <4>1, <4>2, Zenon
    <3>3. CASE ~ (k <= U) /\ k # U + 1
      <4>1. /\ k - U \in 1..V /\ k - U # 1 /\ k - 1 \in 1..(U + V) /\ ~ (k - 1 <= U)
            /\ (k - 1) - U = (k - U) - 1 /\ k # 1
        BY <1>1, <2>1, <3>3
      <4>2. w[k] = v[k - U] /\ w[k - 1] = v[(k - U) - 1]
        BY <2>2, <3>3, <4>1, Zenon
      <4>. QED  BY <2>3, <4>1, <4>2, Zenon
    <3>. QED  BY <3>1, <3>2, <3>3, Zenon
  <2>7. w[U + V] = v[V] /\ w # << >>
    <3>1. U + V \in 1..(U + V) /\ ~ (U + V <= U) /\ (U + V) - U = V /\ U + V # 0
      BY <1>1, <2>1
    <3>2. Len(w) # 0
      BY <2>2, <3>1, Zenon
    <3>. QED  BY <2>2, <3>1, <3>2, SeqEmpty, Zenon
  <2>. QED  BY <2>2, <2>4, <2>6, <2>7, Zenon DEF Leads, w
<1>. QED  BY <1>2, <1>3, <1>4, Zenon

\* A way that is cut short leads somewhere.
LEMMA LeadsPrefix ==
  ASSUME NEW p \in Places, NEW n \in Nat, NEW q \in Places, NEW m \in Nat, NEW u,
         Leads(u, p, n, q, m), NEW k \in 0..Len(u)
  PROVE  \E r \in Places, l \in Nat : Leads(SubSeq(u, 1, k), p, n, r, l)
<1>. DEFINE w == SubSeq(u, 1, k)
<1>1. /\ u \in Seq(Frames) /\ Len(u) \in Nat /\ DOMAIN u = 1..Len(u)
      /\ \A i \in 1..Len(u) : u[i] \in Frames
  BY SeqLen, Zenon DEF Leads
<1>2. /\ w \in Seq(Frames) /\ Len(w) = k /\ DOMAIN w = 1..k
      /\ \A i \in 1..k : w[i] = u[i]
  BY <1>1, Prefix, SeqLen
<1>. HIDE DEF w
<1>3. CASE k = 0
  <2>1. w = << >>
    BY <1>2, <1>3, SeqEmpty, Zenon
  <2>. QED  BY <1>2, <1>3, <2>1 DEF Leads, w
<1>4. CASE k # 0
  <2>. DEFINE r == IF u[k].event = "stop" THEN "between" ELSE "in"
              l == IF u[k].event = "stop" THEN u[k].index + 1 ELSE u[k].index
  <2>1. k \in 1..k /\ k \in 1..Len(u) /\ \A i \in 1..k : i \in 1..Len(u) /\ (i # 1 => i - 1 \in 1..k)
    BY <1>1, <1>4
  <2>2. r \in Places /\ l \in Nat /\ Exits(u[k], r, l)
    BY <1>1, <2>1 DEF Places, Exits, Frames
  <2>. HIDE DEF r, l
  <2>3. w # << >>
    BY <1>2, <1>4, SeqEmpty, Zenon
  <2>4. \A i \in 1..k : /\ IsPart(w[i])
                       /\ IF i = 1 THEN Enters(w[1], p, n) ELSE MayFollow(w[i - 1], w[i])
    BY <1>1, <1>2, <2>1, Zenon DEF Leads
  <2>5. Leads(w, p, n, r, l)
    BY <1>2, <2>1, <2>2, <2>3, <2>4, Zenon DEF Leads
  <2>. QED  BY <2>2, <2>5, Zenon DEF w
<1>. QED  BY <1>3, <1>4, Zenon

\* stream_tool_use, once for each call: blocks that follow each other.
LEMMA BlocksLead ==
  ASSUME NEW ids \in Seq(Nat), NEW n \in Nat
  PROVE  Leads(Blocks(ids, n), "between", n, "between", n + Len(ids))
<1>. DEFINE w == Blocks(ids, n)
            N == Len(ids)
<1>1. N \in Nat
  BY SeqLen, Zenon
<1>2. ASSUME NEW k \in 1..(3 * N)
      PROVE  \E a \in 0..(N - 1) :
               /\ \/ k = 3 * a + 1 /\ w[k] = Frame("start", n + a)
                  \/ k = 3 * a + 2 /\ w[k] = Frame("delta", n + a)
                  \/ k = 3 * a + 3 /\ w[k] = Frame("stop", n + a)
  <2>. DEFINE a == (k - 1) \div 3
              b == (k - 1) % 3
  <2>1. a \in 0..(N - 1) /\ b \in 0..2 /\ k = 3 * a + b + 1
    BY <1>1
  <2>2. w[k] = stream_tool_use(n + a)[1 + b]
    BY Zenon DEF Blocks
  <2>. HIDE DEF a, b, w
  <2>3. /\ b = 0 => 1 + b = 1 /\ k = 3 * a + 1
        /\ b = 1 => 1 + b = 2 /\ k = 3 * a + 2
        /\ b = 2 => 1 + b = 3 /\ k = 3 * a + 3
    BY <1>1, <2>1
  <2>4. b = 0 \/ b = 1 \/ b = 2
    BY <2>1
  <2>. QED  BY <2>1, <2>2, <2>3, <2>4 DEF stream_tool_use
<1>3. w \in Seq(Frames) /\ Len(w) = 3 * N /\ DOMAIN w = 1..(3 * N) /\ \A k \in 1..(3 * N) : IsPart(w[k])
  <2>1. ASSUME NEW k \in 1..(3 * N)  PROVE w[k] \in Frames /\ IsPart(w[k])
    <3>. HIDE DEF w
    <3>1. PICK a \in 0..(N - 1) : w[k] \in {Frame("start", n + a), Frame("delta", n + a), Frame("stop", n + a)}
      BY <1>2, Zenon
    <3>2. n + a \in Nat
      BY <1>1
    <3>. QED  BY <3>1, <3>2, PartFrames
  <2>2. w = [k \in 1..(3 * N) |-> w[k]]
    BY Zenon DEF Blocks
  <2>3. 3 * N \in Nat
    BY <1>1
  <2>. HIDE DEF w
  <2>4. w \in [1..(3 * N) -> Frames]
    BY <2>1, <2>2, Zenon
  <2>. QED  BY <2>1, <2>3, <2>4
<1>. HIDE DEF w, N
<1>5. ASSUME NEW k \in 1..(3 * N)
      PROVE  IF k = 1 THEN Enters(w[1], "between", n) ELSE MayFollow(w[k - 1], w[k])
  <2>1. PICK a \in 0..(N - 1) :
               /\ \/ k = 3 * a + 1 /\ w[k] = Frame("start", n + a)
                  \/ k = 3 * a + 2 /\ w[k] = Frame("delta", n + a)
                  \/ k = 3 * a + 3 /\ w[k] = Frame("stop", n + a)
    BY <1>2, Zenon
  <2>2. CASE k = 1
    <3>1. a = 0
      BY <1>1, <2>1, <2>2
    <3>2. w[k] = Frame("start", n + a) /\ n + a = n
      BY <1>1, <2>1, <2>2, <3>1
    <3>. QED  BY <2>2, <3>2, Zenon DEF Enters
  <2>3. CASE k # 1
    <3>1. k - 1 \in 1..(3 * N)
      BY <1>1, <2>3
    <3>2. PICK c \in 0..(N - 1) :
               /\ \/ k - 1 = 3 * c + 1 /\ w[k - 1] = Frame("start", n + c)
                  \/ k - 1 = 3 * c + 2 /\ w[k - 1] = Frame("delta", n + c)
                  \/ k - 1 = 3 * c + 3 /\ w[k - 1] = Frame("stop", n + c)
      BY <1>2, <3>1, Zenon
    <3>3. \/ w[k - 1] = Frame("start", n + c) /\ w[k] = Frame("delta", n + a) /\ a = c
          \/ w[k - 1] = Frame("delta", n + c) /\ w[k] = Frame("stop", n + a) /\ a = c
          \/ w[k - 1] = Frame("stop", n + c) /\ w[k] = Frame("start", n + a) /\ n + a = n + c + 1
      BY <1>1, <2>1, <3>2
    <3>4. n + a \in Nat /\ n + c \in Nat
      BY <1>1
    <3>5. ASSUME w[k - 1] = Frame("start", n + c) /\ w[k] = Frame("delta", n + a) /\ a = c  PROVE MayFollow(w[k - 1], w[k])
      BY <3>4, <3>5, PartFrames DEF MayFollow
    <3>6. ASSUME w[k - 1] = Frame("delta", n + c) /\ w[k] = Frame("stop", n + a) /\ a = c  PROVE MayFollow(w[k - 1], w[k])
      BY <3>4, <3>6, PartFrames DEF MayFollow
    <3>7. ASSUME w[k - 1] = Frame("stop", n + c) /\ w[k] = Frame("start", n + a) /\ n + a = n + c + 1  PROVE MayFollow(w[k - 1], w[k])
      <4>1. w[k - 1].event = "stop" /\ w[k - 1].index = n + c
        BY <3>4, <3>7, PartFrames
      <4>2. w[k] = Frame("start", w[k - 1].index + 1)
        BY <3>7, <4>1, Zenon
      <4>. QED  BY <4>1, <4>2, Zenon DEF MayFollow
    <3>. QED  BY <2>3, <3>3, <3>5, <3>6, <3>7, Zenon
  <2>. QED  BY <2>2, <2>3, Zenon
<1>6. IF w = << >> THEN n + N = n ELSE Exits(w[Len(w)], "between", n + N)
  <2>1. CASE N = 0
    <3>1. w = << >>
      BY <1>3, <2>1, SeqEmpty
    <3>. QED  BY <2>1, <3>1
  <2>2. CASE N # 0
    <3>1. 3 * N \in 1..(3 * N) /\ 3 * N # 0
      BY <1>1, <2>2
    <3>2. PICK a \in 0..(N - 1) :
               /\ \/ 3 * N = 3 * a + 1 /\ w[3 * N] = Frame("start", n + a)
                  \/ 3 * N = 3 * a + 2 /\ w[3 * N] = Frame("delta", n + a)
                  \/ 3 * N = 3 * a + 3 /\ w[3 * N] = Frame("stop", n + a)
      BY <1>2, <3>1, Zenon
    <3>3. w[3 * N] = Frame("stop", n + a) /\ n + N = n + a + 1
      BY <1>1, <3>2
    <3>4. w # << >>
      BY <1>3, <3>1, SeqEmpty, Zenon
    <3>. QED  BY <1>3, <3>3, <3>4 DEF Exits, Frame
  <2>. QED  BY <2>1, <2>2, Zenon
<1>. QED  BY <1>3, <1>5, <1>6, Zenon DEF Leads, w, N

-----------------------------------------------------------------------------
(* What a relay adds to the stream.                                        *)

HeadFirst(o) == \A i \in DOMAIN o : o[i].event = "status" <=> i = 1
FinalLast(o) == \A i \in DOMAIN o : o[i].event \in Final => i = Len(o)
NoFinal(o) == \A i \in DOMAIN o : o[i].event \notin Final

\* Frames of a stream after its head: a final one is the last.
Tame(t) == /\ t \in Seq(Frames) /\ FinalLast(t)
           /\ \A i \in DOMAIN t : t[i].event # "status"
Aside(t) == Tame(t) /\ \A i \in DOMAIN t : ~ IsPart(t[i])

\* Such frames keep the head the first and a final one the last.
LEMMA TameOn ==
  ASSUME NEW o \in Seq(Frames), NEW t, o # << >>, HeadFirst(o), NoFinal(o), Tame(t)
  PROVE  /\ o \o t \in Seq(Frames) /\ o \o t # << >> /\ (o \o t)[1] = o[1]
         /\ HeadFirst(o \o t) /\ FinalLast(o \o t)
         /\ NoFinal(t) => NoFinal(o \o t)
         /\ t # << >> => (o \o t)[Len(o \o t)] = t[Len(t)]
<1>. DEFINE w == o \o t
            L == Len(o)
            T == Len(t)
<1>1. t \in Seq(Frames) /\ L \in Nat /\ L # 0 /\ T \in Nat /\ DOMAIN o = 1..L /\ DOMAIN t = 1..T
  BY SeqLen, SeqEmpty, Zenon DEF Tame
<1>2. /\ w \in Seq(Frames) /\ Len(w) = L + T
      /\ \A i \in 1..(L + T) : w[i] = IF i <= L THEN o[i] ELSE t[i - L]
  BY <1>1, SeqConcat, Zenon
<1>3. DOMAIN w = 1..(L + T)
  BY <1>2, SeqLen, Zenon
<1>4. t # << >> => T # 0
  BY <1>1, SeqEmpty, Zenon
<1>. HIDE DEF w, L, T
<1>5. /\ \A i \in 1..(L + T) : (i <= L /\ i \in 1..L) \/ (~ (i <= L) /\ i - L \in 1..T /\ i # 1)
      /\ 1 \in 1..(L + T) /\ 1 <= L /\ 1 \in 1..L
  BY <1>1
<1>6. HeadFirst(w)
  BY <1>1, <1>2, <1>3, <1>5 DEF HeadFirst, Tame
<1>7. FinalLast(w)
  <2>1. SUFFICES ASSUME NEW i \in 1..(L + T), w[i].event \in Final
                 PROVE  i = L + T
    BY <1>2, <1>3, Zenon DEF FinalLast
  <2>2. ~ (i <= L)
    BY <1>1, <1>2, <1>5, <2>1, Zenon DEF NoFinal
  <2>3. i - L \in 1..T /\ t[i - L].event \in Final
    BY <1>2, <1>5, <2>1, <2>2, Zenon
  <2>4. i - L = T
    BY <1>1, <2>3, Zenon DEF Tame, FinalLast, T
  <2>. QED  BY <1>1, <2>4
<1>8. NoFinal(t) => NoFinal(w)
  BY <1>1, <1>2, <1>3, <1>5, Zenon DEF NoFinal
<1>9. ASSUME t # << >>  PROVE w[L + T] = t[T]
  <2>1. L + T \in 1..(L + T) /\ ~ (L + T <= L) /\ (L + T) - L = T
    BY <1>1, <1>4, <1>9
  <2>. QED  BY <1>2, <2>1, Zenon
<1>10. w # << >> /\ w[1] = o[1]
  <2>1. L + T # 0
    BY <1>1
  <2>. QED  BY <1>2, <1>5, <2>1, SeqEmpty, Zenon
<1>. QED  BY <1>2, <1>6, <1>7, <1>8, <1>9, <1>10, Zenon DEF w, T

\* Frames about blocks are such frames.
LEMMA LeadsTame ==
  ASSUME NEW u, NEW p, NEW n, NEW q, NEW m, Leads(u, p, n, q, m)
  PROVE  Tame(u) /\ NoFinal(u)
  BY Zenon DEF Leads, Tame, NoFinal, FinalLast, Final, IsPart

\* The order in which frames are put together does not matter.
LEMMA ConcatAssoc ==
  ASSUME NEW o \in Seq(Frames), NEW u \in Seq(Frames), NEW v \in Seq(Frames)
  PROVE  o \o (u \o v) = (o \o u) \o v
  OBVIOUS

\* The sequence w goes on from o, ends with v and stands at a place.
Extends(o, w, v, q, m) ==
  /\ w \in Seq(Frames) /\ w # << >> /\ w[1] = o[1]
  /\ HeadFirst(w) /\ InBlocks(w) /\ FinalLast(w) /\ Stands(w, q, m)
  /\ NoFinal(v) => NoFinal(w)
  /\ v # << >> => w[Len(w)] = v[Len(v)]

\* What a stream is after frames about blocks and others.
LEMMA Written ==
  ASSUME NEW o \in Seq(Frames), NEW u, NEW v, NEW p \in Places, NEW n \in Nat,
         NEW q \in Places, NEW m \in Nat,
         o # << >>, HeadFirst(o), InBlocks(o), NoFinal(o), Stands(o, p, n),
         Leads(u, p, n, q, m), Aside(v)
  PROVE  Extends(o, o \o (u \o v), v, q, m)
<1>1. Tame(u) /\ NoFinal(u) /\ Tame(v) /\ u \in Seq(Frames) /\ v \in Seq(Frames)
  BY LeadsTame, Zenon DEF Aside, Tame
<1>2. o \o (u \o v) = (o \o u) \o v
  BY <1>1, ConcatAssoc, Zenon
<1>. DEFINE x == o \o u
            w == x \o v
<1>3. x \in Seq(Frames) /\ x # << >> /\ x[1] = o[1] /\ HeadFirst(x) /\ NoFinal(x)
  BY <1>1, TameOn, Zenon
<1>4. InBlocks(x) /\ Stands(x, q, m)
  BY LeadsOn, Zenon
<1>. HIDE DEF x
<1>5. /\ w \in Seq(Frames) /\ w # << >> /\ w[1] = x[1] /\ HeadFirst(w) /\ FinalLast(w)
      /\ NoFinal(v) => NoFinal(w)
      /\ v # << >> => w[Len(w)] = v[Len(v)]
  BY <1>1, <1>3, TameOn, Zenon
<1>6. InBlocks(w) /\ Stands(w, q, m)
  BY <1>1, <1>3, <1>4, PlainOn, Zenon DEF Aside
<1>. QED  BY <1>2, <1>3, <1>5, <1>6, Zenon DEF x, Extends

\* Frames that were cut short are some of the ones about blocks, or all of
\* them and some of the others.
LEMMA CutShort ==
  ASSUME NEW u \in Seq(Frames), NEW v \in Seq(Frames), NEW k \in 0..(Len(u \o v) - 1)
  PROVE  \/ /\ k \in 0..Len(u)
            /\ SubSeq(u \o v, 1, k) = SubSeq(u, 1, k) \o << >>
         \/ /\ k - Len(u) \in 0..Len(v)
            /\ SubSeq(u \o v, 1, k) = u \o SubSeq(v, 1, k - Len(u))
<1>. DEFINE w == u \o v
<1>1. /\ w \in Seq(Frames) /\ Len(w) = Len(u) + Len(v) /\ Len(u) \in Nat /\ Len(v) \in Nat
      /\ \A i \in 1..(Len(u) + Len(v)) : w[i] = IF i <= Len(u) THEN u[i] ELSE v[i - Len(u)]
  BY SeqConcat, SeqLen, Zenon
<1>. HIDE DEF w
<1>2. k \in Nat /\ k \in 0..Len(w)
  BY <1>1 DEF w
<1>3. /\ SubSeq(w, 1, k) \in Seq(Frames) /\ Len(SubSeq(w, 1, k)) = k
      /\ \A i \in 1..k : SubSeq(w, 1, k)[i] = w[i]
  BY <1>1, <1>2, Prefix, Zenon
<1>4. CASE k <= Len(u)
  <2>1. k \in 0..Len(u)
    BY <1>1, <1>2, <1>4
  <2>2. /\ SubSeq(u, 1, k) \in Seq(Frames) /\ Len(SubSeq(u, 1, k)) = k
        /\ \A i \in 1..k : SubSeq(u, 1, k)[i] = u[i]
    BY <2>1, Prefix, Zenon
  <2>3. \A i \in 1..k : i \in 1..(Len(u) + Len(v)) /\ i <= Len(u)
    BY <1>1, <1>2, <1>4
  <2>4. SubSeq(w, 1, k) = SubSeq(u, 1, k)
    BY <1>1, <1>3, <2>2, <2>3, SeqSame, Zenon
  <2>. QED  BY <2>1, <2>2, <2>4, SeqConcatEmpty, Zenon DEF w
<1>5. CASE ~ (k <= Len(u))
  <2>. DEFINE j == k - Len(u)
  <2>1. j \in 0..Len(v) /\ j \in Nat /\ k = Len(u) + j
    BY <1>1, <1>2, <1>5
  <2>2. /\ SubSeq(v, 1, j) \in Seq(Frames) /\ Len(SubSeq(v, 1, j)) = j
        /\ \A i \in 1..j : SubSeq(v, 1, j)[i] = v[i]
    BY <2>1, Prefix, Zenon
  <2>3. /\ u \o SubSeq(v, 1, j) \in Seq(Frames) /\ Len(u \o SubSeq(v, 1, j)) = k
        /\ \A i \in 1..k : (u \o SubSeq(v, 1, j))[i] = IF i <= Len(u) THEN u[i] ELSE SubSeq(v, 1, j)[i - Len(u)]
    BY <2>1, <2>2, SeqConcat
  <2>4. \A i \in 1..k : i \in 1..(Len(u) + Len(v)) /\ (~ (i <= Len(u)) => i - Len(u) \in 1..j)
    BY <1>1, <2>1
  <2>. HIDE DEF j
  <2>5. \A i \in 1..k : SubSeq(w, 1, k)[i] = (u \o SubSeq(v, 1, j))[i]
    BY <1>1, <1>3, <2>2, <2>3, <2>4, Zenon
  <2>6. SubSeq(w, 1, k) = u \o SubSeq(v, 1, j)
    BY <1>3, <2>3, <2>5, SeqSame, Zenon
  <2>. QED  BY <2>1, <2>6, Zenon DEF w, j
<1>. QED  BY <1>4, <1>5, Zenon

-----------------------------------------------------------------------------
(* The inductive invariant.                                                *)

Early == {"main", "exit", "accept", "read", "serve", "parse", "open"}
Ready == {"hello", "attach", "generate"}

ShimTyped ==
  /\ at \in Early \cup Ready \cup {"poll", "event", "close", "end"}
  /\ request \in [door : {"none", "tcp", "unix"}, route : Turns \cup Asks \cup Plain \cup {"none"},
                  stream : BOOLEAN, token : BOOLEAN]
  /\ named \in [require_token : BOOLEAN, clients : BOOLEAN]
  /\ session \in {"none", "open", "closed", "dropped"}
  /\ hung \in BOOLEAN /\ broken \in BOOLEAN /\ lost \in BOOLEAN /\ abandoned \in BOOLEAN
  /\ text_open \in BOOLEAN /\ batched \in BOOLEAN
  /\ cancels \in Nat /\ late \in Nat /\ index \in Nat
  /\ passed_on \in Seq(Nat) /\ brought \in Seq(Nat)

\* Where the thread is, and what it has done by then.
Stage ==
  /\ at \in Early => session = "none"
  /\ at \in Ready \cup {"poll", "event", "close"} => session = "open"
  /\ session = "dropped" => lost
  /\ at = "end" => session # "open"
  /\ at \in Early \cup Ready =>
       /\ out = << >> /\ ~ broken /\ ~ lost /\ cancels = 0 /\ late = 0 /\ ~ abandoned
       /\ ~ text_open /\ index = 0 /\ passed_on = << >> /\ brought = << >>
  /\ request.stream => request.route \in Turns
  /\ at \in {"hello", "attach", "poll", "close"} => request.route \in Turns
  /\ at = "poll" => ~ request.stream
  /\ at \in {"poll", "event"} => ~ broken /\ ~ lost /\ (request.stream <=> out # << >>)
  /\ at \in {"close", "end"} => out # << >> \/ broken \/ lost \/ hung

\* Who asks, and whether they are still there.
Caller ==
  /\ at = "main" => ~ request.token
  /\ request.token => named.clients
  /\ (at \in {"parse", "open"} \/ session # "none") => (named.require_token => request.token)
  /\ abandoned => hung
  /\ cancels = IF abandoned THEN 1 ELSE 0
  /\ request.route \in Turns /\ ~ request.stream =>
       /\ late <= 1
       /\ cancels = 0 /\ at = "event" => late = 0
       /\ cancels = 0 /\ late = 1 => hung

InStep == request.route \in Turns /\ ~ (request.route = "chat" /\ batched) => passed_on = brought

Here == IF text_open THEN "in" ELSE "between"

\* The stream is as far as the thread is.
Streamed ==
  /\ out \in Seq(Frames) /\ HeadFirst(out) /\ InBlocks(out) /\ FinalLast(out)
  /\ at \notin {"close", "end"} => NoFinal(out)
  /\ ~ broken => Stands(out, Here, index)
  /\ (/\ request.stream /\ request.route # "chat" /\ at \in {"close", "end"}
      /\ ~ broken /\ ~ lost /\ out # << >> /\ out[1] = Status(200)) =>
        LastOut.event \in Final /\ (LastOut.event # "failed" => ~ text_open)

ShimInv == ShimTyped /\ Stage /\ Caller /\ InStep /\ Streamed

\* A reply of one head is in order.
LEMMA SoleHead ==
  ASSUME NEW n \in Nat
  PROVE  LET o == <<Status(n)>> IN
         /\ o \in Seq(Frames) /\ o # << >> /\ o[1] = Status(n) /\ Len(o) = 1
         /\ HeadFirst(o) /\ InBlocks(o) /\ NoFinal(o) /\ FinalLast(o) /\ Stands(o, "between", 0)
<1>. DEFINE o == <<Status(n)>>
<1>1. Status(n) \in Frames /\ Status(n).event = "status" /\ Status(n).index = n
  BY Zenon DEF Status, Frame, Frames, Names
<1>2. o \in Seq(Frames) /\ o # << >> /\ o[1] = Status(n) /\ DOMAIN o = {1} /\ Len(o) = 1
  BY <1>1
<1>. HIDE DEF o
<1>3. PartsOf(o) = {}
  BY <1>1, <1>2, Zenon DEF PartsOf, IsPart
<1>4. InBlocks(o) /\ Stands(o, "between", 0)
  BY <1>3, Zenon DEF InBlocks, Stands
<1>5. HeadFirst(o) /\ NoFinal(o) /\ FinalLast(o)
  BY <1>1, <1>2, Zenon DEF HeadFirst, NoFinal, FinalLast, Final
<1>. QED  BY <1>2, <1>4, <1>5, Zenon DEF o

\* So is one not begun.
LEMMA NoReply ==
  /\ << >> \in Seq(Frames) /\ HeadFirst(<< >>) /\ InBlocks(<< >>) /\ NoFinal(<< >>) /\ FinalLast(<< >>)
  /\ Stands(<< >>, "between", 0)
<1>1. PartsOf(<< >>) = {} /\ DOMAIN << >> = {}
  BY DEF PartsOf
<1>2. InBlocks(<< >>) /\ Stands(<< >>, "between", 0)
  BY <1>1, Zenon DEF InBlocks, Stands
<1>3. HeadFirst(<< >>) /\ NoFinal(<< >>) /\ FinalLast(<< >>)
  BY <1>1, Zenon DEF HeadFirst, NoFinal, FinalLast
<1>. QED  BY <1>2, <1>3

LEMMA QuietStreamed ==
  ASSUME ~ text_open', index' = 0,
         \/ out' = << >>
         \/ \E n \in Nat : out' = <<Status(n)>> /\ (n = 200 => ~ request'.stream)
  PROVE  Streamed'
<1>1. Here' = "between"
  BY Zenon DEF Here
<1>2. CASE out' = << >>
  BY <1>1, <1>2, NoReply, Zenon DEF Streamed
<1>3. ASSUME NEW n \in Nat, out' = <<Status(n)>>, n = 200 => ~ request'.stream
      PROVE  Streamed'
  <2>1. /\ out' \in Seq(Frames) /\ out' # << >> /\ out'[1] = Status(n)
        /\ HeadFirst(out') /\ InBlocks(out') /\ NoFinal(out') /\ FinalLast(out')
        /\ Stands(out', "between", 0)
    BY <1>3, SoleHead, Zenon
  <2>2. Status(n) = Status(200) => n = 200
    BY Zenon DEF Status, Frame
  <2>. QED  BY <1>1, <1>3, <2>1, <2>2, Zenon DEF Streamed
<1>. QED  BY <1>2, <1>3, Zenon

\* respond, when nothing was said before.
LEMMA Responded ==
  ASSUME NEW n \in Nat, out = << >>, Respond(n)
  PROVE  \/ out' = <<Status(n)>> /\ UNCHANGED broken
         \/ hung /\ broken' = TRUE /\ out' = << >>
  BY DEF Respond

\* A step before anything was relayed.
Begins ==
  /\ at \in Early \cup Ready /\ UNCHANGED <<hung, callerVars, blockVars, callVars>>
  /\ \/ UNCHANGED <<broken, out, lost>> /\ at' \in Early \cup Ready
     \/ at' = "end" /\ out' = << >> /\ (broken' \/ lost')
     \/ at' = "end" /\ \E n \in Nat : out' = <<Status(n)>> /\ (n = 200 => ~ request'.stream)

\* What such a step leaves alone.
LEMMA BeginsKeeps ==
  ASSUME ShimInv, Begins
  PROVE  /\ InStep' /\ Streamed'
         /\ cancels' = 0 /\ late' = 0 /\ ~ abandoned' /\ ~ text_open' /\ index' = 0
         /\ passed_on' = << >> /\ brought' = << >>
         /\ at' \in Early \cup Ready => out' = << >> /\ ~ broken' /\ ~ lost'
         /\ at' = "end" => out' # << >> \/ broken' \/ lost'
<1>1. /\ out = << >> /\ ~ broken /\ ~ lost /\ cancels = 0 /\ late = 0 /\ ~ abandoned
      /\ ~ text_open /\ index = 0 /\ passed_on = << >> /\ brought = << >>
  BY Zenon DEF Begins, ShimInv, Stage
<1>2. /\ cancels' = 0 /\ late' = 0 /\ ~ abandoned' /\ ~ text_open' /\ index' = 0
      /\ passed_on' = << >> /\ brought' = << >>
  BY <1>1, Zenon DEF Begins, callerVars, blockVars, callVars
<1>3. InStep'
  BY <1>2, Zenon DEF InStep
<1>4. \/ out' = << >>
      \/ \E n \in Nat : out' = <<Status(n)>> /\ (n = 200 => ~ request'.stream)
  BY <1>1, Zenon DEF Begins
<1>5. Streamed'
  BY <1>2, <1>4, QuietStreamed, Zenon
<1>6. \A n \in Nat : <<Status(n)>> # << >>
  BY SoleHead, Zenon
<1>7. "end" \notin Early \cup Ready
  BY Zenon DEF Early, Ready
<1>8. at' \in Early \cup Ready => out' = << >> /\ ~ broken' /\ ~ lost'
  BY <1>1, <1>7, Zenon DEF Begins
<1>9. at' = "end" => out' # << >> \/ broken' \/ lost'
  BY <1>6, <1>7, Zenon DEF Begins
<1>. QED  BY <1>2, <1>3, <1>5, <1>8, <1>9, Zenon

\* Stage and Caller after such a step, from what it does to the rest.
LEMMA BeginsInv ==
  ASSUME ShimInv, Begins, ShimTyped',
         at' \in Early => session' = "none",
         at' \in Ready => session' = "open",
         session' = "dropped" => lost',
         at' = "end" => session' # "open",
         request'.stream => request'.route \in Turns,
         at' \in {"hello", "attach"} => request'.route \in Turns,
         at' = "main" => ~ request'.token,
         request'.token => named'.clients,
         (at' \in {"parse", "open"} \/ session' # "none") => (named'.require_token => request'.token)
  PROVE  ShimInv'
<1>1. /\ InStep' /\ Streamed'
      /\ cancels' = 0 /\ late' = 0 /\ ~ abandoned' /\ ~ text_open' /\ index' = 0
      /\ passed_on' = << >> /\ brought' = << >>
      /\ at' \in Early \cup Ready => out' = << >> /\ ~ broken' /\ ~ lost'
      /\ at' = "end" => out' # << >> \/ broken' \/ lost'
  BY BeginsKeeps, Zenon
<1>2. at' \in Early \cup Ready \/ at' = "end"
  BY Zenon DEF Begins
<1>3. at' \notin {"poll", "event", "close"}
  BY <1>2, Zenon DEF Early, Ready
<1>4. Stage'
  BY <1>1, <1>2, <1>3, Zenon DEF Stage
<1>5. Caller'
  BY <1>1, <1>3 DEF Caller
<1>. QED  BY <1>1, <1>4, <1>5, Zenon DEF ShimInv

\* An answer is such a step.
LEMMA AnswerBegins ==
  ASSUME ShimInv, at \in Early \cup Ready, at' = "end", NEW n \in Nat, Respond(n),
         n = 200 => ~ request'.stream, UNCHANGED <<hung, callerVars, blockVars, callVars>>
  PROVE  Begins /\ broken' \in BOOLEAN
<1>1. out = << >> /\ ~ broken /\ broken \in BOOLEAN
  BY Zenon DEF ShimInv, Stage, ShimTyped
<1>2. \/ out' = <<Status(n)>> /\ UNCHANGED broken
      \/ hung /\ broken' = TRUE /\ out' = << >>
  BY <1>1, Responded, Zenon
<1>3. Begins
  BY <1>2, Zenon DEF Begins
<1>. QED  BY <1>1, <1>2, <1>3, Zenon

LEMMA StartInv ==
  ASSUME ShimInv, NEW tcp, NEW unix, NEW config, ShimStart(tcp, unix, config)
  PROVE  ShimInv'
<1>1. at = "main" /\ at' \in {"exit", "accept"}
  BY Zenon DEF ShimStart
<1>2. named' \in [require_token : BOOLEAN, clients : BOOLEAN]
  <2>1. \A a, b \in BOOLEAN : [require_token |-> a, clients |-> b] \in [require_token : BOOLEAN, clients : BOOLEAN]
    BY Zenon
  <2>2. \A S : (config \in S) \in BOOLEAN
    OBVIOUS
  <2>. QED  BY <2>1, <2>2, Zenon DEF ShimStart, Load
<1>3. UNCHANGED <<request, session, hung, broken, lost, callerVars, blockVars, callVars, out>>
  BY Zenon DEF ShimStart, Relay
<1>4. Begins
  BY <1>1, <1>3, Zenon DEF Begins, Early, Ready
<1>5. ShimTyped'
  BY <1>1, <1>2, <1>3 DEF ShimInv, ShimTyped, callerVars, blockVars, callVars, Early
<1>6. session' = "none" /\ ~ request'.token /\ (request'.stream => request'.route \in Turns)
  BY <1>1, <1>3, Zenon DEF ShimInv, Stage, Caller, Early
<1>7. at' \in Early /\ at' \notin Ready \cup {"end", "hello", "attach", "main", "parse", "open"}
  BY <1>1, Zenon DEF Early, Ready
<1>. QED  BY <1>4, <1>5, <1>6, <1>7, BeginsInv, Zenon

LEMMA AcceptInv ==
  ASSUME ShimInv, NEW door \in {"tcp", "unix"}, Accept(door)
  PROVE  ShimInv'
<1>1. at = "accept" /\ at' = "read"
  BY Zenon DEF Accept
<1>2. request' = [door |-> door, route |-> "none", stream |-> FALSE, token |-> FALSE]
  BY Zenon DEF Accept, Nobody
<1>3. UNCHANGED <<named, session, hung, broken, lost, callerVars, blockVars, callVars, out>>
  BY Zenon DEF Accept, Relay
<1>4. Begins
  BY <1>1, <1>3, Zenon DEF Begins, Early, Ready
<1>5. ShimTyped'
  BY <1>1, <1>2, <1>3 DEF ShimInv, ShimTyped, callerVars, blockVars, callVars, Early
<1>6. session' = "none" /\ ~ request'.token /\ ~ request'.stream
  BY <1>1, <1>2, <1>3, Zenon DEF ShimInv, Stage, Early
<1>7. at' \in Early /\ at' \notin Ready \cup {"end", "hello", "attach", "main", "parse", "open"}
  BY <1>1, Zenon DEF Early, Ready
<1>. QED  BY <1>4, <1>5, <1>6, <1>7, BeginsInv, Zenon

LEMMA ReadRequestInv ==
  ASSUME ShimInv, NEW route \in Turns \cup Asks \cup Plain, NEW stream \in BOOLEAN,
         NEW token \in BOOLEAN, stream => route \in Turns, ReadRequest(route, stream, token)
  PROVE  ShimInv'
<1>1. at = "read" /\ at' = "serve"
  BY Zenon DEF ReadRequest
<1>2. /\ named \in [require_token : BOOLEAN, clients : BOOLEAN]
      /\ request \in [door : {"none", "tcp", "unix"},
                      route : Turns \cup Asks \cup Plain \cup {"none"},
                      stream : BOOLEAN, token : BOOLEAN]
  BY Zenon DEF ShimInv, ShimTyped
<1>3. /\ request'.route = route /\ request'.stream = stream
      /\ request'.token = (token /\ named.clients)
      /\ request' \in [door : {"none", "tcp", "unix"},
                       route : Turns \cup Asks \cup Plain \cup {"none"},
                       stream : BOOLEAN, token : BOOLEAN]
  BY <1>2, Zenon DEF ReadRequest
<1>4. UNCHANGED <<named, session, hung, broken, lost, callerVars, blockVars, callVars, out>>
  BY Zenon DEF ReadRequest, Relay
<1>5. Begins
  BY <1>1, <1>4, Zenon DEF Begins, Early, Ready
<1>6. ShimTyped'
  BY <1>1, <1>3, <1>4 DEF ShimInv, ShimTyped, callerVars, blockVars, callVars, Early
<1>7. /\ session' = "none" /\ (request'.token => named'.clients)
      /\ request'.stream => request'.route \in Turns
  BY <1>1, <1>3, <1>4, Zenon DEF ShimInv, Stage, Early
<1>8. at' \in Early /\ at' \notin Ready \cup {"end", "hello", "attach", "main", "parse", "open"}
  BY <1>1, Zenon DEF Early, Ready
<1>. QED  BY <1>5, <1>6, <1>7, <1>8, BeginsInv, Zenon

LEMMA ReadFailsInv ==
  ASSUME ShimInv, ReadFails
  PROVE  ShimInv'
<1>1. /\ at = "read" /\ at' = "end" /\ broken' = TRUE
      /\ UNCHANGED <<named, request, session, hung, lost, callerVars, blockVars, callVars, out>>
  BY Zenon DEF ReadFails, Relay, threadVars
<1>2. at \in Early /\ at' \notin Early \cup Ready \cup {"hello", "attach", "main", "parse", "open"}
  BY <1>1, Zenon DEF Early, Ready
<1>3. session' = "none" /\ out' = << >>
  BY <1>1, <1>2, Zenon DEF ShimInv, Stage
<1>4. Begins
  BY <1>1, <1>2, <1>3, Zenon DEF Begins
<1>5. ShimTyped'
  BY <1>1 DEF ShimInv, ShimTyped, callerVars, blockVars, callVars
<1>6. /\ request'.token => named'.clients
      /\ request'.stream => request'.route \in Turns
  BY <1>1, Zenon DEF ShimInv, Stage, Caller
<1>. QED  BY <1>1, <1>2, <1>3, <1>4, <1>5, <1>6, BeginsInv, Zenon

\* What the steps before a session leave as it was.
LEMMA StillNobody ==
  ASSUME ShimInv, at \in {"serve", "parse", "open"}, UNCHANGED threadVars, UNCHANGED session
  PROVE  /\ at \in Early /\ session' = "none" /\ request' = request /\ named' = named
         /\ request'.token => named'.clients
         /\ request'.stream => request'.route \in Turns
<1>1. at \in Early
  BY Zenon DEF Early
<1>. QED  BY <1>1, Zenon DEF ShimInv, Stage, Caller, threadVars

LEMMA ServeInv ==
  ASSUME ShimInv, Serve
  PROVE  ShimInv'
<1>1. /\ at = "serve" /\ at' \in {"parse", "end"}
      /\ UNCHANGED <<threadVars, session, hung, lost, callerVars, blockVars, callVars>>
  BY Zenon DEF Serve, Relay
<1>2. /\ at \in Early /\ session' = "none" /\ request' = request /\ named' = named
      /\ request'.token => named'.clients
      /\ request'.stream => request'.route \in Turns
  BY <1>1, StillNobody, Zenon
<1>3. \A n \in Answers : n \in Nat /\ (n = 200 => ~ request'.stream)
  <2>. DEFINE unnamed == named.require_token /\ ~ request.token
              route == request.route
  <2>1. CASE unnamed
    <3>1. Answers = {401}
      BY <2>1, Zenon DEF Answers
    <3>. QED  BY <3>1
  <2>2. CASE ~ unnamed
    <3>1. Answers = IF route = "no such route" THEN {404} ELSE IF route = "health" THEN {200}
                    ELSE IF route = "models" THEN {200, 400} ELSE {}
      BY <2>2, Zenon DEF Answers
    <3>2. route \in {"health", "models"} => ~ request'.stream
      BY <1>2, Zenon DEF Turns
    <3>. HIDE DEF unnamed, route
    <3>3. CASE route = "no such route"
      <4>1. Answers = {404}
        BY <3>1, <3>3, Zenon
      <4>. QED  BY <4>1
    <3>4. CASE route = "health"
      <4>1. Answers = {200}
        BY <3>1, <3>4, ZenonT(40)
      <4>. QED  BY <3>2, <3>4, <4>1
    <3>5. CASE route = "models"
      <4>1. Answers = {200, 400}
        BY <3>1, <3>5, ZenonT(40)
      <4>. QED  BY <3>2, <3>5, <4>1
    <3>6. CASE route \notin {"no such route", "health", "models"}
      <4>1. Answers = {}
        BY <3>1, <3>6, Zenon
      <4>. QED  BY <4>1, Zenon
    <3>. QED  BY <3>3, <3>4, <3>5, <3>6, Zenon
  <2>. QED  BY <2>1, <2>2, Zenon
<1>4. CASE at' = "end" /\ \E n \in Answers : Respond(n)
  <2>1. Begins /\ broken' \in BOOLEAN
    BY <1>1, <1>2, <1>3, <1>4, AnswerBegins, Zenon
  <2>2. ShimTyped'
    BY <1>1, <1>4, <2>1 DEF ShimInv, ShimTyped, callerVars, blockVars, callVars, threadVars
  <2>3. at' \notin Early \cup Ready \cup {"hello", "attach", "main", "parse", "open"}
    BY <1>4, Zenon DEF Early, Ready
  <2>. QED  BY <1>2, <2>1, <2>2, <2>3, BeginsInv, Zenon
<1>5. CASE Answers = {} /\ at' = "parse" /\ UNCHANGED <<broken, out>>
  <2>1. Begins
    BY <1>1, <1>2, <1>5, Zenon DEF Begins, Early
  <2>2. ShimTyped'
    BY <1>1, <1>5 DEF ShimInv, ShimTyped, callerVars, blockVars, callVars, threadVars, Early
  <2>3. at' \notin Ready \cup {"hello", "attach", "main", "end"}
    BY <1>5, Zenon DEF Ready
  <2>4. named.require_token => request.token
    BY <1>5, Zenon DEF Answers
  <2>. QED  BY <1>2, <2>1, <2>2, <2>3, <2>4, BeginsInv, Zenon
<1>. QED  BY <1>4, <1>5, Zenon DEF Serve

LEMMA ParseBodyInv ==
  ASSUME ShimInv, ParseBody
  PROVE  ShimInv'
<1>1. /\ at = "parse" /\ at' \in {"open", "end"}
      /\ UNCHANGED <<threadVars, session, hung, lost, callerVars, blockVars, callVars>>
  BY Zenon DEF ParseBody, Relay
<1>2. /\ at \in Early /\ session' = "none" /\ request' = request /\ named' = named
      /\ request'.token => named'.clients
      /\ request'.stream => request'.route \in Turns
  BY <1>1, StillNobody, Zenon
<1>3. named.require_token => request.token
  BY <1>1, Zenon DEF ShimInv, Caller
<1>4. CASE at' = "end" /\ Respond(400)
  <2>1. Begins /\ broken' \in BOOLEAN
    BY <1>1, <1>2, <1>4, AnswerBegins
  <2>2. ShimTyped'
    BY <1>1, <1>4, <2>1 DEF ShimInv, ShimTyped, callerVars, blockVars, callVars, threadVars
  <2>3. at' \notin Early \cup Ready \cup {"hello", "attach", "main", "parse", "open"}
    BY <1>4, Zenon DEF Early, Ready
  <2>. QED  BY <1>2, <2>1, <2>2, <2>3, BeginsInv, Zenon
<1>5. CASE at' = "open" /\ UNCHANGED <<broken, out>>
  <2>1. Begins
    BY <1>1, <1>2, <1>5, Zenon DEF Begins, Early
  <2>2. ShimTyped'
    BY <1>1, <1>5 DEF ShimInv, ShimTyped, callerVars, blockVars, callVars, threadVars, Early
  <2>3. at' \notin Ready \cup {"hello", "attach", "main", "end"}
    BY <1>5, Zenon DEF Ready
  <2>. QED  BY <1>2, <1>3, <2>1, <2>2, <2>3, BeginsInv, Zenon
<1>. QED  BY <1>4, <1>5, Zenon DEF ParseBody

LEMMA OpenSessionInv ==
  ASSUME ShimInv, OpenSession
  PROVE  ShimInv'
<1>1. /\ at = "open" /\ UNCHANGED <<threadVars, hung, lost, callerVars, blockVars, callVars>>
  BY Zenon DEF OpenSession, Relay
<1>2. /\ at \in Early /\ session = "none" /\ request' = request /\ named' = named
      /\ request'.token => named'.clients
      /\ request'.stream => request'.route \in Turns
      /\ named'.require_token => request'.token
  BY <1>1, Zenon DEF ShimInv, Stage, Caller, threadVars, Early
<1>3. CASE /\ at' = "end" /\ UNCHANGED session
           /\ \E n \in {400} \cup (IF request.route \in Turns THEN {403} ELSE {}) : Respond(n)
  <2>1. PICK n \in Nat : n # 200 /\ Respond(n)
    BY <1>3
  <2>2. Begins /\ broken' \in BOOLEAN
    BY <1>1, <1>2, <1>3, <2>1, AnswerBegins
  <2>3. ShimTyped'
    BY <1>1, <1>3, <2>2 DEF ShimInv, ShimTyped, callerVars, blockVars, callVars, threadVars
  <2>4. at' \notin Early \cup Ready \cup {"hello", "attach", "main", "parse", "open"}
    BY <1>3, Zenon DEF Early, Ready
  <2>. QED  BY <1>2, <1>3, <2>2, <2>3, <2>4, BeginsInv, Zenon
<1>4. CASE /\ session' = "open" /\ UNCHANGED <<broken, out>>
           /\ at' = IF request.route \in Turns THEN "hello" ELSE "generate"
  <2>1. at' \in Ready /\ (at' \in {"hello", "attach"} => request'.route \in Turns)
    BY <1>2, <1>4, Zenon DEF Ready
  <2>2. Begins
    BY <1>1, <1>2, <1>4, <2>1, Zenon DEF Begins
  <2>3. ShimTyped'
    BY <1>1, <1>4, <2>1 DEF ShimInv, ShimTyped, callerVars, blockVars, callVars, threadVars
  <2>4. at' \notin Early \cup {"main", "end"}
    BY <2>1, Zenon DEF Early, Ready
  <2>. QED  BY <1>2, <1>4, <2>1, <2>2, <2>3, <2>4, BeginsInv, Zenon
<1>. QED  BY <1>3, <1>4, Zenon DEF OpenSession

\* What holds wherever a session is being prepared.
LEMMA HasSession ==
  ASSUME ShimInv, at \in Ready, UNCHANGED threadVars
  PROVE  /\ session = "open" /\ out = << >> /\ ~ broken /\ ~ lost
         /\ request' = request /\ named' = named
         /\ request'.token => named'.clients
         /\ request'.stream => request'.route \in Turns
         /\ named'.require_token => request'.token
         /\ at \in {"hello", "attach"} => request.route \in Turns
<1>1. at \in Early \cup Ready /\ at \in Ready \cup {"poll", "event", "close"}
  BY Zenon
<1>2. session # "none" /\ session = "open"
  BY <1>1, Zenon DEF ShimInv, Stage
<1>3. named.require_token => request.token
  BY <1>2, Zenon DEF ShimInv, Caller
<1>4. at \in {"hello", "attach"} => request.route \in Turns
  BY Zenon DEF ShimInv, Stage
<1>. QED  BY <1>1, <1>2, <1>3, <1>4, Zenon DEF ShimInv, Stage, Caller, threadVars

LEMMA DaemonGoneInv ==
  ASSUME ShimInv, DaemonGone
  PROVE  ShimInv'
<1>1. /\ at \in {"hello", "generate"} /\ at' = "end" /\ session' = "dropped" /\ lost' = TRUE
      /\ UNCHANGED <<threadVars, hung, callerVars, blockVars, callVars>>
  BY Zenon DEF DaemonGone, Reading
<1>2. at \in Ready /\ at' \notin Early \cup Ready \cup {"hello", "attach", "main", "parse", "open"}
  BY <1>1, Zenon DEF Early, Ready
<1>3. /\ session = "open" /\ out = << >> /\ ~ broken /\ ~ lost
      /\ request' = request /\ named' = named
      /\ request'.token => named'.clients
      /\ request'.stream => request'.route \in Turns
      /\ named'.require_token => request'.token
  BY <1>1, <1>2, HasSession, Zenon
<1>4. Begins /\ broken' \in BOOLEAN
  <2>1. CASE request.route \in Turns
    BY <1>1, <1>2, <1>3, <2>1, Zenon DEF Begins, DaemonGone, ShimInv, ShimTyped
  <2>2. CASE request.route \notin Turns
    <3>1. Respond(400) /\ 400 \in Nat /\ 400 # 200
      BY <2>2 DEF DaemonGone
    <3>. QED  BY <1>1, <1>2, <3>1, AnswerBegins
  <2>. QED  BY <2>1, <2>2, Zenon
<1>5. ShimTyped'
  BY <1>1, <1>4 DEF ShimInv, ShimTyped, callerVars, blockVars, callVars, threadVars
<1>. QED  BY <1>1, <1>2, <1>3, <1>4, <1>5, BeginsInv, Zenon

LEMMA SayHelloInv ==
  ASSUME ShimInv, SayHello
  PROVE  ShimInv'
<1>1. /\ at = "hello" /\ at' \in {"generate", "attach"}
      /\ UNCHANGED <<threadVars, session, hung, broken, lost, callerVars, blockVars, callVars, out>>
  BY Zenon DEF SayHello, Relay
<1>2. at \in Ready /\ at' \in Ready /\ at' \notin Early \cup {"end", "main", "parse", "open"}
  BY <1>1, Zenon DEF Early, Ready
<1>3. /\ session = "open" /\ out = << >> /\ ~ broken /\ ~ lost
      /\ request' = request /\ named' = named
      /\ request'.token => named'.clients
      /\ request'.stream => request'.route \in Turns
      /\ named'.require_token => request'.token
      /\ request.route \in Turns
  BY <1>1, <1>2, HasSession, Zenon
<1>4. Begins
  BY <1>1, <1>2, Zenon DEF Begins
<1>5. ShimTyped'
  BY <1>1, <1>2 DEF ShimInv, ShimTyped, callerVars, blockVars, callVars, threadVars
<1>. QED  BY <1>1, <1>2, <1>3, <1>4, <1>5, BeginsInv, Zenon

LEMMA AttachImagesInv ==
  ASSUME ShimInv, AttachImages
  PROVE  ShimInv'
<1>1. /\ at = "attach" /\ at \in Ready
      /\ UNCHANGED <<threadVars, hung, callerVars, blockVars, callVars>>
  BY Zenon DEF AttachImages, Reading, Ready
<1>2. /\ session = "open" /\ out = << >> /\ ~ broken /\ ~ lost
      /\ request' = request /\ named' = named
      /\ request'.token => named'.clients
      /\ request'.stream => request'.route \in Turns
      /\ named'.require_token => request'.token
  BY <1>1, HasSession, Zenon
<1>3. CASE at' = "generate" /\ UNCHANGED <<session, broken, lost, out>>
  <2>1. at' \in Ready /\ at' \notin Early \cup {"end", "main", "parse", "open", "hello", "attach"}
    BY <1>3, Zenon DEF Early, Ready
  <2>2. Begins
    BY <1>1, <1>3, <2>1, Zenon DEF Begins
  <2>3. ShimTyped'
    BY <1>1, <1>3, <2>1 DEF ShimInv, ShimTyped, callerVars, blockVars, callVars, threadVars
  <2>. QED  BY <1>2, <1>3, <2>1, <2>2, <2>3, BeginsInv, Zenon
<1>4. ASSUME at' = "end", session' \in {"closed", "dropped"}, lost' \in BOOLEAN,
             session' = "dropped" => lost', Begins, broken' \in BOOLEAN
      PROVE  ShimInv'
  <2>1. at' \notin Early \cup Ready \cup {"hello", "attach", "main", "parse", "open"}
    BY <1>4, Zenon DEF Early, Ready
  <2>2. ShimTyped'
    BY <1>1, <1>4 DEF ShimInv, ShimTyped, callerVars, blockVars, callVars, threadVars
  <2>. QED  BY <1>2, <1>4, <2>1, <2>2, BeginsInv, Zenon
<1>5. CASE at' = "end" /\ session' = "closed" /\ Respond(400) /\ UNCHANGED lost
  <2>1. Begins /\ broken' \in BOOLEAN
    BY <1>1, <1>5, AnswerBegins
  <2>2. lost' \in BOOLEAN
    BY <1>5, Zenon DEF ShimInv, ShimTyped
  <2>. QED  BY <1>4, <1>5, <2>1, <2>2, Zenon
<1>6. CASE at' = "end" /\ session' = "dropped" /\ lost' = TRUE /\ UNCHANGED <<broken, out>>
  <2>1. Begins
    BY <1>1, <1>2, <1>6, Zenon DEF Begins
  <2>2. broken' \in BOOLEAN
    BY <1>6, Zenon DEF ShimInv, ShimTyped
  <2>. QED  BY <1>4, <1>6, <2>1, <2>2, Zenon
<1>. QED  BY <1>3, <1>5, <1>6, Zenon DEF AttachImages

-----------------------------------------------------------------------------
(* The relays keep it.                                                     *)

\* A stream went on to a place and ended with v, or was cut short.
Wrote(v, next, q, m) ==
  /\ out' \in Seq(Frames) /\ out' # << >> /\ out'[1] = out[1]
  /\ HeadFirst(out') /\ InBlocks(out') /\ FinalLast(out')
  /\ \/ /\ at' = next /\ broken' = broken /\ Stands(out', q, m)
        /\ NoFinal(v) => NoFinal(out')
        /\ v # << >> => out'[Len(out')] = v[Len(v)]
     \/ hung /\ broken' = TRUE /\ at' = "close"

\* What a stream looks like after Stream, whole or cut short.
LEMMA StreamStep ==
  ASSUME out \in Seq(Frames), out # << >>, HeadFirst(out), InBlocks(out), NoFinal(out),
         NEW p \in Places, NEW n \in Nat, Stands(out, p, n),
         NEW q \in Places, NEW m \in Nat, NEW u, NEW v, Leads(u, p, n, q, m), Aside(v),
         NEW next, Stream(u \o v, next)
  PROVE  Wrote(v, next, q, m)
<1>1. u \in Seq(Frames) /\ v \in Seq(Frames)
  BY Zenon DEF Leads, Aside, Tame
<1>2. CASE out' = out \o (u \o v) /\ at' = next /\ UNCHANGED broken
  <2>1. Extends(out, out \o (u \o v), v, q, m)
    BY Written, Zenon
  <2>. QED  BY <1>2, <2>1, Zenon DEF Extends, Wrote
<1>3. ASSUME hung, broken' = TRUE, at' = "close",
             NEW k \in 0..(Len(u \o v) - 1), out' = out \o SubSeq(u \o v, 1, k)
      PROVE  /\ out' \in Seq(Frames) /\ out' # << >> /\ out'[1] = out[1]
             /\ HeadFirst(out') /\ InBlocks(out') /\ FinalLast(out')
  <2>1. CASE k \in 0..Len(u) /\ SubSeq(u \o v, 1, k) = SubSeq(u, 1, k) \o << >>
    <3>1. PICK r \in Places, l \in Nat : Leads(SubSeq(u, 1, k), p, n, r, l)
      BY <2>1, LeadsPrefix, Zenon
    <3>2. Aside(<< >>)
      BY NoReply DEF Aside, Tame
    <3>3. Extends(out, out \o (SubSeq(u, 1, k) \o << >>), << >>, r, l)
      BY <3>1, <3>2, Written, Zenon
    <3>. QED  BY <1>3, <2>1, <3>3, Zenon DEF Extends
  <2>2. CASE /\ k - Len(u) \in 0..Len(v)
             /\ SubSeq(u \o v, 1, k) = u \o SubSeq(v, 1, k - Len(u))
    <3>. DEFINE j == k - Len(u)
                y == SubSeq(v, 1, j)
    <3>1. /\ j \in Nat /\ j <= Len(v) /\ Len(v) \in Nat /\ DOMAIN v = 1..Len(v)
          /\ y \in Seq(Frames) /\ Len(y) = j /\ DOMAIN y = 1..j
          /\ \A i \in 1..j : y[i] = v[i]
      <4>1. j \in 0..Len(v) /\ Len(v) \in Nat /\ DOMAIN v = 1..Len(v)
        BY <1>1, <2>2, SeqLen, Zenon
      <4>2. y \in Seq(Frames) /\ Len(y) = j /\ \A i \in 1..j : y[i] = v[i]
        BY <1>1, <4>1, Prefix, Zenon
      <4>3. DOMAIN y = 1..j
        BY <4>2, SeqLen, Zenon
      <4>. HIDE DEF j, y
      <4>. QED  BY <4>1, <4>2, <4>3
    <3>. HIDE DEF j, y
    <3>2. \A i \in DOMAIN y : i \in DOMAIN v /\ y[i] = v[i]
      BY <3>1
    <3>3. \A i \in DOMAIN y : y[i].event # "status" /\ ~ IsPart(y[i])
      BY <3>2, Zenon DEF Aside, Tame
    <3>4. FinalLast(y)
      <4>. SUFFICES ASSUME NEW i \in DOMAIN y, y[i].event \in Final
                    PROVE  i = Len(y)
        BY Zenon DEF FinalLast
      <4>1. i = Len(v)
        BY <3>2, Zenon DEF Aside, Tame, FinalLast
      <4>2. i \in Nat /\ i <= j /\ j \in Nat /\ Len(v) \in Nat /\ j <= Len(v) /\ Len(y) = j
        BY <3>1
      <4>. QED  BY <4>1, <4>2
    <3>5. Aside(y)
      BY <3>1, <3>3, <3>4, Zenon DEF Aside, Tame
    <3>6. Extends(out, out \o (u \o y), y, q, m)
      BY <3>5, Written, Zenon
    <3>. QED  BY <1>3, <2>2, <3>6, Zenon DEF Extends, j, y
  <2>. QED  BY <1>1, <2>1, <2>2, CutShort, Zenon
<1>. QED  BY <1>2, <1>3, Zenon DEF Stream, Wrote

\* What an event may be.
Carries(e) ==
  /\ e.kind \in {"done", "error", "eof", "bad", "token", "notice", "vectors", "call", "calls"}
  /\ e.ids \in Seq(Nat)
  /\ e.kind \notin {"call", "calls"} => e.ids = << >>

LEMMA EventsCarry ==
  ASSUME ShimInv, NEW e \in Events
  PROVE  Carries(e)
<1>1. Len(brought) + 1 \in Nat /\ Len(brought) + 2 \in Nat
  BY DEF ShimInv, ShimTyped
<1>2. \A k : Event(k, << >>).kind = k /\ Event(k, << >>).ids = << >>
  BY Zenon DEF Event
<1>3. << >> \in Seq(Nat)
  OBVIOUS
<1>4. CASE \E k \in {"done", "error", "eof", "bad", "token", "notice", "vectors"} :
             e = Event(k, << >>)
  BY <1>2, <1>3, <1>4, Zenon DEF Carries
<1>5. CASE e = Event("call", <<Len(brought) + 1>>)
  BY <1>1, <1>5 DEF Carries, Event
<1>6. CASE e = Event("calls", Next2)
  BY <1>1, <1>6 DEF Carries, Event, Next2
<1>. QED  BY <1>4, <1>5, <1>6, Zenon DEF Events

\* The calls stay in step, but for a batch that the chat relays do not take.
LEMMA ReadInStep ==
  ASSUME ShimInv, NEW e, Carries(e), Read(e),
         \/ CallsOf(e)
         \/ UNCHANGED passed_on /\ (e.ids = << >> \/ (request.route = "chat" /\ e.kind = "calls"))
  PROVE  /\ InStep' /\ passed_on' \in Seq(Nat) /\ brought' \in Seq(Nat) /\ batched' \in BOOLEAN
         /\ UNCHANGED <<threadVars, hung, abandoned, cancels>>
<1>1. /\ request' = request /\ brought' = brought \o e.ids /\ UNCHANGED <<threadVars, hung, abandoned, cancels>>
      /\ batched' = (batched \/ e.kind = "calls")
  BY Zenon DEF Read, threadVars
<1>2. passed_on \in Seq(Nat) /\ brought \in Seq(Nat) /\ e.ids \in Seq(Nat)
  BY Zenon DEF ShimInv, ShimTyped, Carries
<1>3. batched' \in BOOLEAN
  BY <1>1, Zenon
<1>4. passed_on \o << >> = passed_on
  BY <1>2, SeqConcatEmpty, Zenon
<1>5. \/ passed_on' = passed_on \o e.ids
      \/ UNCHANGED passed_on /\ request.route = "chat" /\ e.kind = "calls"
  BY <1>4, Zenon DEF CallsOf
<1>6. passed_on' \in Seq(Nat) /\ brought' \in Seq(Nat)
  <2>1. passed_on \o e.ids \in Seq(Nat) /\ brought \o e.ids \in Seq(Nat)
    BY <1>2, SeqConcat, Zenon
  <2>. QED  BY <1>1, <1>2, <1>5, <2>1, Zenon
<1>7. InStep'
  BY <1>1, <1>5, Zenon DEF ShimInv, InStep
<1>. QED  BY <1>1, <1>3, <1>6, <1>7, Zenon

\* An event of a stream, from what the relay writes for it.
LEMMA StreamInv ==
  ASSUME ShimInv, at = "event", request.stream, NEW e, Carries(e), Read(e),
         UNCHANGED session, UNCHANGED lost, text_open' \in BOOLEAN, index' \in Nat,
         \/ CallsOf(e)
         \/ UNCHANGED passed_on /\ (e.ids = << >> \/ (request.route = "chat" /\ e.kind = "calls")),
         NEW u, NEW v, Leads(u, Here, index, Here', index'), Aside(v),
         NEW next \in {"event", "close"}, Stream(u \o v, next),
         next = "event" => NoFinal(v),
         next = "close" /\ request.route # "chat" =>
            v # << >> /\ v[Len(v)].event \in Final /\ (v[Len(v)].event # "failed" => ~ text_open')
  PROVE  ShimInv'
<1>1. /\ InStep' /\ passed_on' \in Seq(Nat) /\ brought' \in Seq(Nat) /\ batched' \in BOOLEAN
      /\ UNCHANGED <<threadVars, hung, abandoned, cancels>>
  BY ReadInStep, Zenon
<1>2. request' = request /\ named' = named /\ hung' = hung /\ abandoned' = abandoned /\ cancels' = cancels
  BY <1>1, Zenon DEF threadVars
<1>3. /\ session = "open" /\ ~ broken /\ ~ lost /\ out # << >> /\ request.route \in Turns
  BY Zenon DEF ShimInv, Stage
<1>4. out \in Seq(Frames) /\ HeadFirst(out) /\ InBlocks(out) /\ NoFinal(out) /\ Stands(out, Here, index)
  <2>1. at \notin {"close", "end"}
    BY Zenon
  <2>. QED  BY <1>3, <2>1, Zenon DEF ShimInv, Streamed
<1>5. Here \in Places /\ Here' \in Places /\ index \in Nat
  BY Zenon DEF Here, Places, ShimInv, ShimTyped
<1>6. /\ out' \in Seq(Frames) /\ out' # << >> /\ out'[1] = out[1]
      /\ HeadFirst(out') /\ InBlocks(out') /\ FinalLast(out')
      /\ \/ /\ at' = next /\ broken' = broken /\ Stands(out', Here', index')
            /\ NoFinal(v) => NoFinal(out')
            /\ v # << >> => out'[Len(out')] = v[Len(v)]
         \/ hung /\ broken' = TRUE /\ at' = "close"
  <2>1. Wrote(v, next, Here', index')
    BY <1>3, <1>4, <1>5, StreamStep, Zenon
  <2>. QED  BY <2>1, Zenon DEF Wrote
<1>7. at' \in {"event", "close"} /\ (at' = "event" => ~ broken') /\ broken' \in BOOLEAN
  <2>1. (at' = next /\ broken' = broken) \/ (broken' = TRUE /\ at' = "close")
    BY <1>6, Zenon
  <2>2. broken \in BOOLEAN
    BY Zenon DEF ShimInv, ShimTyped
  <2>3. CASE at' = next /\ broken' = broken
    BY <1>3, <2>2, <2>3, Zenon
  <2>4. CASE broken' = TRUE /\ at' = "close"
    <3>1. at' # "event"
      BY <2>4, Zenon
    <3>. QED  BY <2>4, <3>1, Zenon
  <2>. QED  BY <2>1, <2>3, <2>4, Zenon
<1>8. at' \notin Early \cup Ready \cup {"poll", "end", "hello", "attach", "main", "parse", "open"}
  BY <1>7, Zenon DEF Early, Ready
<1>9. late' \in Nat
  BY DEF ShimInv, ShimTyped, Read
<1>10. ShimTyped'
  BY <1>1, <1>2, <1>3, <1>7, <1>9, Zenon DEF ShimInv, ShimTyped
<1>11. Stage'
  BY <1>2, <1>3, <1>6, <1>7, <1>8, Zenon DEF Stage
<1>12. Caller'
  <2>1. named.require_token => request.token
    BY <1>3, Zenon DEF ShimInv, Caller
  <2>. QED  BY <1>2, <1>8, <2>1, Zenon DEF ShimInv, Caller
<1>13. Streamed'
  <2>1. CASE /\ at' = next /\ broken' = broken /\ Stands(out', Here', index')
             /\ NoFinal(v) => NoFinal(out')
             /\ v # << >> => out'[Len(out')] = v[Len(v)]
    <3>1. at' \notin {"close", "end"} => NoFinal(out')
      BY <2>1, Zenon
    <3>2. next = "close" /\ request'.route # "chat" => 
            LastOut'.event \in Final /\ (LastOut'.event # "failed" => ~ text_open')
      BY <1>2, <2>1, Zenon DEF LastOut
    <3>3. at' \in {"close", "end"} => next = "close"
      BY <2>1, Zenon
    <3>. QED  BY <1>6, <2>1, <3>1, <3>2, <3>3, Zenon DEF Streamed
  <2>2. CASE broken' = TRUE /\ at' = "close"
    <3>1. at' \in {"close", "end"} /\ broken'
      BY <2>2, Zenon
    <3>. QED  BY <1>6, <3>1, Zenon DEF Streamed
  <2>. QED  BY <1>6, <2>1, <2>2, Zenon
<1>. QED  BY <1>1, <1>10, <1>11, <1>12, <1>13, Zenon DEF ShimInv

\* A frame that cannot be read ends a relay of any kind.
LEMMA ReadFailedInv ==
  ASSUME ShimInv, request.route \in Turns, NEW e, Carries(e), Read(e), UNCHANGED session,
         ReadFailed(e)
  PROVE  ShimInv'
<1>1. /\ at = "event" /\ e.kind = "bad" /\ at' = "close" /\ lost' = TRUE
      /\ UNCHANGED <<broken, passed_on, text_open, index, out, session>>
  BY Zenon DEF ReadFailed, Read, blockVars
<1>2. e.ids = << >>
  BY <1>1, Zenon DEF Carries
<1>3. /\ InStep' /\ passed_on' \in Seq(Nat) /\ brought' \in Seq(Nat) /\ batched' \in BOOLEAN
      /\ UNCHANGED <<threadVars, hung, abandoned, cancels>>
  BY <1>1, <1>2, ReadInStep, Zenon
<1>4. request' = request /\ named' = named /\ hung' = hung /\ abandoned' = abandoned /\ cancels' = cancels
  BY <1>3, Zenon DEF threadVars
<1>5. session = "open" /\ (request.stream => request.route \in Turns)
  BY <1>1, Zenon DEF ShimInv, Stage
<1>6. at' \notin Early \cup Ready \cup {"poll", "event", "end", "hello", "attach", "main", "parse", "open"}
  BY <1>1, Zenon DEF Early, Ready
<1>7. late' \in Nat
  BY DEF ShimInv, ShimTyped, Read
<1>8. ShimTyped'
  BY <1>1, <1>3, <1>4, <1>7 DEF ShimInv, ShimTyped
<1>9. Stage'
  BY <1>1, <1>4, <1>5, <1>6, Zenon DEF Stage
<1>10. Caller'
  <2>1. named.require_token => request.token
    BY <1>5, Zenon DEF ShimInv, Caller
  <2>2. /\ late \in Nat /\ cancels \in Nat
        /\ late' = late + (IF hung /\ cancels = 0 THEN 1 ELSE 0)
    BY Zenon DEF Read, ShimInv, ShimTyped
  <2>3. ~ request.stream => late <= 1 /\ (cancels = 0 => late = 0)
    BY <1>1, Zenon DEF ShimInv, Caller
  <2>4. ~ request'.stream => late' <= 1 /\ (cancels' = 0 /\ late' = 1 => hung')
    BY <1>4, <2>2, <2>3
  <2>. QED  BY <1>1, <1>4, <1>6, <2>1, <2>4, Zenon DEF ShimInv, Caller
<1>11. Streamed'
  BY <1>1, <1>4, <1>6, Zenon DEF ShimInv, Streamed, Here
<1>. QED  BY <1>3, <1>8, <1>9, <1>10, <1>11, Zenon DEF ShimInv

\* A step of a relay that replies once, or of one of the two questions.
Waits == /\ request.route \in Turns \cup Asks /\ ~ request.stream
         /\ at = "event" /\ session = "open" /\ ~ broken /\ ~ lost /\ out = << >>
         /\ ~ text_open /\ index = 0

LEMMA WaitsQuietly ==
  ASSUME ShimInv, at = "event", ~ request.stream, request.route \in Turns \cup Asks
  PROVE  Waits
<1>1. session = "open" /\ ~ broken /\ ~ lost /\ out = << >>
  BY Zenon DEF ShimInv, Stage
<1>2. Stands(<< >>, Here, index)
  BY <1>1, Zenon DEF ShimInv, Streamed
<1>3. PartsOf(<< >>) = {}
  BY DEF PartsOf
<1>4. Here = "between" /\ index = 0
  BY <1>2, <1>3, Zenon DEF Stands
<1>5. ~ text_open
  BY <1>4, Zenon DEF Here
<1>. QED  BY <1>1, <1>4, <1>5, Zenon DEF Waits

\* What such a step says: nothing, or its one answer.
LEMMA ReplyInv ==
  ASSUME ShimInv, Waits, NEW e, Carries(e), Read(e), NoBlocks,
         \/ CallsOf(e)
         \/ UNCHANGED passed_on /\ (e.ids = << >> \/ (request.route = "chat" /\ e.kind = "calls"))
         \/ UNCHANGED passed_on /\ request.route \in Asks,
         lost' \in BOOLEAN,
         \/ /\ at' = "poll" /\ request.route \in Turns /\ UNCHANGED <<broken, out, lost, session>>
         \/ /\ at' = "event" /\ request.route \in Asks /\ UNCHANGED <<broken, out, lost, session>>
         \/ /\ at' = "close" /\ request.route \in Turns /\ UNCHANGED session
            /\ \E n \in Nat : Respond(n)
         \/ /\ at' = "close" /\ request.route \in Turns /\ UNCHANGED <<session, broken, out>> /\ abandoned
         \/ /\ at' = "end" /\ session' \in {"closed", "dropped"} /\ (session' = "dropped" => lost')
            /\ request.route \in Asks /\ \E n \in Nat : Respond(n)
  PROVE  ShimInv'
<1>1. UNCHANGED <<request, named, hung, abandoned, cancels, text_open, index>> /\ at = "event"
  BY Zenon DEF Read, threadVars, NoBlocks, blockVars
<1>2. /\ InStep' /\ passed_on' \in Seq(Nat) /\ brought' \in Seq(Nat) /\ batched' \in BOOLEAN
  <2>1. CASE request.route \in Asks /\ UNCHANGED passed_on
    <3>1. request'.route \notin Turns
      BY <1>1, <2>1, Zenon DEF Asks, Turns
    <3>2. e.ids \in Seq(Nat) /\ brought \in Seq(Nat) /\ passed_on \in Seq(Nat)
      BY Zenon DEF Carries, ShimInv, ShimTyped
    <3>3. brought \o e.ids \in Seq(Nat)
      BY <3>2, SeqConcat, Zenon
    <3>4. batched' \in BOOLEAN
      BY Zenon DEF Read
    <3>. QED  BY <2>1, <3>1, <3>2, <3>3, <3>4, Zenon DEF InStep, Read
  <2>. QED  BY <2>1, ReadInStep, Zenon
<1>3. /\ ~ request'.stream /\ ~ text_open' /\ index' = 0 /\ out = << >> /\ ~ broken /\ ~ lost
      /\ session = "open"
  BY <1>1, Zenon DEF Waits
<1>4. \A n \in Nat : <<Status(n)>> # << >>
  BY SoleHead, Zenon
<1>5. \A n \in Nat : Respond(n) =>
        \/ out' = <<Status(n)>> /\ UNCHANGED broken
        \/ hung /\ broken' = TRUE /\ out' = << >>
  BY <1>3, Responded, Zenon
<1>6. Streamed'
  <2>1. \/ out' = << >>
        \/ \E n \in Nat : out' = <<Status(n)>> /\ (n = 200 => ~ request'.stream)
    BY <1>3, <1>5, Zenon
  <2>. QED  BY <1>3, <2>1, QuietStreamed, Zenon
<1>7. broken' \in BOOLEAN /\ hung \in BOOLEAN
  BY <1>5, Zenon DEF ShimInv, ShimTyped
<1>8. /\ at' \in {"poll", "event"} => UNCHANGED <<broken, out, lost, session>>
      /\ at' \in {"poll", "close"} => request.route \in Turns /\ UNCHANGED session
      /\ at' \in {"event", "end"} => request.route \in Asks
      /\ at' \in {"poll", "event", "close", "end"}
      /\ session' = "dropped" => lost'
      /\ session' \in {"open", "closed", "dropped"}
      /\ at' = "end" => session' # "open"
      /\ at' \in {"close", "end"} => (\E n \in Nat : Respond(n)) \/ (abandoned /\ UNCHANGED out)
  BY <1>3, Zenon
<1>9. at' \in {"close", "end"} => out' # << >> \/ broken' \/ lost' \/ hung'
  <2>1. abandoned => hung
    BY Zenon DEF ShimInv, Caller
  <2>2. hung' = hung
    BY <1>1, Zenon
  <2>. QED  BY <1>4, <1>5, <1>8, <2>1, <2>2, Zenon
<1>10. at' \notin Early \cup Ready \cup {"hello", "attach", "main", "parse", "open"}
  BY <1>8, Zenon DEF Early, Ready
<1>11. late' \in Nat
  BY DEF ShimInv, ShimTyped, Read
<1>12. ShimTyped'
  BY <1>1, <1>2, <1>7, <1>8, <1>11 DEF ShimInv, ShimTyped
<1>13. Stage'
  BY <1>1, <1>3, <1>8, <1>9, <1>10 DEF Stage
<1>14. Caller'
  <2>1. named.require_token => request.token
    BY <1>3, Zenon DEF ShimInv, Caller
  <2>2. /\ late \in Nat /\ cancels \in Nat
        /\ late' = late + (IF hung /\ cancels = 0 THEN 1 ELSE 0)
    BY Zenon DEF Read, ShimInv, ShimTyped
  <2>3. request.route \in Turns => late <= 1 /\ (cancels = 0 => late = 0)
    BY <1>1, <1>3, Zenon DEF ShimInv, Caller
  <2>4. request.route \in Turns => late' <= 1 /\ (cancels' = 0 /\ late' = 1 => hung')
    BY <1>1, <2>2, <2>3
  <2>5. request.route \in Turns => at' # "event"
    BY <1>8, Zenon DEF Asks, Turns
  <2>. QED  BY <1>1, <1>10, <2>1, <2>4, <2>5, Zenon DEF ShimInv, Caller
<1>. QED  BY <1>2, <1>6, <1>12, <1>13, <1>14, Zenon DEF ShimInv

\* relay_json keeps the invariant.
LEMMA ChatReplyInv ==
  ASSUME ShimInv, request.route = "chat", ~ request.stream, NEW e, Carries(e), Read(e),
         UNCHANGED session, ChatReply(e)
  PROVE  ShimInv'
<1>1. at = "event" /\ request.route \in Turns
  BY Zenon DEF Read, Turns
<1>2. Waits
  BY <1>1, WaitsQuietly, Zenon
<1>3. lost \in BOOLEAN
  BY Zenon DEF ShimInv, ShimTyped
<1>4. CASE Goes(e) /\ IF e.kind = "calls" THEN UNCHANGED passed_on ELSE CallsOf(e)
  BY <1>1, <1>2, <1>3, <1>4, ReplyInv, Zenon DEF Goes
<1>5. CASE /\ Ends(e)
           /\ \/ e.kind = "done" /\ IF abandoned THEN Unsaid ELSE Respond(200)
              \/ e.kind = "error" /\ RespondError
              \/ e.kind = "eof" /\ Respond(400)
  <2>1. e.ids = << >> /\ UNCHANGED <<passed_on, lost>> /\ NoBlocks /\ at' = "close"
    BY <1>5, Zenon DEF Ends, Carries
  <2>2. (\E n \in Nat : Respond(n)) \/ (abandoned /\ UNCHANGED <<broken, out>>)
    BY <1>5 DEF RespondError, Unsaid
  <2>. QED  BY <1>1, <1>2, <1>3, <2>1, <2>2, ReplyInv, Zenon
<1>. QED  BY <1>1, <1>4, <1>5, ReadFailedInv, Zenon DEF ChatReply

\* So do relay_anthropic_json and relay_responses_json.
LEMMA MessagesReplyInv ==
  ASSUME ShimInv, request.route \in Turns, ~ request.stream, NEW e, Carries(e), Read(e),
         UNCHANGED session, MessagesReply(e)
  PROVE  ShimInv'
<1>1. at = "event"
  BY Zenon DEF Read
<1>2. Waits
  BY <1>1, WaitsQuietly, Zenon
<1>3. lost \in BOOLEAN
  BY Zenon DEF ShimInv, ShimTyped
<1>4. CASE Goes(e) /\ CallsOf(e)
  BY <1>1, <1>2, <1>3, <1>4, ReplyInv, Zenon DEF Goes
<1>5. CASE Ends(e) /\ IF abandoned THEN Unsaid
                      ELSE IF e.kind = "error" THEN RespondError ELSE Respond(200)
  <2>1. e.ids = << >> /\ UNCHANGED <<passed_on, lost>> /\ NoBlocks /\ at' = "close"
    BY <1>5, Zenon DEF Ends, Carries
  <2>2. (\E n \in Nat : Respond(n)) \/ (abandoned /\ UNCHANGED <<broken, out>>)
    BY <1>5 DEF RespondError, Unsaid
  <2>. QED  BY <1>1, <1>2, <1>3, <2>1, <2>2, ReplyInv, Zenon
<1>. QED  BY <1>1, <1>4, <1>5, ReadFailedInv, Zenon DEF MessagesReply

\* And the two questions.
LEMMA AskedInv ==
  ASSUME ShimInv, request.route \in Asks, NEW e, Carries(e), EmbeddingsEvent(e)
  PROVE  ShimInv'
<1>1. Read(e) /\ at = "event" /\ NoBlocks /\ UNCHANGED passed_on
  BY Zenon DEF EmbeddingsEvent, Read
<1>2. ~ request.stream
  BY Zenon DEF ShimInv, Stage, Asks, Turns
<1>3. Waits
  BY <1>1, <1>2, WaitsQuietly, Zenon
<1>4. lost \in BOOLEAN
  BY Zenon DEF ShimInv, ShimTyped
<1>5. CASE at' = "event" /\ UNCHANGED <<lost, session, broken, out>>
  BY <1>1, <1>3, <1>4, <1>5, ReplyInv, Zenon
<1>6. CASE /\ at' = "end" /\ lost' = (e.kind = "bad")
           /\ session' = IF e.kind = "bad" THEN "dropped" ELSE "closed"
           /\ Respond(IF e.kind \in {"error", "bad"} THEN 400 ELSE 200)
  <2>1. \E n \in Nat : Respond(n)
    BY <1>6
  <2>2. lost' \in BOOLEAN /\ session' \in {"closed", "dropped"}
    BY <1>6, Zenon
  <2>3. session' = "dropped" => lost'
    <3>1. CASE e.kind = "bad"
      BY <1>6, <3>1, Zenon
    <3>2. CASE e.kind # "bad"
      BY <1>6, <3>2, Zenon
    <3>. QED  BY <3>1, <3>2, Zenon
  <2>. QED  BY <1>1, <1>3, <1>6, <2>1, <2>2, <2>3, ReplyInv, Zenon
<1>. QED  BY <1>5, <1>6, Zenon DEF EmbeddingsEvent

\* The frames about blocks, one by one.
LEMMA LeadsOne ==
  ASSUME NEW n \in Nat
  PROVE  /\ \A p \in Places : Leads(<< >>, p, n, p, n)
         /\ Leads(<<Frame("start", n)>>, "between", n, "in", n)
         /\ Leads(<<Frame("delta", n)>>, "in", n, "in", n)
         /\ Leads(<<Frame("stop", n)>>, "in", n, "between", n + 1)
<1>1. \A p \in Places : Leads(<< >>, p, n, p, n)
  BY DEF Leads
<1>2. ASSUME NEW a \in {"start", "delta", "stop"}
      PROVE  LET u == <<Frame(a, n)>> IN
             /\ u \in Seq(Frames) /\ u # << >> /\ DOMAIN u = {1} /\ Len(u) = 1 /\ u[1] = Frame(a, n)
             /\ \A k \in DOMAIN u : IsPart(u[k])
  BY DEF Frame, Frames, Names, IsPart
<1>3. Leads(<<Frame("start", n)>>, "between", n, "in", n)
  BY <1>2 DEF Leads, Enters, Exits, Frame
<1>4. Leads(<<Frame("delta", n)>>, "in", n, "in", n)
  BY <1>2 DEF Leads, Enters, Exits, Frame
<1>5. Leads(<<Frame("stop", n)>>, "in", n, "between", n + 1)
  BY <1>2 DEF Leads, Enters, Exits, Frame
<1>. QED  BY <1>1, <1>3, <1>4, <1>5, Zenon

\* Frames that are about no block.
Others == Names \ {"start", "delta", "stop", "status"}

LEMMA AsideNone == Aside(<< >>) /\ NoFinal(<< >>)
  BY NoReply DEF Aside, Tame

LEMMA AsideOne ==
  ASSUME NEW a \in Others
  PROVE  LET v == <<Frame(a, 0)>> IN
         /\ Aside(v) /\ v # << >> /\ v[Len(v)].event = a
         /\ a \notin Final => NoFinal(v)
<1>. DEFINE v == <<Frame(a, 0)>>
<1>1. /\ v \in Seq(Frames) /\ v # << >> /\ DOMAIN v = {1} /\ Len(v) = 1 /\ v[1].event = a
  BY DEF Others, Frame, Frames
<1>. HIDE DEF v
<1>2. \A i \in DOMAIN v : v[i].event = a /\ i = Len(v)
  BY <1>1, Zenon
<1>3. a \notin {"start", "delta", "stop"} /\ a # "status"
  BY Zenon DEF Others
<1>4. Aside(v)
  BY <1>1, <1>2, <1>3, Zenon DEF Aside, Tame, FinalLast, IsPart
<1>. QED  BY <1>1, <1>2, <1>4, Zenon DEF v, NoFinal

LEMMA AsideTwo ==
  ASSUME NEW a \in Others, NEW b \in Others, a \notin Final
  PROVE  LET v == <<Frame(a, 0), Frame(b, 0)>> IN
         Aside(v) /\ v # << >> /\ v[Len(v)].event = b
<1>. DEFINE v == <<Frame(a, 0), Frame(b, 0)>>
<1>1. /\ v \in Seq(Frames) /\ v # << >> /\ DOMAIN v = {1, 2} /\ Len(v) = 2
      /\ v[1].event = a /\ v[2].event = b
  BY DEF Others, Frame, Frames
<1>. HIDE DEF v
<1>2. \A i \in DOMAIN v : (v[i].event = a \/ v[i].event = b) /\ (i # Len(v) => v[i].event = a)
  BY <1>1, Zenon
<1>3. {a, b} \cap {"start", "delta", "stop", "status"} = {}
  BY Zenon DEF Others
<1>4. Aside(v)
  BY <1>1, <1>2, <1>3, Zenon DEF Aside, Tame, FinalLast, IsPart
<1>. QED  BY <1>1, <1>4, Zenon DEF v

\* A stream that goes on with frames about no block.
LEMMA AsideInv ==
  ASSUME ShimInv, at = "event", request.stream, NEW e, Carries(e), Read(e),
         UNCHANGED session, UNCHANGED lost, NoBlocks,
         \/ CallsOf(e)
         \/ UNCHANGED passed_on /\ (e.ids = << >> \/ (request.route = "chat" /\ e.kind = "calls")),
         NEW v, Aside(v), NEW next \in {"event", "close"}, Stream(v, next),
         next = "event" => NoFinal(v),
         next = "close" /\ request.route # "chat" =>
            v # << >> /\ v[Len(v)].event \in Final /\ (v[Len(v)].event # "failed" => ~ text_open)
  PROVE  ShimInv'
<1>1. text_open' = text_open /\ index' = index /\ Here' = Here
  BY Zenon DEF NoBlocks, blockVars, Here
<1>2. text_open \in BOOLEAN /\ index \in Nat
  BY Zenon DEF ShimInv, ShimTyped
<1>3. Here \in Places
  BY Zenon DEF Here, Places
<1>4. Leads(<< >>, Here, index, Here', index')
  BY <1>1, <1>2, <1>3, LeadsOne, Zenon
<1>5. << >> \o v = v
  BY SeqConcatEmpty, Zenon DEF Aside, Tame
<1>6. Stream(<< >> \o v, next)
  BY <1>5, Zenon
<1>. QED  BY <1>1, <1>2, <1>4, <1>6, StreamInv, Zenon

\* relay_sse.
LEMMA ChatEventInv ==
  ASSUME ShimInv, request.route = "chat", request.stream, NEW e, Carries(e), Read(e),
         UNCHANGED session, ChatEvent(e)
  PROVE  ShimInv'
<1>1. at = "event" /\ request.route \in Turns
  BY Zenon DEF Read, Turns
<1>2. {"chunk", "[DONE]", "error"} \in SUBSET Others /\ "chunk" \notin Final /\ "error" \notin Final
  BY Zenon DEF Others, Names, Final
<1>3. ASSUME e.kind # "bad", NoBlocks, UNCHANGED lost,
             IF e.kind = "call" THEN CallsOf(e) ELSE UNCHANGED passed_on,
             NEW v, Aside(v), NEW next \in {"event", "close"}, Stream(v, next),
             next = "event" => NoFinal(v)
      PROVE  ShimInv'
  <2>1. \/ CallsOf(e)
        \/ UNCHANGED passed_on /\ (e.ids = << >> \/ (request.route = "chat" /\ e.kind = "calls"))
    BY <1>3, Zenon DEF Carries
  <2>. QED  BY <1>1, <1>3, <2>1, AsideInv, Zenon
<1>4. ASSUME e.kind # "bad", NoBlocks, UNCHANGED lost,
             IF e.kind = "call" THEN CallsOf(e) ELSE UNCHANGED passed_on
      PROVE  /\ \A next \in {"event", "close"} : Stream(<< >>, next) => ShimInv'
             /\ Stream(<<Frame("chunk", 0)>>, "event") => ShimInv'
             /\ Stream(<<Frame("chunk", 0), Frame("[DONE]", 0)>>, "close") => ShimInv'
             /\ Stream(<<Frame("error", 0), Frame("[DONE]", 0)>>, "close") => ShimInv'
  <2>1. \A next \in {"event", "close"} : Stream(<< >>, next) => ShimInv'
    BY <1>3, <1>4, AsideNone, Zenon
  <2>2. Aside(<<Frame("chunk", 0)>>) /\ NoFinal(<<Frame("chunk", 0)>>)
    BY <1>2, AsideOne, Zenon
  <2>3. Stream(<<Frame("chunk", 0)>>, "event") => ShimInv'
    BY <1>3, <1>4, <2>2, Zenon
  <2>4. /\ Aside(<<Frame("chunk", 0), Frame("[DONE]", 0)>>)
        /\ Aside(<<Frame("error", 0), Frame("[DONE]", 0)>>)
    BY <1>2, AsideTwo, Zenon
  <2>5. "close" # "event"
    BY Zenon
  <2>6. /\ Stream(<<Frame("chunk", 0), Frame("[DONE]", 0)>>, "close") => ShimInv'
        /\ Stream(<<Frame("error", 0), Frame("[DONE]", 0)>>, "close") => ShimInv'
    BY <1>3, <1>4, <2>4, <2>5, Zenon
  <2>. QED  BY <2>1, <2>3, <2>6, Zenon
<1>. QED  BY <1>1, <1>4, ReadFailedInv, Zenon DEF ChatEvent

\* close_text_block leads from where the stream is to between blocks.
LEMMA TextCloses ==
  ASSUME ShimInv
  PROVE  /\ Leads(close_text_block, Here, index, "between", after_text)
         /\ Here \in Places /\ "between" \in Places /\ "in" \in Places
         /\ index \in Nat /\ after_text \in Nat /\ text_open \in BOOLEAN
<1>1. index \in Nat /\ text_open \in BOOLEAN /\ after_text \in Nat
  BY DEF ShimInv, ShimTyped, after_text
<1>2. Here \in Places /\ "between" \in Places /\ "in" \in Places
  BY Zenon DEF Here, Places
<1>3. CASE text_open
  <2>1. /\ close_text_block = <<Frame("stop", index)>> /\ Here = "in" /\ after_text = index + 1
    BY <1>3, Zenon DEF close_text_block, Here, after_text
  <2>. QED  BY <1>1, <1>2, <2>1, LeadsOne, Zenon
<1>4. CASE ~ text_open
  <2>1. /\ close_text_block = << >> /\ Here = "between" /\ after_text = index
    BY <1>1, <1>4 DEF close_text_block, Here, after_text
  <2>. QED  BY <1>1, <1>2, <2>1, LeadsOne, Zenon
<1>. QED  BY <1>1, <1>2, <1>3, <1>4, Zenon

\* relay_anthropic_sse.
LEMMA MessagesEventInv ==
  ASSUME ShimInv, request.route = "messages", request.stream, NEW e, Carries(e), Read(e),
         UNCHANGED session, MessagesEvent(e)
  PROVE  ShimInv'
<1>1. at = "event" /\ request.route \in Turns
  BY Zenon DEF Read, Turns
<1>2. /\ Leads(close_text_block, Here, index, "between", after_text)
      /\ Here \in Places /\ "between" \in Places /\ "in" \in Places
      /\ index \in Nat /\ after_text \in Nat /\ text_open \in BOOLEAN
  BY TextCloses, Zenon
<1>3. /\ {"comment", "message_delta", "message_stop", "error"} \in SUBSET Others
      /\ {"comment", "message_delta", "error"} \cap Final = {}
      /\ "message_stop" \in Final
  BY Zenon DEF Others, Names, Final
<1>4. CASE /\ e.kind = "token" /\ text_open' = TRUE /\ UNCHANGED <<index, passed_on, lost>>
           /\ Stream((IF text_open THEN << >> ELSE <<Frame("start", index)>>)
                        \o <<Frame("delta", index)>>, "event")
  <2>. DEFINE s == IF text_open THEN << >> ELSE <<Frame("start", index)>>
              d == <<Frame("delta", index)>>
  <2>1. Leads(s, Here, index, "in", index)
    <3>1. CASE text_open
      BY <1>2, <3>1, LeadsOne, Zenon DEF Here
    <3>2. CASE ~ text_open
      BY <1>2, <3>2, LeadsOne, Zenon DEF Here
    <3>. QED  BY <3>1, <3>2, Zenon
  <2>2. Leads(d, "in", index, "in", index)
    BY <1>2, LeadsOne, Zenon
  <2>. HIDE DEF s, d
  <2>3. Leads(s \o d, Here, index, "in", index)
    BY <1>2, <2>1, <2>2, LeadsConcat, Zenon
  <2>4. (s \o d) \o << >> = s \o d
    BY <2>3, SeqConcatEmpty, Zenon DEF Leads
  <2>5. Stream((s \o d) \o << >>, "event")
    BY <1>4, <2>4, Zenon DEF s, d
  <2>6. /\ Here' = "in" /\ index' = index /\ text_open' \in BOOLEAN /\ e.ids = << >>
        /\ "event" # "close" /\ "event" \in {"event", "close"}
    BY <1>4, Zenon DEF Here, Carries
  <2>7. Leads(s \o d, Here, index, Here', index') /\ index' \in Nat
    BY <1>2, <2>3, <2>6, Zenon
  <2>. QED  BY <1>1, <1>4, <2>5, <2>6, <2>7, AsideNone, StreamInv, Zenon
<1>5. CASE /\ e.kind \in {"call", "calls"} /\ CallsOf(e) /\ UNCHANGED lost
           /\ text_open' = FALSE /\ index' = after_text + Len(e.ids)
           /\ Stream(close_text_block \o Blocks(e.ids, after_text), "event")
  <2>. DEFINE u == close_text_block \o Blocks(e.ids, after_text)
  <2>1. e.ids \in Seq(Nat) /\ index' \in Nat /\ Here' = "between" /\ text_open' \in BOOLEAN
    <3>1. e.ids \in Seq(Nat) /\ Here' = "between" /\ text_open' \in BOOLEAN
      BY <1>5, Zenon DEF Carries, Here
    <3>2. Len(e.ids) \in Nat
      BY <3>1, SeqLen, Zenon
    <3>. QED  BY <1>2, <1>5, <3>1, <3>2
  <2>2. Leads(Blocks(e.ids, after_text), "between", after_text, "between", index')
    BY <1>2, <1>5, <2>1, BlocksLead, Zenon
  <2>3. Leads(u, Here, index, Here', index')
    BY <1>2, <2>1, <2>2, LeadsConcat, Zenon
  <2>4. u \o << >> = u
    BY <2>3, SeqConcatEmpty, Zenon DEF Leads
  <2>5. Stream(u \o << >>, "event") /\ "event" # "close" /\ "event" \in {"event", "close"}
    BY <1>5, <2>4, Zenon
  <2>. HIDE DEF u
  <2>. QED  BY <1>1, <1>5, <2>1, <2>3, <2>5, AsideNone, StreamInv, Zenon
<1>6. CASE /\ e.kind \in {"done", "eof", "error"} /\ text_open' = FALSE
           /\ index' = after_text /\ UNCHANGED <<passed_on, lost>>
           /\ Stream(close_text_block
                       \o <<Frame(IF e.kind = "error" THEN "error" ELSE "message_delta", 0),
                            Frame("message_stop", 0)>>, "close")
  <2>. DEFINE a == IF e.kind = "error" THEN "error" ELSE "message_delta"
              v == <<Frame(a, 0), Frame("message_stop", 0)>>
  <2>1. a \in Others /\ a \notin Final /\ "message_stop" \in Others
    BY <1>3, Zenon
  <2>2. Aside(v) /\ v # << >> /\ v[Len(v)].event = "message_stop"
    <3>. HIDE DEF a
    <3>. QED  BY <2>1, AsideTwo, Zenon
  <2>3. /\ Here' = "between" /\ text_open' \in BOOLEAN /\ ~ text_open' /\ index' \in Nat
        /\ e.ids = << >> /\ "event" # "close" /\ "close" \in {"event", "close"}
    BY <1>2, <1>6, Zenon DEF Here, Carries
  <2>4. Stream(close_text_block \o v, "close")
    BY <1>6, Zenon
  <2>. HIDE DEF a, v
  <2>5. Leads(close_text_block, Here, index, Here', index')
    BY <1>2, <1>6, <2>3, Zenon
  <2>. QED  BY <1>1, <1>3, <1>6, <2>2, <2>3, <2>4, <2>5, StreamInv, Zenon
<1>7. CASE /\ e.kind \in {"notice", "vectors"} /\ NoBlocks /\ UNCHANGED <<passed_on, lost>>
           /\ Stream(IF e.kind = "notice" THEN <<Frame("comment", 0)>> ELSE << >>, "event")
  <2>. DEFINE v == IF e.kind = "notice" THEN <<Frame("comment", 0)>> ELSE << >>
  <2>1. Aside(<<Frame("comment", 0)>>) /\ NoFinal(<<Frame("comment", 0)>>)
    BY <1>3, AsideOne, Zenon
  <2>2. Aside(v) /\ NoFinal(v)
    BY <2>1, AsideNone, Zenon
  <2>3. e.ids = << >> /\ "event" # "close" /\ "event" \in {"event", "close"}
    BY <1>7, Zenon DEF Carries
  <2>. HIDE DEF v
  <2>4. Stream(v, "event")
    BY <1>7, Zenon DEF v
  <2>. QED  BY <1>1, <1>7, <2>2, <2>3, <2>4, AsideInv, Zenon
<1>. QED  BY <1>1, <1>4, <1>5, <1>6, <1>7, ReadFailedInv, Zenon DEF MessagesEvent

\* relay_responses_sse.
LEMMA ResponsesEventInv ==
  ASSUME ShimInv, request.route = "responses", request.stream, NEW e, Carries(e), Read(e),
         UNCHANGED session, ResponsesEvent(e)
  PROVE  ShimInv'
<1>1. at = "event" /\ request.route \in Turns /\ request.route # "chat"
  BY Zenon DEF Read, Turns
<1>2. /\ Leads(close_text_block, Here, index, "between", after_text)
      /\ Here \in Places /\ "between" \in Places /\ "in" \in Places
      /\ index \in Nat /\ after_text \in Nat /\ text_open \in BOOLEAN
  BY TextCloses, Zenon
<1>3. {"completed", "failed"} \in SUBSET Others /\ {"completed", "failed"} \in SUBSET Final
  BY Zenon DEF Others, Names, Final
<1>4. CASE /\ e.kind = "token" /\ text_open' = TRUE /\ UNCHANGED <<index, passed_on, lost>>
           /\ Stream((IF text_open THEN << >> ELSE <<Frame("start", index), Frame("delta", index)>>)
                        \o <<Frame("delta", index)>>, "event")
  <2>. DEFINE s == IF text_open THEN << >> ELSE <<Frame("start", index), Frame("delta", index)>>
              d == <<Frame("delta", index)>>
  <2>1. Leads(d, "in", index, "in", index) /\ Leads(<<Frame("start", index)>>, "between", index, "in", index)
    BY <1>2, LeadsOne, Zenon
  <2>2. Leads(s, Here, index, "in", index)
    <3>1. CASE text_open
      BY <1>2, <3>1, LeadsOne, Zenon DEF Here
    <3>2. CASE ~ text_open
      <4>1. s = <<Frame("start", index)>> \o d
        BY <3>2
      <4>2. Here = "between"
        BY <3>2, Zenon DEF Here
      <4>. HIDE DEF d, s
      <4>3. Leads(<<Frame("start", index)>> \o d, "between", index, "in", index)
        BY <1>2, <2>1, LeadsConcat, Zenon
      <4>. QED  BY <4>1, <4>2, <4>3, Zenon
    <3>. QED  BY <3>1, <3>2, Zenon
  <2>. HIDE DEF s, d
  <2>3. Leads(s \o d, Here, index, "in", index)
    BY <1>2, <2>1, <2>2, LeadsConcat, Zenon
  <2>4. (s \o d) \o << >> = s \o d
    BY <2>3, SeqConcatEmpty, Zenon DEF Leads
  <2>5. Stream((s \o d) \o << >>, "event")
    BY <1>4, <2>4, Zenon DEF s, d
  <2>6. /\ Here' = "in" /\ index' = index /\ text_open' \in BOOLEAN /\ e.ids = << >>
        /\ "event" # "close" /\ "event" \in {"event", "close"}
    BY <1>4, Zenon DEF Here, Carries
  <2>7. Leads(s \o d, Here, index, Here', index') /\ index' \in Nat
    BY <1>2, <2>3, <2>6, Zenon
  <2>. QED  BY <1>1, <1>4, <2>5, <2>6, <2>7, AsideNone, StreamInv, Zenon
<1>5. CASE /\ e.kind \in {"call", "calls"} /\ CallsOf(e) /\ NoBlocks /\ UNCHANGED lost
           /\ Stream(<< >>, "event")
  <2>1. "event" # "close" /\ "event" \in {"event", "close"}
    BY Zenon
  <2>. QED  BY <1>1, <1>5, <2>1, AsideNone, AsideInv, Zenon
<1>6. CASE /\ e.kind \in {"notice", "vectors"} /\ NoBlocks /\ UNCHANGED <<passed_on, lost>>
           /\ Stream(<< >>, "event")
  <2>1. "event" # "close" /\ "event" \in {"event", "close"} /\ e.ids = << >>
    BY <1>6, Zenon DEF Carries
  <2>. QED  BY <1>1, <1>6, <2>1, AsideNone, AsideInv, Zenon
<1>7. CASE /\ e.kind = "error" /\ NoBlocks /\ UNCHANGED <<passed_on, lost>>
           /\ Stream(<<Frame("failed", 0)>>, "close")
  <2>. DEFINE v == <<Frame("failed", 0)>>
  <2>1. Aside(v) /\ v # << >> /\ v[Len(v)].event = "failed"
    BY <1>3, AsideOne, Zenon
  <2>2. "event" # "close" /\ "close" \in {"event", "close"} /\ e.ids = << >>
    BY <1>7, Zenon DEF Carries
  <2>. HIDE DEF v
  <2>3. Stream(v, "close")
    BY <1>7, Zenon DEF v
  <2>. QED  BY <1>1, <1>3, <1>7, <2>1, <2>2, <2>3, AsideInv, Zenon
<1>8. CASE /\ e.kind \in {"done", "eof"} /\ text_open' = FALSE /\ UNCHANGED <<passed_on, lost>>
           /\ index' = after_text + Len(passed_on)
           /\ Stream((IF text_open THEN <<Frame("delta", index), Frame("delta", index)>>
                                   ELSE << >>)
                       \o close_text_block \o Blocks(passed_on, after_text)
                       \o <<Frame("completed", 0)>>, "close")
  <2>. DEFINE d == <<Frame("delta", index)>>
              s == IF text_open THEN <<Frame("delta", index), Frame("delta", index)>> ELSE << >>
              t == s \o close_text_block
              u == t \o Blocks(passed_on, after_text)
              v == <<Frame("completed", 0)>>
  <2>1. Leads(s, Here, index, Here, index)
    <3>1. CASE text_open
      <4>1. s = d \o d
        BY <3>1
      <4>2. Here = "in" /\ Leads(d, "in", index, "in", index)
        BY <1>2, <3>1, LeadsOne, Zenon DEF Here
      <4>. HIDE DEF d, s
      <4>3. Leads(d \o d, "in", index, "in", index)
        BY <1>2, <4>2, LeadsConcat, Zenon
      <4>. QED  BY <4>1, <4>2, <4>3, Zenon
    <3>2. CASE ~ text_open
      BY <1>2, <3>2, LeadsOne, Zenon
    <3>. QED  BY <3>1, <3>2, Zenon
  <2>2. Aside(v) /\ v # << >> /\ v[Len(v)].event = "completed"
    BY <1>3, AsideOne, Zenon
  <2>3. Stream(u \o v, "close")
    BY <1>8, Zenon
  <2>. HIDE DEF d, s, v
  <2>4. Leads(t, Here, index, "between", after_text)
    BY <1>2, <2>1, LeadsConcat, Zenon
  <2>5. passed_on \in Seq(Nat) /\ index' \in Nat
    <3>1. passed_on \in Seq(Nat)
      BY Zenon DEF ShimInv, ShimTyped
    <3>2. Len(passed_on) \in Nat
      BY <3>1, SeqLen, Zenon
    <3>. QED  BY <1>2, <1>8, <3>1, <3>2
  <2>6. Leads(Blocks(passed_on, after_text), "between", after_text, "between", index')
    BY <1>2, <1>8, <2>5, BlocksLead, Zenon
  <2>. HIDE DEF t
  <2>7. Leads(u, Here, index, "between", index')
    BY <1>2, <2>4, <2>5, <2>6, LeadsConcat, Zenon
  <2>8. /\ Here' = "between" /\ text_open' \in BOOLEAN /\ ~ text_open' /\ e.ids = << >>
        /\ "event" # "close" /\ "close" \in {"event", "close"}
    BY <1>8, Zenon DEF Here, Carries
  <2>. HIDE DEF u
  <2>. QED  BY <1>1, <1>3, <1>8, <2>2, <2>3, <2>5, <2>7, <2>8, StreamInv, Zenon
<1>. QED  BY <1>1, <1>4, <1>5, <1>6, <1>7, <1>8, ReadFailedInv, Zenon DEF ResponsesEvent, ResponsesEnd

\* Every event, whichever way it is relayed.
LEMMA EventInv ==
  ASSUME ShimInv, NEW e \in Events, RelayEvent(e) \/ AskedEvent(e)
  PROVE  ShimInv'
<1>1. Carries(e)
  BY EventsCarry, Zenon
<1>2. "embeddings" \in Asks /\ "count_tokens" \in Asks /\ "messages" \in Turns /\ "responses" \in Turns
  BY Zenon DEF Asks, Turns
<1>3. CASE AskedEvent(e)
  BY <1>1, <1>2, <1>3, AskedInv, Zenon DEF AskedEvent, CountTokensEvent
<1>4. CASE RelayEvent(e)
  BY <1>1, <1>2, <1>4, ChatEventInv, ChatReplyInv, MessagesEventInv, MessagesReplyInv, ResponsesEventInv, Zenon
     DEF RelayEvent, ResponsesReply
<1>. QED  BY <1>3, <1>4, Zenon

\* The head of a stream, whole or cut short.
LEMMA HeadWritten ==
  ASSUME out = << >>, Stream(<<Status(200)>> \o Opening, "event")
  PROVE  /\ out' \in Seq(Frames) /\ HeadFirst(out') /\ InBlocks(out') /\ FinalLast(out')
         /\ \/ /\ at' = "event" /\ broken' = broken /\ out' # << >> /\ NoFinal(out')
               /\ Stands(out', "between", 0)
            \/ hung /\ broken' = TRUE /\ at' = "close"
<1>. DEFINE h == <<Status(200)>>
            w == h \o Opening
<1>1. /\ h \in Seq(Frames) /\ h # << >> /\ Len(h) = 1 /\ h[1] = Status(200)
      /\ HeadFirst(h) /\ InBlocks(h) /\ NoFinal(h) /\ FinalLast(h) /\ Stands(h, "between", 0)
  <2>1. PICK n \in Nat : n = 200
    OBVIOUS
  <2>2. /\ <<Status(n)>> \in Seq(Frames) /\ <<Status(n)>> # << >> /\ <<Status(n)>>[1] = Status(n)
        /\ Len(<<Status(n)>>) = 1 /\ HeadFirst(<<Status(n)>>) /\ InBlocks(<<Status(n)>>)
        /\ NoFinal(<<Status(n)>>) /\ FinalLast(<<Status(n)>>) /\ Stands(<<Status(n)>>, "between", 0)
    BY SoleHead, Zenon
  <2>. QED  BY <2>1, <2>2, Zenon
<1>2. Aside(Opening) /\ NoFinal(Opening) /\ Opening \in Seq(Frames) /\ Len(Opening) \in {0, 1}
  <2>1. {"message_start", "created"} \in SUBSET Others /\ {"message_start", "created"} \cap Final = {}
    BY Zenon DEF Others, Names, Final
  <2>2. \A a \in {"message_start", "created"} : Aside(<<Frame(a, 0)>>) /\ NoFinal(<<Frame(a, 0)>>)
    BY <2>1, AsideOne, Zenon
  <2>3. Aside(Opening) /\ NoFinal(Opening)
    BY <2>2, AsideNone, Zenon DEF Opening
  <2>4. Len(Opening) \in {0, 1}
    BY Zenon DEF Opening
  <2>. QED  BY <2>3, <2>4, Zenon DEF Aside, Tame
<1>. HIDE DEF h
<1>3. w \in Seq(Frames) /\ << >> \o w = w /\ << >> \o Opening = Opening
  BY <1>1, <1>2, SeqConcat, SeqConcatEmpty, Zenon
<1>4. Extends(h, w, Opening, "between", 0)
  <2>1. "between" \in Places /\ 0 \in Nat
    BY Zenon DEF Places
  <2>2. Leads(<< >>, "between", 0, "between", 0)
    BY <2>1, LeadsOne, Zenon
  <2>3. Extends(h, h \o (<< >> \o Opening), Opening, "between", 0)
    BY <1>1, <1>2, <2>1, <2>2, Written, Zenon
  <2>. QED  BY <1>3, <2>3, Zenon
<1>5. CASE out' = out \o w /\ at' = "event" /\ UNCHANGED broken
  BY <1>2, <1>3, <1>4, <1>5, Zenon DEF Extends
<1>6. ASSUME hung, broken' = TRUE, at' = "close", NEW k \in 0..(Len(w) - 1), out' = out \o SubSeq(w, 1, k)
      PROVE  out' \in Seq(Frames) /\ HeadFirst(out') /\ InBlocks(out') /\ FinalLast(out')
  <2>1. Len(w) = 1 + Len(Opening) /\ w[1] = h[1]
    <3>1. /\ Len(w) = Len(h) + Len(Opening)
          /\ \A i \in 1..(Len(h) + Len(Opening)) :
               w[i] = IF i <= Len(h) THEN h[i] ELSE Opening[i - Len(h)]
      BY <1>1, <1>2, SeqConcat, Zenon
    <3>. HIDE DEF w
    <3>. QED  BY <1>1, <1>2, <3>1
  <2>. HIDE DEF w
  <2>2. k \in {0, 1} /\ k \in 0..Len(w)
    <3>1. CASE Len(Opening) = 0
      BY <2>1, <3>1
    <3>2. CASE Len(Opening) = 1
      BY <2>1, <3>2
    <3>. QED  BY <1>2, <3>1, <3>2, Zenon
  <2>. DEFINE x == SubSeq(w, 1, k)
  <2>3. /\ x \in Seq(Frames) /\ Len(x) = k
        /\ \A i \in 1..k : x[i] = w[i]
    BY <1>3, <2>2, Prefix, Zenon
  <2>4. << >> \o x = x
    BY <2>3, SeqConcatEmpty, Zenon
  <2>. HIDE DEF x
  <2>5. CASE k = 0
    <3>1. x = << >>
      BY <2>3, <2>5
    <3>. QED  BY <1>6, <2>4, <3>1, NoReply, Zenon DEF x
  <2>6. CASE k = 1
    <3>1. \A i \in 1..1 : x[i] = h[i]
      BY <1>1, <2>1, <2>3, <2>6
    <3>2. x = h
      BY <1>1, <2>3, <2>6, <3>1, SeqSame
    <3>. QED  BY <1>1, <1>6, <2>4, <3>2, Zenon DEF x
  <2>. QED  BY <2>2, <2>5, <2>6, Zenon
<1>. QED  BY <1>5, <1>6, Zenon DEF Stream, h

LEMMA SendGenerateInv ==
  ASSUME ShimInv, SendGenerate
  PROVE  ShimInv'
<1>1. /\ at = "generate" /\ at \in Ready
      /\ UNCHANGED <<threadVars, session, hung, lost, callerVars, blockVars, callVars>>
  BY Zenon DEF SendGenerate, Relay, Ready
<1>2. UNCHANGED <<request, named, session, hung, lost, abandoned, cancels, late, text_open, index,
                  passed_on, brought, batched>>
  BY <1>1, Zenon DEF threadVars, callerVars, blockVars, callVars
<1>3. /\ session = "open" /\ out = << >> /\ ~ broken /\ ~ lost
      /\ request'.token => named'.clients
      /\ request'.stream => request'.route \in Turns
      /\ named'.require_token => request'.token
  BY <1>1, HasSession, Zenon
<1>4. /\ ~ text_open' /\ index' = 0 /\ cancels' = 0 /\ late' = 0 /\ ~ abandoned'
      /\ passed_on' = << >> /\ brought' = << >> /\ Here' = "between"
  <2>1. /\ ~ text_open /\ index = 0 /\ cancels = 0 /\ late = 0 /\ ~ abandoned
        /\ passed_on = << >> /\ brought = << >>
    BY <1>1, Zenon DEF ShimInv, Stage
  <2>. QED  BY <1>2, <2>1, Zenon DEF Here
<1>5. ASSUME at' \in {"poll", "event", "close"}, broken' \in BOOLEAN, Streamed',
             at' = "poll" => request'.route \in Turns /\ ~ request'.stream,
             at' \in {"poll", "event"} => ~ broken' /\ (request'.stream <=> out' # << >>),
             at' = "close" => broken' /\ request'.stream
      PROVE  ShimInv'
  <2>1. at' \notin Early \cup Ready \cup {"end", "hello", "attach", "main", "parse", "open"}
    BY <1>5, Zenon DEF Early, Ready
  <2>2. ShimTyped'
    BY <1>2, <1>5 DEF ShimInv, ShimTyped
  <2>3. Stage'
    BY <1>2, <1>3, <1>5, <2>1, Zenon DEF Stage
  <2>4. Caller'
    BY <1>3, <1>4, <2>1 DEF Caller
  <2>5. InStep'
    BY <1>4, Zenon DEF InStep
  <2>. QED  BY <1>5, <2>2, <2>3, <2>4, <2>5, Zenon DEF ShimInv
<1>6. CASE ~ request.stream
  <2>1. UNCHANGED <<broken, out>> /\ at' = IF request.route \in Turns THEN "poll" ELSE "event"
    BY <1>6, Zenon DEF SendGenerate
  <2>2. Streamed'
    BY <1>3, <1>4, <2>1, QuietStreamed, Zenon
  <2>3. /\ at' \in {"poll", "event", "close"} /\ at' # "close"
        /\ at' = "poll" => request'.route \in Turns
    BY <1>2, <2>1, Zenon
  <2>4. broken' \in BOOLEAN /\ ~ broken' /\ ~ request'.stream /\ out' = << >>
    BY <1>2, <1>3, <1>6, <2>1, Zenon DEF ShimInv, ShimTyped
  <2>. QED  BY <1>5, <2>2, <2>3, <2>4, Zenon
<1>7. CASE request.stream
  <2>1. /\ out' \in Seq(Frames) /\ HeadFirst(out') /\ InBlocks(out') /\ FinalLast(out')
        /\ \/ /\ at' = "event" /\ broken' = broken /\ out' # << >> /\ NoFinal(out')
              /\ Stands(out', "between", 0)
           \/ hung /\ broken' = TRUE /\ at' = "close"
    BY <1>3, <1>7, HeadWritten, Zenon DEF SendGenerate
  <2>2. broken \in BOOLEAN /\ request'.stream
    BY <1>2, <1>7, Zenon DEF ShimInv, ShimTyped
  <2>3. CASE /\ at' = "event" /\ broken' = broken /\ out' # << >> /\ NoFinal(out')
             /\ Stands(out', "between", 0)
    <3>1. at' \notin {"close", "end", "poll"} /\ at' \in {"poll", "event", "close"}
      BY <2>3, Zenon
    <3>2. at' \notin {"close", "end"} /\ at' # "poll" /\ at' # "close"
      BY <3>1, Zenon
    <3>3. Streamed'
      BY <1>4, <2>1, <2>3, <3>2, Zenon DEF Streamed
    <3>. QED  BY <1>3, <1>5, <2>2, <2>3, <3>1, <3>2, <3>3, Zenon
  <2>4. CASE broken' = TRUE /\ at' = "close"
    <3>1. at' \in {"close", "end"} /\ at' \notin {"poll", "event"} /\ at' \in {"poll", "event", "close"}
      BY <2>4, Zenon
    <3>2. Streamed'
      BY <2>1, <2>4, <3>1, Zenon DEF Streamed
    <3>3. at' # "poll" /\ broken' \in BOOLEAN
      BY <2>4, Zenon
    <3>. QED  BY <1>5, <2>2, <2>4, <3>1, <3>2, <3>3, Zenon
  <2>. QED  BY <2>1, <2>3, <2>4, Zenon
<1>. QED  BY <1>6, <1>7, Zenon

\* Polling for a client that has gone.
LEMMA PollInv ==
  ASSUME ShimInv, Poll
  PROVE  ShimInv'
<1>1. /\ at = "poll" /\ at' = "event" /\ abandoned' = hung
      /\ cancels' = cancels + (IF hung /\ ~ abandoned THEN 1 ELSE 0)
      /\ UNCHANGED <<request, named, session, hung, broken, lost, late, text_open, index,
                     passed_on, brought, batched, out>>
  BY Zenon DEF Poll, threadVars, blockVars, callVars
<1>2. /\ session = "open" /\ request.route \in Turns /\ ~ request.stream /\ ~ broken /\ ~ lost
      /\ out = << >> /\ (abandoned => hung) /\ cancels = IF abandoned THEN 1 ELSE 0
      /\ late <= 1 /\ (cancels = 0 /\ late = 1 => hung)
  BY <1>1, Zenon DEF ShimInv, Stage, Caller
<1>3. named.require_token => request.token
  BY <1>2, Zenon DEF ShimInv, Caller
<1>4. /\ late \in Nat /\ cancels \in Nat /\ hung \in BOOLEAN
  BY Zenon DEF ShimInv, ShimTyped
<1>5. /\ cancels' \in Nat /\ abandoned' \in BOOLEAN /\ (abandoned' => hung')
      /\ cancels' = (IF abandoned' THEN 1 ELSE 0) /\ late' <= 1
      /\ cancels' = 0 => ~ hung' /\ late' = 0
  <2>1. CASE hung
    <3>1. abandoned' = TRUE /\ cancels' = 1 /\ hung' /\ late' = late
      <4>1. CASE abandoned
        BY <1>1, <1>2, <2>1, <4>1
      <4>2. CASE ~ abandoned
        BY <1>1, <1>2, <2>1, <4>2, <1>4
      <4>. QED  BY <4>1, <4>2, Zenon
    <3>. QED  BY <1>2, <3>1
  <2>2. CASE ~ hung
    <3>1. ~ abandoned' /\ abandoned' = hung /\ cancels' = 0 /\ cancels = 0 /\ ~ hung' /\ late' = late
      BY <1>1, <1>2, <1>4, <2>2
    <3>2. late = 0
      BY <1>2, <1>4, <2>2, <3>1
    <3>. QED  BY <1>4, <3>1, <3>2
  <2>. QED  BY <2>1, <2>2, Zenon
<1>6. at' \notin Early \cup Ready \cup {"end", "close", "hello", "attach", "main", "parse", "open", "poll"}
  BY <1>1, Zenon DEF Early, Ready
<1>7. ShimTyped'
  BY <1>1, <1>5 DEF ShimInv, ShimTyped
<1>8. Stage'
  BY <1>1, <1>2, <1>6, Zenon DEF Stage
<1>9. Caller'
  <2>1. request.token => named.clients
    BY Zenon DEF ShimInv, Caller
  <2>. QED  BY <1>1, <1>3, <1>5, <1>6, <2>1 DEF Caller
<1>10. InStep'
  BY <1>1, Zenon DEF ShimInv, InStep
<1>11. Streamed'
  <2>1. Here' = Here /\ at \notin {"close", "end"} /\ at' \notin {"close", "end"}
    BY <1>1, Zenon DEF Here
  <2>. QED  BY <1>1, <2>1, Zenon DEF ShimInv, Streamed
<1>. QED  BY <1>7, <1>8, <1>9, <1>10, <1>11, Zenon DEF ShimInv

LEMMA CloseSessionInv ==
  ASSUME ShimInv, CloseSession
  PROVE  ShimInv'
<1>1. /\ at = "close" /\ at' = "end" /\ session' = "closed"
      /\ UNCHANGED <<request, named, hung, broken, lost, abandoned, cancels, late, text_open, index,
                     passed_on, brought, batched, out>>
  BY Zenon DEF CloseSession, Relay, threadVars, callerVars, blockVars, callVars
<1>2. session = "open" /\ (out # << >> \/ broken \/ lost \/ hung)
  BY <1>1, Zenon DEF ShimInv, Stage
<1>3. named.require_token => request.token
  BY <1>2, Zenon DEF ShimInv, Caller
<1>4. at' \notin Early \cup Ready \cup {"close", "event", "hello", "attach", "main", "parse", "open", "poll"}
  BY <1>1, Zenon DEF Early, Ready
<1>5. ShimTyped'
  BY <1>1 DEF ShimInv, ShimTyped
<1>6. Stage'
  BY <1>1, <1>2, <1>4, Zenon DEF ShimInv, Stage
<1>7. Caller'
  BY <1>1, <1>3, <1>4, Zenon DEF ShimInv, Caller
<1>8. InStep'
  BY <1>1, Zenon DEF ShimInv, InStep
<1>9. Streamed'
  <2>1. Here' = Here /\ at \in {"close", "end"} /\ at' \in {"close", "end"} /\ LastOut' = LastOut
    BY <1>1, Zenon DEF Here, LastOut
  <2>. QED  BY <1>1, <2>1, Zenon DEF ShimInv, Streamed
<1>. QED  BY <1>5, <1>6, <1>7, <1>8, <1>9, Zenon DEF ShimInv

LEMMA CallerHangsUpInv ==
  ASSUME ShimInv, CallerHangsUp
  PROVE  ShimInv'
<1>1. /\ hung' = TRUE
      /\ UNCHANGED <<request, named, at, session, broken, lost, abandoned, cancels, late, text_open, index,
                     passed_on, brought, batched, out>>
  BY Zenon DEF CallerHangsUp, Relay, threadVars, callerVars, blockVars, callVars
<1>2. ShimTyped'
  BY <1>1 DEF ShimInv, ShimTyped
<1>3. Stage'
  BY <1>1, Zenon DEF ShimInv, Stage
<1>4. Caller'
  BY <1>1, Zenon DEF ShimInv, Caller
<1>5. InStep'
  BY <1>1, Zenon DEF ShimInv, InStep
<1>6. Streamed'
  BY <1>1, Zenon DEF ShimInv, Streamed, Here, LastOut
<1>. QED  BY <1>2, <1>3, <1>4, <1>5, <1>6, Zenon DEF ShimInv

LEMMA InitShimInv == ShimInit => ShimInv
<1>. SUFFICES ASSUME ShimInit PROVE ShimInv
  BY Zenon
<1>1. at = "main" /\ at \in Early /\ at \notin {"poll", "event", "close", "end", "hello", "attach", "parse", "open"}
  BY Zenon DEF ShimInit, Early
<1>2. at \notin Ready
  BY <1>1, Zenon DEF Ready
<1>3. ShimTyped
  <2>1. request \in [door : {"none", "tcp", "unix"}, route : Turns \cup Asks \cup Plain \cup {"none"},
                    stream : BOOLEAN, token : BOOLEAN]
    BY Zenon DEF ShimInit, Nobody
  <2>2. named \in [require_token : BOOLEAN, clients : BOOLEAN]
    BY Zenon DEF ShimInit
  <2>3. << >> \in Seq(Nat) /\ 0 \in Nat /\ session \in {"none", "open", "closed", "dropped"}
    BY DEF ShimInit
  <2>. QED  BY <1>1, <2>1, <2>2, <2>3, Zenon DEF ShimInit, ShimTyped
<1>4. ~ request.stream /\ ~ request.token /\ request.route = "none"
  BY Zenon DEF ShimInit, Nobody
<1>5. Stage
  BY <1>1, <1>2, <1>4, Zenon DEF ShimInit, Stage
<1>6. Caller
  BY <1>1, <1>4, Zenon DEF ShimInit, Caller, Turns
<1>7. InStep
  BY Zenon DEF ShimInit, InStep
<1>8. Streamed
  BY <1>4, NoReply, Zenon DEF ShimInit, Streamed, Here
<1>. QED  BY <1>3, <1>5, <1>6, <1>7, <1>8, Zenon DEF ShimInv

\* Every step keeps it.
LEMMA NextShimInv == ShimInv /\ [ShimNext]_shimVars => ShimInv'
<1>. SUFFICES ASSUME ShimInv, [ShimNext]_shimVars PROVE ShimInv'
  BY Zenon
<1>1. CASE UNCHANGED shimVars
  <2>1. UNCHANGED <<request, named, at, session, hung, broken, lost, abandoned, cancels, late, text_open,
                    index, passed_on, brought, batched, out>>
    BY <1>1, Zenon DEF shimVars, threadVars, callerVars, blockVars, callVars
  <2>2. ShimTyped' /\ InStep'
    <3>1. ShimTyped'
      BY <2>1 DEF ShimInv, ShimTyped
    <3>2. InStep'
      BY <2>1, Zenon DEF ShimInv, InStep
    <3>. QED  BY <3>1, <3>2, Zenon
  <2>3. Stage'
    BY <2>1, Zenon DEF ShimInv, Stage
  <2>4. Caller'
    BY <2>1, Zenon DEF ShimInv, Caller
  <2>5. Streamed'
    BY <2>1, Zenon DEF ShimInv, Streamed, Here, LastOut
  <2>. QED  BY <2>2, <2>3, <2>4, <2>5, Zenon DEF ShimInv
<1>2. ASSUME NEW s \in Starts, ShimStart(s[1], s[2], s[3]) PROVE ShimInv'
  BY <1>2, StartInv, Zenon
<1>3. ASSUME NEW route \in Turns, NEW stream \in BOOLEAN, NEW token \in BOOLEAN,
             ReadRequest(route, stream, token)
      PROVE  ShimInv'
  BY <1>3, ReadRequestInv, Zenon
<1>4. ASSUME NEW route \in Asks \cup Plain, NEW token \in BOOLEAN, ReadRequest(route, FALSE, token)
      PROVE  ShimInv'
  BY <1>4, ReadRequestInv, Zenon
<1>. QED  BY <1>1, <1>2, <1>3, <1>4, AcceptInv, ReadFailsInv, ServeInv, ParseBodyInv, OpenSessionInv,
          DaemonGoneInv, SayHelloInv, AttachImagesInv, SendGenerateInv, PollInv, CloseSessionInv,
          CallerHangsUpInv, EventInv, Zenon DEF ShimNext

\* The invariant says what ServedOnce does.
LEMMA InvServed == ShimInv => ServedOnce
<1>. SUFFICES ASSUME ShimInv PROVE ServedOnce
  BY Zenon
<1>1. RepliedOnce
  <2>1. HeadFirst(out)
    BY Zenon DEF ShimInv, Streamed
  <2>2. at = "end" => out # << >> \/ broken \/ lost \/ hung
    BY Zenon DEF ShimInv, Stage
  <2>. QED  BY <2>1, <2>2, Zenon DEF RepliedOnce, HeadFirst
<1>2. EndsByClose
  BY Zenon DEF ShimInv, Stage, EndsByClose
<1>3. NamedOrRefused
  BY Zenon DEF ShimInv, Caller, NamedOrRefused
<1>4. HangUpNoticed
  BY DEF ShimInv, Caller, ShimTyped, HangUpNoticed
<1>. QED  BY <1>1, <1>2, <1>3, <1>4, Zenon DEF ServedOnce

\* And what RelayedWhole does.
LEMMA InvRelayed == ShimInv => RelayedWhole
<1>. SUFFICES ASSUME ShimInv PROVE RelayedWhole
  BY Zenon
<1>1. Parts = PartsOf(out)
  BY Zenon DEF Parts, PartsOf
<1>2. StreamWellFormed
  <2>1. InBlocks(out) /\ FinalLast(out)
    BY Zenon DEF ShimInv, Streamed
  <2>2. ASSUME request.stream /\ request.route # "chat", at = "end", ~ broken, ~ lost,
               out # << >>, out[1] = Status(200)
        PROVE  /\ LastOut.event \in Final
               /\ LastOut.event # "failed" =>
                    \A i \in Parts : (\A k \in Parts : k <= i) => out[i].event = "stop"
    <3>1. at \in {"close", "end"}
      BY <2>2, Zenon
    <3>2. LastOut.event \in Final /\ (LastOut.event # "failed" => ~ text_open) /\ Stands(out, Here, index)
      BY <2>2, <3>1, Zenon DEF ShimInv, Streamed
    <3>3. ASSUME ~ text_open, NEW i \in PartsOf(out), \A k \in PartsOf(out) : k <= i
          PROVE  out[i].event = "stop"
      <4>1. Here = "between" /\ Here # "in"
        BY <3>3, Zenon DEF Here
      <4>2. PICK j \in PartsOf(out) : (\A k \in PartsOf(out) : k <= j) /\ Exits(out[j], Here, index)
        BY <3>2, <3>3, Zenon DEF Stands
      <4>3. PartsOf(out) \in SUBSET Nat
        <5>1. out \in Seq(Frames)
          BY Zenon DEF ShimInv, Streamed
        <5>2. DOMAIN out = 1..Len(out) /\ Len(out) \in Nat
          BY <5>1, SeqLen, Zenon
        <5>3. PartsOf(out) \in SUBSET (DOMAIN out)
          BY Zenon DEF PartsOf
        <5>. QED  BY <5>2, <5>3
      <4>4. i <= j /\ j <= i
        BY <3>3, <4>2, Zenon
      <4>5. i = j
        BY <4>3, <4>4
      <4>. QED  BY <4>1, <4>2, <4>5, Zenon DEF Exits
    <3>. QED  BY <1>1, <3>2, <3>3, Zenon
  <2>. QED  BY <1>1, <2>1, <2>2, Zenon DEF StreamWellFormed, InBlocks, FinalLast
<1>3. CallsReach
  BY Zenon DEF ShimInv, InStep, CallsReach
<1>. QED  BY <1>2, <1>3, Zenon DEF RelayedWhole

\* One reply, one head, one Close, one Cancel and only for somebody named,
\* whatever the daemon sends and whenever the client leaves (serve and the
\* five handlers of ai-daemon-shim).
THEOREM ConnectionServedOnce == ShimSpec => []ServedOnce
<1>1. ShimSpec => []ShimInv
  BY InitShimInv, NextShimInv, PTL DEF ShimSpec
<1>. QED  BY <1>1, InvServed, PTL

\* The streams of relay_anthropic_sse and relay_responses_sse are well-formed
\* at every length, and a turn reported as a success has all its tool calls.
THEOREM TurnRelayedWhole == ShimSpec => []RelayedWhole
<1>1. ShimSpec => []ShimInv
  BY InitShimInv, NextShimInv, PTL DEF ShimSpec
<1>. QED  BY <1>1, InvRelayed, PTL
=============================================================================
