---------------------------- MODULE AuditProofs -----------------------------
(***************************************************************************)
(* Proofs about who asks and what is recorded of it: Portal and AuditLog,  *)
(* each for every value of its constants.                                  *)
(***************************************************************************)
EXTENDS Portal, AuditLog, WellFoundedInduction, TLAPS

-----------------------------------------------------------------------------
(* Sequences.                                                              *)

\* The length of a sequence, and its domain.
LEMMA SeqLen ==
  ASSUME NEW S, NEW s \in Seq(S)
  PROVE  Len(s) \in Nat /\ DOMAIN s = 1..Len(s) /\ s \in [1..Len(s) -> S]
  OBVIOUS

\* The elements of a sequence over a set are in the set.
LEMMA SeqElement ==
  ASSUME NEW S, NEW s \in Seq(S), NEW i \in 1..Len(s)
  PROVE  s[i] \in S
  OBVIOUS

\* Only the empty sequence has no elements.
LEMMA SeqEmpty ==
  ASSUME NEW S
  PROVE  /\ << >> \in Seq(S) /\ Len(<< >>) = 0
         /\ \A s \in Seq(S) : s # << >> => Len(s) \in Nat \ {0}
  OBVIOUS

\* What Append adds, and what it keeps.
LEMMA SeqAppend ==
  ASSUME NEW S, NEW s \in Seq(S), NEW e \in S
  PROVE  /\ Append(s, e) \in Seq(S) /\ Append(s, e) # << >>
         /\ Len(Append(s, e)) = Len(s) + 1 /\ Append(s, e)[Len(s) + 1] = e
         /\ \A i \in 1..Len(s) : Append(s, e)[i] = s[i]
  OBVIOUS

\* The elements of a concatenation.
LEMMA SeqConcat ==
  ASSUME NEW S, NEW s \in Seq(S), NEW t \in Seq(S)
  PROVE  /\ s \o t \in Seq(S) /\ Len(s \o t) = Len(s) + Len(t)
         /\ \A i \in 1..(Len(s) + Len(t)) :
              (s \o t)[i] = IF i <= Len(s) THEN s[i] ELSE t[i - Len(s)]
  OBVIOUS

\* The elements of a part of a sequence.
LEMMA SeqSub ==
  ASSUME NEW S, NEW s \in Seq(S), NEW m \in 1..(Len(s) + 1), NEW n \in 0..Len(s)
  PROVE  /\ SubSeq(s, m, n) \in Seq(S)
         /\ Len(SubSeq(s, m, n)) = IF m <= n THEN n - m + 1 ELSE 0
         /\ \A i \in 1..(n - m + 1) : SubSeq(s, m, n)[i] = s[m + i - 1]
  OBVIOUS

\* A sequence with another element in one place.
LEMMA SeqExcept ==
  ASSUME NEW S, NEW s \in Seq(S), NEW k \in 1..Len(s), NEW e \in S
  PROVE  /\ [s EXCEPT ![k] = e] \in Seq(S) /\ Len([s EXCEPT ![k] = e]) = Len(s)
         /\ \A i \in 1..Len(s) : [s EXCEPT ![k] = e][i] = IF i = k THEN e ELSE s[i]
  OBVIOUS

\* Sequences are the functions on 1..n.
LEMMA SeqOfFunction == \A S : Seq(S) = UNION {[1..n -> S] : n \in Nat}
  OBVIOUS

-----------------------------------------------------------------------------
(* Portal.                                                                 *)

\* flatpak_app_id reads the name of the Application section and of no other.
LEMMA InfoNames ==
  ASSUME NEW p
  PROVE  flatpak_app_id(Info(p)) = NonEmpty(p.app)
<1>. DEFINE ls == Info(p)
            Opens(l) == "section" \in DOMAIN l
            opened(k) == {i \in 1..k : "section" \in DOMAIN ls[i]}
            names == {k \in DOMAIN ls :
                        /\ "name" \in DOMAIN ls[k]
                        /\ \E i \in opened(k) : /\ \A j \in opened(k) : j <= i
                                                /\ ls[i].section = "Application"}
<1>1. /\ DOMAIN ls = 1..5
      /\ ls[1] = [section |-> "Instance"] /\ ls[2] = [name |-> "decoy"]
      /\ ls[3] = [section |-> "Application"] /\ ls[4] = [name |-> p.app]
      /\ ls[5] = [name |-> "second"]
  BY DEF Info
<1>2. /\ Opens(ls[1]) /\ ~ Opens(ls[2]) /\ Opens(ls[3]) /\ ~ Opens(ls[4]) /\ ~ Opens(ls[5])
      /\ "name" \in DOMAIN ls[2] /\ "name" \in DOMAIN ls[4] /\ "name" \in DOMAIN ls[5]
      /\ "name" \notin DOMAIN ls[1] /\ "name" \notin DOMAIN ls[3]
      /\ ls[1].section = "Instance" /\ ls[3].section = "Application" /\ ls[4].name = p.app
  BY <1>1
<1>. HIDE DEF ls, Opens
<1>3. opened(2) = {1} /\ opened(4) = {1, 3} /\ opened(5) = {1, 3}
  <2>1. 1..2 = {1, 2} /\ 1..4 = {1, 2, 3, 4} /\ 1..5 = {1, 2, 3, 4, 5}
    OBVIOUS
  <2>. QED  BY <1>2, <2>1, Zenon DEF Opens
<1>. HIDE DEF opened
<1>6. names = {4, 5}
  <2>1. DOMAIN ls = {1, 2, 3, 4, 5}
    BY <1>1
  <2>2. \A i : i \in opened(2) => ls[i].section # "Application"
    BY <1>2, <1>3, Zenon
  <2>3. \A k \in {4, 5} : 3 \in opened(k) /\ \A j \in opened(k) : j <= 3
    BY <1>3
  <2>. QED  BY <1>2, <2>1, <2>2, <2>3, Zenon
<1>7. flatpak_app_id(ls) = IF names = {} THEN NoId
                           ELSE NonEmpty(ls[CHOOSE k \in names : \A j \in names : k <= j].name)
  BY Zenon DEF flatpak_app_id, opened, names
<1>8. (CHOOSE k \in names : \A j \in names : k <= j) = 4
  <2>1. /\ \A x \in {4, 5} : (\A y \in {4, 5} : x <= y) => x = 4
        /\ \E x \in {4, 5} : \A y \in {4, 5} : x <= y
    OBVIOUS
  <2>. QED  BY <1>6, <2>1, Zenon
<1>. QED  BY <1>2, <1>6, <1>7, <1>8, Zenon DEF ls

\* The kinds of sandbox a caller may be in.
Sandboxes == {"flatpak", "snap", "complain", "bare"}

\* What the portal may assert of the process it read first.
Vouched == found = <<first.app>> /\ first.sandbox \in {"flatpak", "snap"}

\* Until another process starts, whatever is read is read of the first.
PortalReads ==
  /\ starts \in Nat \ {0}
  /\ process = NoProcess \/ process \in [start : {starts}, sandbox : Sandboxes, app : AppIds]
  /\ point \in {"flatpak", "label", "after"} =>
       /\ before \in 1..starts
       /\ starts = before => process = NoProcess \/ process = first
  /\ point = "after" /\ starts = before /\ found # NoId => Vouched
  /\ point \in {"options", "served"} => Vouched
  /\ point # "served" => asserted = NoId
  /\ asserted # NoId => /\ asserted = found
                        /\ method.name = "create_session" => ~ method.claims

\* Every step keeps what the portal has read.
LEMMA PortalStep ==
  ASSUME PortalReads, [PortalNext]_portalVars
  PROVE  PortalReads'
<1>. USE DEF PortalReads
<1>0. /\ process = NoProcess => process.start = 0 /\ process.sandbox = "none"
      /\ process # NoProcess => process.start = starts /\ process.sandbox \in Sandboxes
  BY DEF NoProcess
<1>1. CASE ReadBefore
  BY <1>0, <1>1 DEF ReadBefore, Denies, Reaches
<1>2. CASE ReadFlatpak
  <2>1. CASE process.sandbox = "flatpak"
    <3>1. /\ found' = NonEmpty(process.app) /\ point' = "after" /\ point = "flatpak"
          /\ UNCHANGED <<process, starts, method, before, first, asserted>>
      BY <1>2, <2>1, InfoNames, Zenon DEF ReadFlatpak, Reaches
    <3>2. process # NoProcess
      BY <1>0, <2>1, Zenon
    <3>3. found' # NoId => found' = <<process.app>>
      BY <3>1, Zenon DEF NonEmpty
    <3>. QED  BY <2>1, <3>1, <3>2, <3>3, Zenon DEF Vouched
  <2>2. CASE process.sandbox # "flatpak"
    BY <1>2, <2>2, Zenon DEF ReadFlatpak, Reaches
  <2>. QED  BY <2>1, <2>2, Zenon
<1>3. CASE ReadLabel
  <2>1. /\ point = "label" /\ point' = "after"
        /\ found' = (IF process = NoProcess THEN NoId ELSE snap_app_id(Label(process)))
        /\ UNCHANGED <<process, starts, method, before, first, asserted>>
    BY <1>3, Zenon DEF ReadLabel, Reaches
  <2>2. ASSUME found' # NoId
        PROVE  process # NoProcess /\ process.sandbox = "snap" /\ found' = <<process.app>>
    <3>1. process # NoProcess /\ found' = snap_app_id(Label(process))
      BY <2>1, <2>2, Zenon
    <3>2. CASE process.sandbox = "snap"
      <4>1. Label(process) = <<<<"snap", process.app, "binary">>, "enforce">>
        BY <3>2, Zenon DEF Label
      <4>2. /\ Label(process)[2] = "enforce" /\ Label(process)[1][1] = "snap"
            /\ Len(Label(process)[1]) = 3 /\ Label(process)[1][2] = process.app
        BY <4>1
      <4>3. snap_app_id(Label(process)) = NonEmpty(process.app)
        BY <4>2 DEF snap_app_id
      <4>. QED  BY <2>2, <3>1, <3>2, <4>3, Zenon DEF NonEmpty
    <3>3. CASE process.sandbox = "complain"
      <4>1. Label(process) = <<<<"snap", process.app, "binary">>, "complain">>
        BY <3>3, Zenon DEF Label
      <4>. QED  BY <2>2, <3>1, <4>1 DEF snap_app_id
    <3>4. CASE process.sandbox \notin {"snap", "complain"}
      <4>1. Label(process) = <<<<"unconfined">>, "">>
        BY <3>4, Zenon DEF Label
      <4>2. Label(process)[1][1] = "unconfined"
        <5>. DEFINE profile == <<"unconfined">>
        <5>1. profile[1] = "unconfined"
          BY Zenon
        <5>2. Label(process) = <<profile, "">>
          BY <4>1, Zenon
        <5>. HIDE DEF profile
        <5>3. \A x : <<profile, x>>[1] = profile
          BY Zenon
        <5>. QED  BY <5>1, <5>2, <5>3, Zenon
      <4>3. snap_app_id(Label(process)) = NoId
        BY <4>2, Zenon DEF snap_app_id
      <4>. QED  BY <2>2, <3>1, <4>3, Zenon
    <3>. QED  BY <3>2, <3>3, <3>4, Zenon
  <2>. QED  BY <2>1, <2>2, Zenon DEF Vouched
<1>4. CASE ReadAfter
  BY <1>0, <1>4 DEF ReadAfter, Denies, Reaches, Vouched
<1>5. CASE Serves
  BY <1>5, Zenon DEF Serves, Denies, Reaches, Vouched
<1>6. CASE ProcessEnds
  BY <1>6, Zenon DEF ProcessEnds, Vouched
<1>7. CASE ProcessStarts
  <2>1. /\ starts' = starts + 1 /\ UNCHANGED <<method, point, before, first, found, asserted>>
        /\ process' \in [start : {starts'}, sandbox : Sandboxes, app : AppIds]
    BY <1>7, Zenon DEF ProcessStarts, Sandboxes
  <2>2. /\ starts' \in Nat \ {0}
        /\ point \in {"flatpak", "label", "after"} => before \in 1..starts' /\ starts' # before
    BY <2>1
  <2>. QED  BY <2>1, <2>2, Zenon DEF Vouched
<1>8. CASE UNCHANGED portalVars
  BY <1>8, Zenon DEF portalVars, Vouched
<1>. QED  BY <1>1, <1>2, <1>3, <1>4, <1>5, <1>6, <1>7, <1>8, Zenon DEF PortalNext

\* sandbox_of and create_session (ai-daemon-portal): an id the portal asserts
\* is the one an enforcing sandbox gave to the process whose start time was
\* read first, and none the caller supplied, although the pid may pass to
\* another process between any two reads.
THEOREM PortalVouches == PortalSpec => []VouchesForOne
<1>1. PortalInit => PortalReads
  BY DEF PortalInit, PortalReads, Sandboxes
<1>2. PortalReads => VouchesForOne
  BY Zenon DEF PortalReads, VouchesForOne, Vouched
<1>. QED  BY <1>1, <1>2, PortalStep, PTL DEF PortalSpec

-----------------------------------------------------------------------------
(* The least-number principle.                                             *)

\* The least natural number of a set.
LEMMA LeastNat ==
  ASSUME NEW T, T \subseteq Nat, T # {}
  PROVE  \E n \in T : \A m \in T : n <= m
<1>. DEFINE R == {ss \in Nat \X Nat : ss[1] < ss[2]}
<1>1. IsWellFoundedOn(R, Nat)
  BY NatLessThanWellFounded, Zenon DEF OpToRel
<1>2. \E x \in T : \A y \in T : ~ (<<y, x>> \in R)
  <2>. HIDE DEF R
  <2>. QED BY <1>1, WFMin, Zenon
<1>3. PICK x \in T : \A y \in T : ~ (<<y, x>> \in R)
  BY <1>2, Zenon
<1>4. ASSUME NEW y \in T
      PROVE  x <= y
  <2>1. ~ (<<y, x>> \in R)
    BY <1>3, Zenon
  <2>2. x \in Nat /\ y \in Nat
    BY Zenon
  <2>. QED  BY <2>1, <2>2
<1>. QED  BY <1>4, Zenon

-----------------------------------------------------------------------------
(* AuditLog.  That a file which verifies is a prefix of the chain needs    *)
(* the link of the next record: it is the last one of the chain, by the    *)
(* head or by what the thread in append has read (Linking).                *)

\* An edited file is still a sequence of lines.
LEMMA EditedIsLines ==
  ASSUME lines \in Seq(Lines), NEW k \in DOMAIN lines, k < Len(lines)
  PROVE  Edited(k) \subseteq Seq(Lines)
<1>1. /\ k \in 1..Len(lines) /\ k + 1 \in 1..Len(lines) /\ k \in Int /\ Len(lines) \in Int
      /\ \A j \in 1..Len(lines) : lines[j] \in Lines
  BY SeqLen, SeqElement
<1>2. [lines EXCEPT ![k].id = Forged] \in Seq(Lines)
  <2>1. [lines[k] EXCEPT !.id = Forged] \in Lines
    <3>1. Forged \in Nat
      BY AuditAssumption DEF Forged
    <3>. QED  BY <1>1, <3>1, Zenon DEF Lines
  <2>2. [lines EXCEPT ![k] = [lines[k] EXCEPT !.id = Forged]] \in Seq(Lines)
    BY <1>1, <2>1, SeqExcept
  <2>. QED  BY <2>2, Zenon
<1>3. SubSeq(lines, 1, k - 1) \o SubSeq(lines, k + 1, Len(lines)) \in Seq(Lines)
  <2>1. SubSeq(lines, 1, k - 1) \in Seq(Lines)
    BY <1>1, SeqSub
  <2>2. SubSeq(lines, k + 1, Len(lines)) \in Seq(Lines)
    BY <1>1, SeqSub
  <2>. QED  BY <2>1, <2>2, SeqConcat, Zenon
<1>4. [lines EXCEPT ![k] = lines[k + 1], ![k + 1] = lines[k]] \in Seq(Lines)
  <2>. DEFINE half == [lines EXCEPT ![k] = lines[k + 1]]
  <2>1. half \in Seq(Lines) /\ Len(half) = Len(lines)
    BY <1>1, SeqExcept
  <2>2. [half EXCEPT ![k + 1] = lines[k]] \in Seq(Lines)
    BY <1>1, <2>1, SeqExcept
  <2>. QED  BY <2>2, Zenon
<1>. QED  BY <1>2, <1>3, <1>4, Zenon DEF Edited

\* So is one that text is appended to, and whole text after a newline is a
\* line of its own.
LEMMA AppendedIsLines ==
  ASSUME lines \in Seq(Lines), NEW line \in Lines, ragged => lines # << >>
  PROVE  /\ Appended(line) \in Seq(Lines) /\ Appended(line) # << >>
         /\ ~ ragged => Appended(line) = Append(lines, line)
<1>1. CASE ~ ragged
  BY <1>1, SeqAppend DEF Appended
<1>2. CASE ragged
  <2>1. Len(lines) \in 1..Len(lines)
    BY <1>2, SeqEmpty, SeqLen
  <2>2. lines[Len(lines)] \in Lines
    BY <2>1, SeqElement, Zenon
  <2>. DEFINE l == Line(lines[Len(lines)].id, lines[Len(lines)].prev, FALSE)
  <2>3. l \in Lines
    BY <2>2, Zenon DEF Line, Lines
  <2>. HIDE DEF l
  <2>4. /\ [lines EXCEPT ![Len(lines)] = l] \in Seq(Lines)
        /\ Len([lines EXCEPT ![Len(lines)] = l]) = Len(lines)
    BY <2>1, <2>3, SeqExcept
  <2>5. Appended(line) = [lines EXCEPT ![Len(lines)] = l]
    BY <1>2, Zenon DEF Appended, l
  <2>. QED  BY <1>2, <2>1, <2>4, <2>5, SeqEmpty, Zenon
<1>. QED  BY <1>1, <1>2, Zenon

\* A line that carries the hash of the last line keeps the chain.
LEMMA AppendKeepsChain ==
  ASSUME NEW ls \in Seq(Lines), NEW l \in Lines, l.record, l.prev = LastId(ls),
         \A k \in DOMAIN ls : ~ Breaks(ls, k)
  PROVE  /\ \A k \in DOMAIN Append(ls, l) : ~ Breaks(Append(ls, l), k)
         /\ LastId(Append(ls, l)) = l.id
<1>1. /\ DOMAIN ls = 1..Len(ls) /\ Len(ls) \in Nat /\ (ls = << >> <=> Len(ls) = 0)
      /\ DOMAIN Append(ls, l) = 1..(Len(ls) + 1) /\ Len(Append(ls, l)) = Len(ls) + 1
      /\ \A i \in 1..Len(ls) : Append(ls, l)[i] = ls[i]
      /\ Append(ls, l)[Len(ls) + 1] = l /\ Append(ls, l) # << >>
  BY SeqLen, SeqAppend, SeqEmpty
<1>2. ASSUME NEW k \in 1..Len(ls) PROVE ~ Breaks(Append(ls, l), k)
  <2>1. k \in 1..Len(ls) /\ ~ Breaks(ls, k) /\ (k # 1 => k - 1 \in 1..Len(ls))
    BY <1>1
  <2>. QED  BY <1>1, <2>1, Zenon DEF Breaks
<1>3. ~ Breaks(Append(ls, l), Len(ls) + 1)
  <2>1. CASE Len(ls) = 0
    BY <1>1, <2>1 DEF Breaks, LastId
  <2>2. CASE Len(ls) # 0
    <3>1. Len(ls) \in 1..Len(ls) /\ Len(ls) + 1 # 1 /\ (Len(ls) + 1) - 1 = Len(ls)
      BY <1>1, <2>2
    <3>. QED  BY <1>1, <2>2, <3>1 DEF Breaks, LastId
  <2>. QED  BY <2>1, <2>2, Zenon
<1>4. \A k \in 1..(Len(ls) + 1) : k \in 1..Len(ls) \/ k = Len(ls) + 1
  BY <1>1
<1>. QED  BY <1>1, <1>2, <1>3, <1>4, Zenon DEF LastId

\* No thread is in append while nobody holds the file mutex.
LEMMA NobodyInside ==
  ASSUME AppendsInTurn, holder = NoWriter
  PROVE  \A w \in Writers : place[w] \in {"idle", "append"}
BY AuditAssumption, Zenon DEF AppendsInTurn

\* The steps outside append: start, stop, kill, edit, and a new record.
LEMMA OutsideKeeps ==
  ASSUME AppendsInTurn, ChainLinked,
         \/ AuditStart \/ AuditStop \/ AuditKill \/ AuditTamper
         \/ \E w \in Writers : AuditWrite(w)
  PROVE  AppendsInTurn' /\ ChainLinked'
<1>0. /\ lines \in Seq(Lines) /\ (ragged => lines # << >>)
      /\ rec \in [Writers -> {l \in Lines : l.record}]
      /\ place \in [Writers -> {"idle", "append", "link", "head", "text", "newline", "unlock"}]
      /\ faults \in Nat /\ issued \in Nat /\ head \in Nat
  BY Zenon DEF AppendsInTurn
<1>1. CASE AuditStart
  <2>1. /\ ~ running /\ running' = TRUE /\ file' \in BOOLEAN
        /\ head' = IF file' THEN head_of(lines) ELSE NoHash
        /\ UNCHANGED <<lines, ragged, holder, place, rec, issued, faults, tampered>>
    BY <1>1 DEF AuditStart
  <2>2. holder \notin Writers /\ \A w \in Writers : place[w] \in {"idle", "append"}
    BY <2>1, Zenon DEF AppendsInTurn
  <2>3. head_of(lines) \in Nat /\ (lines # << >> => lines[Len(lines)] \in Lines)
    <3>1. lines # << >> => Len(lines) \in 1..Len(lines)
      BY <1>0, SeqEmpty
    <3>2. lines # << >> => lines[Len(lines)] \in Lines
      BY <1>0, <3>1, SeqElement, Zenon
    <3>. QED  BY <3>2, Zenon DEF head_of, NoHash, Lines
  <2>4. head' \in Nat
    BY <2>1, <2>3, Zenon DEF NoHash
  <2>5. (\A k \in DOMAIN lines : ~ Breaks(lines, k)) => head_of(lines) = LastId(lines)
    <3>1. lines # << >> => Len(lines) \in DOMAIN lines
      BY <1>0, SeqEmpty, SeqLen
    <3>. QED  BY <3>1, Zenon DEF head_of, LastId, Breaks
  <2>6. AppendsInTurn'
    BY <2>1, <2>2, <2>4, Zenon DEF AppendsInTurn
  <2>7. ChainLinked'
    BY <2>1, <2>2, <2>5, Zenon DEF ChainLinked
  <2>. QED  BY <2>6, <2>7, Zenon
<1>2. CASE AuditStop
  <2>1. /\ running' = FALSE /\ file' = FALSE /\ head' = NoHash /\ holder' = NoWriter
        /\ place' = [w \in Writers |-> "idle"]
        /\ \A w \in Writers : place[w] \in {"idle", "append"}
        /\ UNCHANGED <<rec, issued, tampered, lines, ragged, faults>>
    BY <1>2, Zenon DEF AuditStop, Down
  <2>2. AppendsInTurn'
    BY <2>1, AuditAssumption, Zenon DEF AppendsInTurn, NoHash
  <2>3. ChainLinked'
    BY <2>1, Zenon DEF ChainLinked
  <2>. QED  BY <2>2, <2>3, Zenon
<1>3. CASE AuditKill
  <2>1. /\ running' = FALSE /\ file' = FALSE /\ head' = NoHash /\ holder' = NoWriter
        /\ place' = [w \in Writers |-> "idle"] /\ faults' = faults + 1
        /\ UNCHANGED <<rec, issued, tampered>>
    BY <1>3, Zenon DEF AuditKill, Down
  <2>2. lines' \in Seq(Lines) /\ ragged' \in BOOLEAN /\ (ragged' => lines' # << >>)
    <3>1. \/ UNCHANGED <<lines, ragged>>
          \/ \E w \in Writers : /\ lines' = Appended(Line(rec[w].id, rec[w].prev, FALSE))
                                /\ ragged' = TRUE
      BY <1>3, Zenon DEF AuditKill
    <3>2. \A w \in Writers : Line(rec[w].id, rec[w].prev, FALSE) \in Lines
      BY <1>0, Zenon DEF Line, Lines
    <3>3. CASE UNCHANGED <<lines, ragged>>
      BY <1>0, <3>3, Zenon DEF AppendsInTurn
    <3>4. ASSUME NEW w \in Writers, lines' = Appended(Line(rec[w].id, rec[w].prev, FALSE)),
                 ragged' = TRUE
          PROVE  lines' \in Seq(Lines) /\ ragged' \in BOOLEAN /\ (ragged' => lines' # << >>)
      BY <1>0, <3>2, <3>4, AppendedIsLines, Zenon
    <3>. QED  BY <3>1, <3>3, <3>4, Zenon
  <2>3. AppendsInTurn'
    BY <1>0, <2>1, <2>2, AuditAssumption DEF AppendsInTurn, NoHash
  <2>4. faults' # 0
    BY <1>0, <2>1
  <2>. QED  BY <2>3, <2>4, Zenon DEF ChainLinked
<1>4. CASE AuditTamper
  <2>1. /\ ~ ragged /\ tampered' = TRUE
        /\ UNCHANGED <<ragged, head, file, running, holder, place, rec, issued, faults>>
    BY <1>4, Zenon DEF AuditTamper
  <2>2. lines' \in Seq(Lines)
    BY <1>0, <1>4, EditedIsLines, Zenon DEF AuditTamper
  <2>. QED  BY <2>1, <2>2, Zenon DEF AppendsInTurn, ChainLinked
<1>5. ASSUME NEW w \in Writers, AuditWrite(w) PROVE AppendsInTurn' /\ ChainLinked'
  <2>1. /\ place[w] = "idle" /\ place' = [place EXCEPT ![w] = "append"]
        /\ rec' = [rec EXCEPT ![w] = NewRecord(issued + 1)] /\ issued' = issued + 1
        /\ UNCHANGED <<lines, ragged, head, file, running, holder, faults, tampered>>
    BY <1>5, Zenon DEF AuditWrite
  <2>2. NewRecord(issued + 1) \in {l \in Lines : l.record}
    BY <1>0 DEF NewRecord, Line, Lines, NoHash
  <2>3. \A v \in Writers : /\ v # w => rec'[v] = rec[v] /\ place'[v] = place[v]
                           /\ \A l \in {"link", "head", "text", "newline", "unlock"} :
                                place'[v] = l <=> place[v] = l
    BY <1>0, <2>1, Zenon
  <2>4. AppendsInTurn'
    BY <1>0, <2>1, <2>2, <2>3 DEF AppendsInTurn
  <2>5. ChainLinked'
    BY <1>0, <2>1, <2>3 DEF ChainLinked
  <2>. QED  BY <2>4, <2>5, Zenon
<1>. QED  BY <1>1, <1>2, <1>3, <1>4, <1>5, Zenon

\* The steps of append.
LEMMA AppendKeeps ==
  ASSUME AppendsInTurn, ChainLinked, NEW w \in Writers,
         \/ AuditLock(w) \/ AuditTakePrev(w) \/ AuditMoveHead(w) \/ AuditText(w)
         \/ AuditNewline(w) \/ AuditUnlock(w)
  PROVE  AppendsInTurn' /\ ChainLinked'
<1>0. /\ lines \in Seq(Lines) /\ (ragged => lines # << >>) /\ ragged \in BOOLEAN
      /\ rec \in [Writers -> {l \in Lines : l.record}]
      /\ place \in [Writers -> {"idle", "append", "link", "head", "text", "newline", "unlock"}]
      /\ faults \in Nat /\ issued \in Nat /\ head \in Nat
  BY Zenon DEF AppendsInTurn
\* Whoever has left "append" is alone there.
<1>1. place[w] \notin {"idle", "append"}
        => holder = w /\ file /\ \A v \in Writers : v # w => place[v] \in {"idle", "append"}
  BY Zenon DEF AppendsInTurn
<1>2. CASE AuditLock(w)
  <2>1. /\ place[w] = "append" /\ holder = NoWriter /\ holder' = (IF file THEN w ELSE holder)
        /\ place' = [place EXCEPT ![w] = IF file THEN "link" ELSE "idle"]
        /\ UNCHANGED <<lines, ragged, head, file, running, rec, issued, faults, tampered>>
    BY <1>2, Zenon DEF AuditLock
  <2>2. \A v \in Writers : /\ place[v] \in {"idle", "append"}
                           /\ v # w => place'[v] = place[v]
                           /\ place'[w] = IF file THEN "link" ELSE "idle"
    BY <1>0, <2>1, NobodyInside, Zenon
  <2>3. AppendsInTurn'
    BY <1>0, <2>1, <2>2, AuditAssumption, Zenon DEF AppendsInTurn
  <2>4. ChainLinked'
    BY <2>1, <2>2 DEF ChainLinked
  <2>. QED  BY <2>3, <2>4, Zenon
<1>3. CASE AuditTakePrev(w)
  <2>1. /\ place[w] = "link" /\ place' = [place EXCEPT ![w] = "head"]
        /\ rec' = [rec EXCEPT ![w].prev = head]
        /\ UNCHANGED <<lines, ragged, head, file, running, holder, issued, faults, tampered>>
    BY <1>3, Zenon DEF AuditTakePrev
  <2>2. /\ rec' \in [Writers -> {l \in Lines : l.record}] /\ rec'[w].prev = head
        /\ place'[w] = "head" /\ \A v \in Writers : v # w => place'[v] = place[v]
    BY <1>0, <2>1, Zenon DEF Lines
  <2>3. AppendsInTurn'
    BY <1>0, <2>1, <2>2, Zenon DEF AppendsInTurn
  <2>4. ChainLinked'
    BY <1>1, <2>1, <2>2, Zenon DEF ChainLinked
  <2>. QED  BY <2>3, <2>4, Zenon
<1>4. CASE AuditMoveHead(w)
  <2>1. /\ place[w] = "head" /\ place' = [place EXCEPT ![w] = "text"] /\ head' = rec[w].id
        /\ UNCHANGED <<lines, ragged, file, running, holder, rec, issued, faults, tampered>>
    BY <1>4, Zenon DEF AuditMoveHead
  <2>2. /\ head' \in Nat
        /\ place'[w] = "text" /\ \A v \in Writers : v # w => place'[v] = place[v]
    BY <1>0, <2>1, Zenon DEF Lines
  <2>3. AppendsInTurn'
    BY <1>0, <2>1, <2>2, Zenon DEF AppendsInTurn
  <2>4. ChainLinked'
    BY <1>1, <2>1, <2>2, Zenon DEF ChainLinked
  <2>. QED  BY <2>3, <2>4, Zenon
<1>5. CASE AuditText(w)
  <2>1. place[w] = "text" /\ UNCHANGED <<head, file, running, holder, rec, issued, tampered>>
    BY <1>5, Zenon DEF AuditText
  <2>2. rec[w] \in Lines /\ rec[w].record /\ Line(rec[w].id, rec[w].prev, FALSE) \in Lines
    BY <1>0, Zenon DEF Lines, Line
  <2>3. ASSUME NEW l \in {"newline", "unlock"}, place' = [place EXCEPT ![w] = l], faults' \in Nat,
               lines' \in Seq(Lines), ragged' \in BOOLEAN, ragged' => lines' # << >>
        PROVE  AppendsInTurn'
    BY <1>0, <2>1, <2>3, Zenon DEF AppendsInTurn
  <2>4. CASE /\ lines' = Appended(rec[w]) /\ ragged' = TRUE /\ faults' = faults
             /\ place' = [place EXCEPT ![w] = "newline"]
    <3>1. lines' \in Seq(Lines) /\ lines' # << >>
      BY <1>0, <2>2, <2>4, AppendedIsLines, Zenon
    <3>2. AppendsInTurn'
      BY <1>0, <2>3, <2>4, <3>1, Zenon
    <3>3. ASSUME faults = 0, ~ tampered PROVE ChainLinked'
      <4>1. ~ ragged /\ head = rec[w].id /\ rec[w].prev = LastId(lines)
        BY <1>1, <2>1, <3>3, Zenon DEF ChainLinked
      <4>2. lines' = Append(lines, rec[w])
        BY <1>0, <2>2, <2>4, <4>1, AppendedIsLines, Zenon
      <4>3. \A k \in DOMAIN lines : ~ Breaks(lines, k)
        BY <3>3, Zenon DEF ChainLinked
      <4>4. (\A k \in DOMAIN lines' : ~ Breaks(lines', k)) /\ LastId(lines') = rec[w].id
        BY <1>0, <2>2, <4>1, <4>2, <4>3, AppendKeepsChain, Zenon
      <4>5. place'[w] = "newline" /\ \A v \in Writers : v # w => place'[v] = place[v]
        BY <1>0, <2>4, Zenon
      <4>. QED  BY <1>1, <2>1, <2>4, <4>1, <4>4, <4>5, Zenon DEF ChainLinked
    <3>. QED  BY <2>1, <2>4, <3>2, <3>3, Zenon DEF ChainLinked
  <2>5. CASE /\ faults' = faults + 1 /\ place' = [place EXCEPT ![w] = "unlock"]
             /\ \/ UNCHANGED <<lines, ragged>>
                \/ lines' = Appended(Line(rec[w].id, rec[w].prev, FALSE)) /\ ragged' = TRUE
    <3>1. lines' \in Seq(Lines) /\ ragged' \in BOOLEAN /\ (ragged' => lines' # << >>)
      <4>1. CASE UNCHANGED <<lines, ragged>>
        BY <1>0, <4>1, Zenon
      <4>2. CASE lines' = Appended(Line(rec[w].id, rec[w].prev, FALSE)) /\ ragged' = TRUE
        BY <1>0, <2>2, <4>2, AppendedIsLines, Zenon
      <4>. QED  BY <2>5, <4>1, <4>2, Zenon
    <3>2. faults' \in Nat /\ faults' # 0
      BY <1>0, <2>5
    <3>3. AppendsInTurn'
      BY <2>3, <2>5, <3>1, <3>2, Zenon
    <3>. QED  BY <3>2, <3>3, Zenon DEF ChainLinked
  <2>. QED  BY <1>5, <2>4, <2>5, Zenon DEF AuditText
<1>6. CASE AuditNewline(w)
  <2>1. /\ place[w] = "newline" /\ place' = [place EXCEPT ![w] = "unlock"]
        /\ \/ ragged' = FALSE /\ faults' = faults
           \/ ragged' = ragged /\ faults' = faults + 1
        /\ UNCHANGED <<lines, head, file, running, holder, rec, issued, tampered>>
    BY <1>6, Zenon DEF AuditNewline
  <2>2. /\ place'[w] = "unlock" /\ \A v \in Writers : v # w => place'[v] = place[v]
        /\ place' \in [Writers -> {"idle", "append", "link", "head", "text", "newline", "unlock"}]
        /\ faults' \in Nat /\ (faults' = 0 => faults = 0 /\ ragged' = FALSE)
        /\ ragged' \in BOOLEAN /\ (ragged' => lines' # << >>)
    <3>1. CASE ragged' = FALSE /\ faults' = faults
      BY <1>0, <2>1, <3>1, Zenon
    <3>2. CASE ragged' = ragged /\ faults' = faults + 1
      BY <1>0, <2>1, <3>2
    <3>. QED  BY <2>1, <3>1, <3>2, Zenon
  <2>3. AppendsInTurn'
    BY <1>0, <2>1, <2>2, Zenon DEF AppendsInTurn
  <2>4. ChainLinked'
    BY <1>1, <2>1, <2>2, Zenon DEF ChainLinked
  <2>. QED  BY <2>3, <2>4, Zenon
<1>7. CASE AuditUnlock(w)
  <2>1. /\ place[w] = "unlock" /\ place' = [place EXCEPT ![w] = "idle"] /\ holder' = NoWriter
        /\ UNCHANGED <<lines, ragged, head, file, running, rec, issued, faults, tampered>>
    BY <1>7, Zenon DEF AuditUnlock
  <2>2. place'[w] = "idle" /\ \A v \in Writers : v # w => place'[v] = place[v]
    BY <1>0, <2>1, Zenon
  <2>3. AppendsInTurn'
    BY <1>0, <1>1, <2>1, <2>2, AuditAssumption, Zenon DEF AppendsInTurn
  <2>4. ChainLinked'
    BY <1>1, <2>1, <2>2, Zenon DEF ChainLinked
  <2>. QED  BY <2>3, <2>4, Zenon
<1>. QED  BY <1>2, <1>3, <1>4, <1>5, <1>6, <1>7, Zenon

-----------------------------------------------------------------------------
(* And what holds after kills, failures and edits.                         *)

\* The file has no bad line.
Unbroken(ls) == \A k \in DOMAIN ls : ~ Breaks(ls, k)

\* verify reports no line exactly when no line is bad.
LEMMA VerifyIsUnbroken ==
  ASSUME NEW ls \in Seq(Lines)
  PROVE  verify(ls) = 0 <=> Unbroken(ls)
<1>. DEFINE bad == {k \in DOMAIN ls : Breaks(ls, k)}
<1>1. bad \subseteq Nat /\ 0 \notin bad /\ (bad = {} <=> Unbroken(ls))
  BY DEF Unbroken
<1>. DEFINE least == CHOOSE k \in bad : \A j \in bad : k <= j
<1>2. verify(ls) = IF bad = {} THEN 0 ELSE least
  BY Zenon DEF verify
<1>. HIDE DEF bad
<1>3. bad # {} => least \in bad
  <2>1. bad # {} => \E n \in bad : \A m \in bad : n <= m
    BY <1>1, LeastNat, Zenon
  <2>. QED  BY <2>1, Zenon
<1>. QED  BY <1>1, <1>2, <1>3, Zenon

\* A break stays, and text run into an unfinished line, or cut short, is one.
LEMMA BreaksStay ==
  ASSUME lines \in Seq(Lines), NEW line \in Lines, ragged \in BOOLEAN, ragged => lines # << >>
  PROVE  Unbroken(Appended(line)) =>
           /\ Unbroken(lines) /\ ~ ragged /\ line.record /\ line.prev = LastId(lines)
           /\ Appended(line) = Append(lines, line)
<1>. SUFFICES ASSUME Unbroken(Appended(line))
              PROVE  /\ Unbroken(lines) /\ ~ ragged /\ line.record /\ line.prev = LastId(lines)
                     /\ Appended(line) = Append(lines, line)
  BY Zenon
<1>. DEFINE n == Len(lines)
<1>0. n \in Nat /\ DOMAIN lines = 1..n /\ (lines = << >> <=> n = 0)
  BY SeqLen, SeqEmpty, Zenon
<1>1. ~ ragged
  <2>. SUFFICES ASSUME ragged PROVE FALSE
    BY Zenon
  <2>. DEFINE l == Line(lines[n].id, lines[n].prev, FALSE)
  <2>1. Appended(line) = [lines EXCEPT ![n] = l] /\ n \in DOMAIN lines
    BY <1>0 DEF Appended
  <2>2. n \in DOMAIN Appended(line) /\ Appended(line)[n] = l /\ l.record = FALSE
    BY <2>1, Zenon DEF Line
  <2>. QED  BY <2>2, Zenon DEF Unbroken, Breaks
<1>2. Appended(line) = Append(lines, line)
  BY <1>1, Zenon DEF Appended
<1>3. /\ DOMAIN Append(lines, line) = 1..(n + 1)
      /\ \A i \in 1..n : Append(lines, line)[i] = lines[i]
      /\ Append(lines, line)[n + 1] = line
  BY SeqAppend
<1>4. ASSUME NEW k \in 1..n PROVE ~ Breaks(lines, k)
  <2>1. k \in 1..(n + 1) /\ (k # 1 => k - 1 \in 1..n)
    BY <1>0
  <2>2. ~ Breaks(Append(lines, line), k)
    BY <1>2, <1>3, <2>1, Zenon DEF Unbroken
  <2>. QED  BY <1>3, <2>1, <2>2, Zenon DEF Breaks
<1>5. line.record /\ line.prev = LastId(lines)
  <2>1. n + 1 \in 1..(n + 1) /\ (n # 0 => n \in 1..n) /\ (n + 1 = 1 <=> n = 0) /\ (n + 1) - 1 = n
    BY <1>0
  <2>2. ~ Breaks(Append(lines, line), n + 1)
    BY <1>2, <1>3, <2>1, Zenon DEF Unbroken
  <2>. QED  BY <1>0, <1>3, <2>1, <2>2, Zenon DEF Breaks, LastId
<1>. QED  BY <1>0, <1>1, <1>2, <1>4, <1>5, Zenon DEF Unbroken

-----------------------------------------------------------------------------
\* The records on their way to the file.
Coming == {w \in Writers : place[w] \in {"append", "link", "head", "text"}}

\* What is known of the records' numbers whatever happens.
Known ==
  /\ issued \in 0..MaxRecords
  /\ journal \cap stderr = {} /\ journal \cup stderr = 1..issued
  /\ \A w \in Coming : rec[w].id \in 1..issued
  /\ \A k \in DOMAIN lines : lines[k].id = Forged \/ lines[k].id \in 1..issued
  /\ chain \in Seq(Nat)
  /\ tampered \in BOOLEAN /\ (tampered => ~ Unbroken(lines))

\* And what is known of the file and the chain until somebody edits it.
Numbered ==
  /\ \A k \in DOMAIN lines : lines[k].id \in 1..issued
  /\ \A j, k \in DOMAIN lines : lines[j].id = lines[k].id => j = k
  /\ \A w \in Coming : \A k \in DOMAIN lines : lines[k].id # rec[w].id
  /\ \A v, w \in Coming : rec[v].id = rec[w].id => v = w
  /\ \A k \in DOMAIN chain : chain[k] \in 1..issued
  /\ \A j, k \in DOMAIN chain : chain[j] = chain[k] => j = k
  /\ \A w \in Coming : place[w] # "text" => \A k \in DOMAIN chain : chain[k] # rec[w].id

\* The number the next link has to carry, for the daemon.
LastLinked(c) == IF c = << >> THEN NoHash ELSE c[Len(c)]

\* In an unbroken file the lines are the chain, and the next record links to
\* its end: by the daemon's head, or by what the thread in append has read of
\* it.
Linking ==
  Unbroken(lines) =>
    /\ Len(lines) <= Len(chain) /\ \A k \in DOMAIN lines : lines[k].id = chain[k]
    /\ file => head = LastLinked(chain)
    /\ \A w \in Writers : place[w] = "head" => rec[w].prev = head
    /\ \A w \in Writers : place[w] = "text" =>
         /\ Len(chain) > 0 /\ rec[w].id = chain[Len(chain)]
         /\ rec[w].prev = IF Len(chain) = 1 THEN NoHash ELSE chain[Len(chain) - 1]

\* Together.
AuditBooks == Known /\ (~ tampered => Numbered /\ Linking)

\* The types the arguments use.
LEMMA Typed ==
  ASSUME AppendsInTurn
  PROVE  /\ lines \in Seq(Lines) /\ (ragged => lines # << >>) /\ ragged \in BOOLEAN
         /\ rec \in [Writers -> {l \in Lines : l.record}]
         /\ place \in [Writers -> {"idle", "append", "link", "head", "text", "newline", "unlock"}]
         /\ faults \in Nat /\ issued \in Nat /\ head \in Nat
         /\ Len(lines) \in Nat /\ DOMAIN lines = 1..Len(lines)
         /\ (lines = << >> <=> Len(lines) = 0)
  BY SeqEmpty, SeqLen, Zenon DEF AppendsInTurn

\* Every edit of a line but the last breaks the chain.
LEMMA EditsShow ==
  ASSUME AppendsInTurn, Known, Numbered, Unbroken(lines), NEW k \in DOMAIN lines,
         k < Len(lines), NEW after \in Edited(k)
  PROVE  /\ ~ Unbroken(after)
         /\ \A j \in DOMAIN after : after[j].id = Forged \/ after[j].id \in 1..issued
<1>. DEFINE n == Len(lines)
            prior == IF k = 1 THEN NoHash ELSE lines[k - 1].id
<1>1. /\ n \in Nat /\ DOMAIN lines = 1..n /\ k \in 1..n /\ k + 1 \in 1..n /\ (k # 1 => k - 1 \in 1..n)
      /\ k \in Nat /\ k + 1 # 1 /\ (k + 1) - 1 = k /\ k - 1 # k
      /\ \A j \in 1..n : lines[j] \in Lines
  BY Typed, SeqElement
<1>2. \A j \in 1..n : lines[j].id \in 1..issued
  BY <1>1, Zenon DEF Numbered
\* The link that an edit leaves dangling.
<1>3. /\ lines[k + 1].prev = lines[k].id /\ lines[k].id # prior
      /\ lines[k].id # Forged
  <2>1. lines[k + 1].prev = lines[k].id
    BY <1>1, Zenon DEF Unbroken, Breaks
  <2>2. lines[k].id # prior
    <3>1. lines[k].id # NoHash
      BY <1>1, <1>2 DEF NoHash
    <3>2. k # 1 => lines[k].id # lines[k - 1].id
      BY <1>1, Zenon DEF Numbered
    <3>. QED  BY <3>1, <3>2, Zenon
  <2>3. lines[k].id # Forged
    BY <1>1, <1>2, AuditAssumption DEF Known, Forged
  <2>. QED  BY <2>1, <2>2, <2>3, Zenon
<1>4. CASE after = [lines EXCEPT ![k].id = Forged]
  <2>0. after = [lines EXCEPT ![k] = [lines[k] EXCEPT !.id = Forged]]
    BY <1>4, Zenon
  <2>1. DOMAIN after = 1..n /\ after[k] = [lines[k] EXCEPT !.id = Forged]
        /\ \A j \in 1..n : j # k => after[j] = lines[j]
    BY <1>1, <2>0, Zenon
  <2>2. after[k].id = Forged
    BY <1>1, <2>1, Zenon DEF Lines
  <2>3. Breaks(after, k + 1)
    BY <1>1, <1>3, <2>1, <2>2, Zenon DEF Breaks
  <2>. QED  BY <1>1, <1>2, <2>1, <2>2, <2>3, Zenon DEF Unbroken
<1>5. CASE after = SubSeq(lines, 1, k - 1) \o SubSeq(lines, k + 1, Len(lines))
  <2>1. /\ DOMAIN after = 1..(n - 1)
        /\ \A j \in 1..(n - 1) : after[j] = IF j < k THEN lines[j] ELSE lines[j + 1]
    <3>. DEFINE a == SubSeq(lines, 1, k - 1)
                b == SubSeq(lines, k + 1, n)
    <3>1. /\ a \in Seq(Lines) /\ Len(a) = k - 1
          /\ \A i \in 1..((k - 1) - 1 + 1) : a[i] = lines[1 + i - 1]
      BY <1>1, SeqSub
    <3>2. /\ b \in Seq(Lines) /\ Len(b) = n - k
          /\ \A i \in 1..(n - (k + 1) + 1) : b[i] = lines[(k + 1) + i - 1]
      BY <1>1, SeqSub
    <3>. HIDE DEF a, b
    <3>3. /\ a \o b \in Seq(Lines) /\ Len(a \o b) = Len(a) + Len(b)
          /\ \A i \in 1..(Len(a) + Len(b)) :
               (a \o b)[i] = IF i <= Len(a) THEN a[i] ELSE b[i - Len(a)]
      BY <3>1, <3>2, SeqConcat, Zenon
    <3>4. after = a \o b
      BY <1>5, Zenon DEF a, b
    <3>5. DOMAIN after = 1..(n - 1)
      <4>1. DOMAIN after = 1..(Len(a) + Len(b))
        BY <3>3, <3>4, SeqLen, Zenon
      <4>2. Len(a) + Len(b) = n - 1
        BY <1>1, <3>1, <3>2
      <4>. QED  BY <4>1, <4>2, Zenon
    <3>6. ASSUME NEW j \in 1..(n - 1), j < k PROVE after[j] = lines[j]
      <4>1. j \in 1..((k - 1) - 1 + 1) /\ 1 + j - 1 = j /\ j <= k - 1 /\ j \in 1..(k - 1 + (n - k))
        BY <1>1, <3>6
      <4>. QED  BY <3>1, <3>2, <3>3, <3>4, <4>1, Zenon
    <3>7. ASSUME NEW j \in 1..(n - 1), ~ (j < k) PROVE after[j] = lines[j + 1]
      <4>0. j \in Int /\ k \in Int /\ n \in Int /\ k <= j /\ j <= n - 1 /\ 1 <= j /\ 1 <= k
        BY <1>1, <3>7
      <4>1. j - (k - 1) \in 1..(n - (k + 1) + 1) /\ (k + 1) + (j - (k - 1)) - 1 = j + 1
        BY <4>0
      <4>2. ~ (j <= k - 1) /\ j \in 1..(k - 1 + (n - k))
        BY <4>0
      <4>. QED  BY <3>1, <3>2, <3>3, <3>4, <4>1, <4>2, Zenon
    <3>. QED  BY <3>5, <3>6, <3>7, Zenon
  <2>2. /\ k \in 1..(n - 1) /\ after[k] = lines[k + 1]
        /\ k # 1 => k - 1 \in 1..(n - 1) /\ after[k - 1] = lines[k - 1]
    BY <1>1, <2>1
  <2>3. Breaks(after, k)
    BY <1>3, <2>2, Zenon DEF Breaks
  <2>4. \A j \in 1..(n - 1) : j \in 1..n /\ j + 1 \in 1..n
    BY <1>1
  <2>. QED  BY <1>1, <1>2, <2>1, <2>2, <2>3, <2>4, Zenon DEF Unbroken
<1>6. CASE after = [lines EXCEPT ![k] = lines[k + 1], ![k + 1] = lines[k]]
  <2>1. /\ DOMAIN after = 1..n /\ after[k] = lines[k + 1] /\ after[k + 1] = lines[k]
        /\ \A j \in 1..n : j # k /\ j # k + 1 => after[j] = lines[j]
    BY <1>1, <1>6, Zenon
  <2>2. k # 1 => after[k - 1] = lines[k - 1]
    BY <1>1, <2>1
  <2>3. Breaks(after, k)
    BY <1>3, <2>1, <2>2, Zenon DEF Breaks
  <2>. QED  BY <1>1, <1>2, <2>1, <2>3, Zenon DEF Unbroken
<1>. QED  BY <1>4, <1>5, <1>6, Zenon DEF Edited

\* Steps that leave the file and the chain alone, and bring no record.
LEMMA RecordsKept ==
  ASSUME AuditBooks, UNCHANGED <<lines, chain, issued, journal, stderr, tampered>>,
         Coming' \subseteq Coming, \A w \in Coming' : rec'[w].id = rec[w].id,
         \A w \in Coming' : place'[w] # "text" => place[w] # "text",
         (~ tampered /\ Numbered /\ Linking) => Linking'
  PROVE  AuditBooks'
<1>1. Known'
  BY Zenon DEF AuditBooks, Known, Unbroken, Breaks
<1>2. Numbered => Numbered'
  BY DEF Numbered
<1>. QED  BY <1>1, <1>2, Zenon DEF AuditBooks

\* Steps outside an append keep the books.
LEMMA BooksOutside ==
  ASSUME AppendsInTurn, AuditBooks,
         \/ AuditStart \/ AuditStop \/ AuditTamper
         \/ \E w \in Writers : AuditWrite(w)
  PROVE  AuditBooks'
<1>1. CASE AuditStart
  <2>1. /\ chain' = Ids(lines) /\ head' = (IF file' THEN head_of(lines) ELSE NoHash)
        /\ ~ running
        /\ UNCHANGED <<lines, place, rec, issued, journal, stderr, tampered>>
    BY <1>1 DEF AuditStart
  <2>2. /\ chain' \in Seq(Nat) /\ Len(chain') = Len(lines) /\ DOMAIN chain' = DOMAIN lines
        /\ \A k \in DOMAIN lines : chain'[k] = lines[k].id
    <3>1. \A k \in 1..Len(lines) : lines[k].id \in Nat
      <4>1. \A k \in 1..Len(lines) : lines[k] \in Lines
        BY Typed, SeqElement, Zenon
      <4>. QED  BY <4>1, Zenon DEF Lines
    <3>2. chain' \in [1..Len(lines) -> Nat] /\ \A k \in DOMAIN lines : chain'[k] = lines[k].id
      BY <2>1, <3>1, Typed, Zenon DEF Ids
    <3>3. chain' \in Seq(Nat)
      BY <3>2, Typed, SeqOfFunction
    <3>. QED  BY <3>2, <3>3, Typed
  <2>3. Coming' = Coming
    BY <2>1, Zenon DEF Coming
  <2>4. Known'
    BY <2>1, <2>2, <2>3 DEF AuditBooks, Known, Unbroken, Breaks
  <2>5. Numbered => Numbered'
    BY <2>1, <2>2, <2>3 DEF Numbered
  <2>6. \A w \in Writers : place'[w] \notin {"head", "text"}
    BY <2>1, AuditAssumption, Zenon DEF AppendsInTurn
  <2>7. Unbroken(lines) => (file' => head' = LastLinked(chain'))
    <3>1. Unbroken(lines) => head_of(lines) = LastId(lines)
      BY Typed DEF Unbroken, Breaks, head_of, LastId
    <3>2. LastLinked(chain') = LastId(lines)
      <4>1. chain' = << >> <=> lines = << >>
        BY <2>2, Typed, SeqEmpty, Zenon
      <4>. QED  BY <2>2, <4>1, Typed DEF LastLinked, LastId
    <3>. QED  BY <2>1, <3>1, <3>2, Zenon
  <2>8. Linking'
    <3>1. Len(lines) <= Len(chain')
      BY <2>2, Typed
    <3>. QED  BY <2>1, <2>2, <2>6, <2>7, <3>1, Zenon DEF Linking, Unbroken, Breaks
  <2>. QED  BY <2>1, <2>4, <2>5, <2>8, Zenon DEF AuditBooks
<1>2. CASE AuditStop
  <2>1. /\ file' = FALSE /\ place' = [w \in Writers |-> "idle"]
        /\ UNCHANGED <<lines, chain, issued, journal, stderr, tampered, rec>>
    BY <1>2, Zenon DEF AuditStop, Down
  <2>2. Coming' = {}
    BY <2>1, Zenon DEF Coming
  <2>3. Linking => Linking'
    BY <2>1, Zenon DEF Linking, Unbroken, Breaks
  <2>. QED  BY <2>1, <2>2, <2>3, RecordsKept, Zenon
<1>3. CASE AuditTamper
  <2>1. PICK k \in DOMAIN lines : k < Len(lines) /\ lines' \in Edited(k)
    BY <1>3, Zenon DEF AuditTamper
  <2>2. /\ ~ tampered /\ verify(lines) = 0 /\ tampered' = TRUE
        /\ UNCHANGED <<place, rec, issued, journal, stderr, chain>>
    BY <1>3, Zenon DEF AuditTamper
  <2>3. Unbroken(lines)
    BY <2>2, Typed, VerifyIsUnbroken, Zenon
  <2>4. /\ ~ Unbroken(lines')
        /\ \A j \in DOMAIN lines' : lines'[j].id = Forged \/ lines'[j].id \in 1..issued
    BY <2>1, <2>2, <2>3, EditsShow, Zenon DEF AuditBooks
  <2>5. Coming' = Coming
    BY <2>2, Zenon DEF Coming
  <2>6. Known'
    BY <2>2, <2>4, <2>5, Zenon DEF AuditBooks, Known, Unbroken, Breaks
  <2>. QED  BY <2>2, <2>6, Zenon DEF AuditBooks
<1>4. ASSUME NEW w \in Writers, AuditWrite(w) PROVE AuditBooks'
  <2>. DEFINE i == issued + 1
  <2>1. /\ issued < MaxRecords /\ issued' = i /\ place[w] = "idle"
        /\ rec' = [rec EXCEPT ![w] = NewRecord(i)]
        /\ place' = [place EXCEPT ![w] = "append"]
        /\ \/ journal' = journal \cup {i} /\ stderr' = stderr
           \/ journal' = journal /\ stderr' = stderr \cup {i}
        /\ UNCHANGED <<lines, head, file, chain, tampered>>
    BY <1>4, Zenon DEF AuditWrite, Report
  <2>2. /\ issued \in Nat /\ i \in 0..MaxRecords /\ i \notin 1..issued
        /\ 1..i = (1..issued) \cup {i} /\ i \in 1..i
    BY <2>1, Typed, AuditAssumption
  <2>3. /\ Coming' = Coming \cup {w} /\ w \notin Coming /\ rec'[w].id = i
        /\ place'[w] = "append"
        /\ \A v \in Writers : v # w => rec'[v] = rec[v] /\ place'[v] = place[v]
    BY <2>1, Typed, Zenon DEF Coming, NewRecord, Line
  <2>. HIDE DEF i
  <2>4. journal' \cap stderr' = {} /\ journal' \cup stderr' = 1..i
    BY <2>1, <2>2, Zenon DEF AuditBooks, Known
  <2>5. \A v \in Coming' : rec'[v].id \in 1..i
    BY <2>2, <2>3, Zenon DEF AuditBooks, Known, Coming
  <2>6. Known'
    BY <2>1, <2>2, <2>4, <2>5, Zenon DEF AuditBooks, Known, Unbroken, Breaks
  <2>7. \A v \in Coming : rec[v].id \in 1..issued /\ v \in Writers
    BY Zenon DEF AuditBooks, Known, Coming
  <2>8. Numbered => Numbered'
    <3>. SUFFICES ASSUME Numbered PROVE Numbered'
      BY Zenon
    <3>1. /\ \A k \in DOMAIN lines' : lines'[k].id \in 1..issued'
          /\ \A j, k \in DOMAIN lines' : lines'[j].id = lines'[k].id => j = k
          /\ \A k \in DOMAIN chain' : chain'[k] \in 1..issued'
          /\ \A j, k \in DOMAIN chain' : chain'[j] = chain'[k] => j = k
      BY <2>1, <2>2, Zenon DEF Numbered
    <3>2. \A v \in Coming' : \A k \in DOMAIN lines' : lines'[k].id # rec'[v].id
      BY <2>1, <2>2, <2>3, <2>7 DEF Numbered
    <3>3. \A u, v \in Coming' : rec'[u].id = rec'[v].id => u = v
      BY <2>2, <2>3, <2>7 DEF Numbered
    <3>4. \A v \in Coming' : place'[v] # "text" => \A k \in DOMAIN chain' : chain'[k] # rec'[v].id
      BY <2>1, <2>2, <2>3, <2>7 DEF Numbered
    <3>. QED  BY <3>1, <3>2, <3>3, <3>4, Zenon DEF Numbered
  <2>9. Linking => Linking'
    BY <2>1, <2>3 DEF Linking, Unbroken, Breaks
  <2>. QED  BY <2>1, <2>6, <2>8, <2>9, Zenon DEF AuditBooks
<1>. QED  BY <1>1, <1>2, <1>3, <1>4, Zenon

\* Appending leaves the earlier lines' records.
LEMMA AppendedIds ==
  ASSUME AppendsInTurn, NEW line \in Lines
  PROVE  \A j \in DOMAIN Appended(line) :
           \/ j \in DOMAIN lines /\ Appended(line)[j].id = lines[j].id
           \/ j = Len(lines) + 1 /\ Appended(line)[j].id = line.id
<1>1. CASE ragged
  <2>. DEFINE n == Len(lines)
              l == Line(lines[n].id, lines[n].prev, FALSE)
  <2>1. Appended(line) = [lines EXCEPT ![n] = l] /\ n \in DOMAIN lines /\ l.id = lines[n].id
    BY <1>1, Typed DEF Appended, Line
  <2>. QED  BY <2>1, Typed, Zenon
<1>2. CASE ~ ragged
  <2>1. Appended(line) = Append(lines, line)
    BY <1>2, Zenon DEF Appended
  <2>2. /\ DOMAIN Append(lines, line) = 1..(Len(lines) + 1)
        /\ \A i \in 1..Len(lines) : Append(lines, line)[i] = lines[i]
        /\ Append(lines, line)[Len(lines) + 1] = line
    BY Typed, SeqAppend
  <2>3. \A j \in 1..(Len(lines) + 1) : j \in 1..Len(lines) \/ j = Len(lines) + 1
    BY Typed
  <2>. QED  BY <2>1, <2>2, <2>3, Typed, Zenon
<1>. QED  BY <1>1, <1>2, Zenon

\* Text that reaches the file, whole or in part.
LEMMA TextBooks ==
  ASSUME AppendsInTurn, AuditBooks, NEW w \in Writers, place[w] = "text",
         NEW line \in Lines, line.id = rec[w].id, line.record => line = rec[w],
         lines' = Appended(line), Coming' \subseteq Coming \ {w},
         UNCHANGED <<rec, chain, issued, journal, stderr, tampered>>,
         \A v \in Writers : place'[v] \notin {"head", "text"},
         file' => file /\ head' = head
  PROVE  AuditBooks'
<1>1. w \in Coming
  BY Zenon DEF Coming
<1>2. \A j \in DOMAIN lines' : \/ j \in DOMAIN lines /\ lines'[j].id = lines[j].id
                               \/ j = Len(lines) + 1 /\ lines'[j].id = rec[w].id
  BY AppendedIds
<1>3. Unbroken(lines') =>
        /\ Unbroken(lines) /\ line = rec[w] /\ rec[w].prev = LastId(lines)
        /\ lines' = Append(lines, rec[w])
  BY Typed, BreaksStay, Zenon
<1>4. Known'
  <2>1. \A k \in DOMAIN lines' : lines'[k].id = Forged \/ lines'[k].id \in 1..issued'
    BY <1>1, <1>2, Zenon DEF AuditBooks, Known
  <2>2. tampered' => ~ Unbroken(lines')
    BY <1>3, Zenon DEF AuditBooks, Known
  <2>. QED  BY <2>1, <2>2, Zenon DEF AuditBooks, Known, Unbroken, Breaks
<1>5. Numbered => Numbered'
  <2>. SUFFICES ASSUME Numbered PROVE Numbered'
    BY Zenon
  <2>1. \A k \in DOMAIN lines' : lines'[k].id \in 1..issued'
    BY <1>1, <1>2, Zenon DEF Numbered, AuditBooks, Known
  <2>2. \A j, k \in DOMAIN lines' : lines'[j].id = lines'[k].id => j = k
    BY <1>1, <1>2 DEF Numbered
  <2>3. \A v \in Coming' : \A k \in DOMAIN lines' : lines'[k].id # rec'[v].id
    BY <1>1, <1>2 DEF Numbered
  <2>4. \A v \in Coming' : place'[v] # "text" => \A k \in DOMAIN chain' : chain'[k] # rec'[v].id
    <3>1. \A v \in Coming : v # w => place[v] # "text"
      BY Zenon DEF AppendsInTurn, Coming
    <3>. QED  BY <3>1, Zenon DEF Numbered
  <2>. QED  BY <2>1, <2>2, <2>3, <2>4, Zenon DEF Numbered
<1>6. ASSUME Numbered, Linking, Unbroken(lines') PROVE Linking'
  <2>. DEFINE n == Len(chain)
              m == Len(lines)
  <2>1. /\ Unbroken(lines) /\ rec[w].prev = LastId(lines) /\ lines' = Append(lines, rec[w])
    BY <1>3, <1>6, Zenon
  <2>2. /\ m <= n /\ \A k \in DOMAIN lines : lines[k].id = chain[k]
        /\ file => head = LastLinked(chain)
        /\ n > 0 /\ rec[w].id = chain[n]
        /\ rec[w].prev = IF n = 1 THEN NoHash ELSE chain[n - 1]
    BY <1>6, <2>1, Zenon DEF Linking
  <2>3. /\ n \in Nat /\ DOMAIN chain = 1..n /\ m \in Nat /\ DOMAIN lines = 1..m
        /\ lines = << >> <=> m = 0
    BY Typed, SeqLen, Zenon DEF AuditBooks, Known
  <2>4. m # n
    <3>1. m = n => n \in DOMAIN lines /\ lines[n].id = rec[w].id
      BY <2>2, <2>3
    <3>. QED  BY <1>1, <1>6, <3>1, Zenon DEF Numbered
  <2>5. m = n - 1
    <3>1. CASE m = 0
      <4>1. rec[w].prev = NoHash
        BY <2>1, <2>3, <3>1, Zenon DEF LastId
      <4>2. n # 1 => n - 1 \in DOMAIN chain /\ chain[n - 1] # NoHash
        <5>1. n # 1 => n - 1 \in DOMAIN chain
          BY <2>2, <2>3
        <5>2. \A k \in DOMAIN chain : chain[k] \in 1..issued
          BY <1>6, Zenon DEF Numbered
        <5>3. \A x \in 1..issued : x # NoHash
          BY DEF NoHash
        <5>. QED  BY <5>1, <5>2, <5>3, Zenon
      <4>3. n # 1 => rec[w].prev = chain[n - 1]
        BY <2>2, Zenon
      <4>4. n = 1
        BY <4>1, <4>2, <4>3, Zenon
      <4>. QED  BY <2>3, <3>1, <4>4
    <3>2. CASE m # 0
      <4>1. m \in DOMAIN chain /\ m \in DOMAIN lines
        BY <2>2, <2>3, <3>2
      <4>2. rec[w].prev = chain[m] /\ chain[m] # NoHash
        BY <1>6, <2>1, <2>2, <2>3, <3>2, <4>1 DEF LastId, Numbered, NoHash
      <4>3. n # 1 /\ chain[n - 1] = chain[m] /\ n - 1 \in DOMAIN chain
        BY <2>2, <2>3, <4>2
      <4>. QED  BY <1>6, <4>1, <4>3, Zenon DEF Numbered
    <3>. QED  BY <3>1, <3>2, Zenon
  <2>6. /\ Len(lines') = m + 1 /\ DOMAIN lines' = 1..(m + 1)
        /\ \A i \in 1..m : lines'[i] = lines[i]
        /\ lines'[m + 1] = rec[w]
    <3>1. rec[w] \in Lines
      BY Typed, Zenon
    <3>. QED  BY <2>1, <3>1, Typed, SeqAppend, SeqLen
  <2>7. \A k \in 1..(m + 1) : k \in 1..m \/ k = m + 1
    BY <2>3
  <2>8. /\ Len(lines') <= Len(chain') /\ \A k \in DOMAIN lines' : lines'[k].id = chain'[k]
    <3>1. m + 1 = n /\ m + 1 <= n
      BY <2>3, <2>5
    <3>. QED  BY <2>2, <2>3, <2>6, <2>7, <3>1
  <2>. QED  BY <2>2, <2>8, Zenon DEF Linking
<1>7. (Numbered /\ Linking) => Linking'
  <2>1. Unbroken(lines)' <=> Unbroken(lines')
    BY Zenon DEF Unbroken, Breaks
  <2>. QED  BY <1>6, <2>1, Zenon DEF Linking
<1>. QED  BY <1>4, <1>5, <1>7, Zenon DEF AuditBooks

\* The head moves to the record about to be written.
LEMMA BooksLinked ==
  ASSUME AppendsInTurn, AuditBooks, NEW w \in Writers, AuditMoveHead(w)
  PROVE  AuditBooks'
<1>. DEFINE n == Len(chain)
            i == rec[w].id
<1>1. /\ place[w] = "head" /\ head' = i /\ chain' = Append(chain, i)
      /\ place' = [place EXCEPT ![w] = "text"]
      /\ UNCHANGED <<lines, file, rec, issued, journal, stderr, tampered>>
  BY Zenon DEF AuditMoveHead
<1>2. file /\ \A v \in Writers : v # w => place[v] \in {"idle", "append"}
  BY <1>1, Zenon DEF AppendsInTurn
<1>3. /\ Coming' = Coming /\ w \in Coming /\ place'[w] = "text"
      /\ \A v \in Writers : v # w => place'[v] = place[v]
  BY <1>1, Typed, Zenon DEF Coming
<1>4. i \in 1..issued /\ i \in Nat /\ n \in Nat /\ DOMAIN chain = 1..n
  BY <1>3, Typed, SeqLen DEF AuditBooks, Known
<1>5. /\ chain' \in Seq(Nat) /\ Len(chain') = n + 1 /\ DOMAIN chain' = 1..(n + 1)
      /\ \A k \in 1..n : chain'[k] = chain[k]
      /\ chain'[n + 1] = i
  BY <1>1, <1>4, SeqAppend, SeqLen DEF AuditBooks, Known
<1>6. \A k \in 1..(n + 1) : k \in 1..n \/ k = n + 1
  BY <1>4
<1>7. Known'
  BY <1>1, <1>3, <1>5, Zenon DEF AuditBooks, Known, Unbroken, Breaks
<1>8. Numbered => Numbered'
  <2>. SUFFICES ASSUME Numbered PROVE Numbered'
    BY Zenon
  <2>1. \A k \in 1..n : chain[k] # i
    BY <1>1, <1>3, <1>4, Zenon DEF Numbered
  <2>2. \A k \in DOMAIN chain' : chain'[k] \in 1..issued'
    BY <1>1, <1>4, <1>5, <1>6, Zenon DEF Numbered
  <2>3. \A j, k \in DOMAIN chain' : chain'[j] = chain'[k] => j = k
    BY <1>4, <1>5, <1>6, <2>1 DEF Numbered
  <2>4. ASSUME NEW v \in Coming', place'[v] # "text", NEW k \in DOMAIN chain'
        PROVE  chain'[k] # rec'[v].id
    <3>1. v \in Coming /\ v # w /\ place[v] # "text" /\ rec'[v] = rec[v]
      BY <1>1, <1>2, <1>3, <2>4, Zenon DEF Coming
    <3>2. rec[v].id # i /\ \A j \in 1..n : chain[j] # rec[v].id
      BY <1>3, <1>4, <3>1, Zenon DEF Numbered
    <3>. QED  BY <1>5, <1>6, <3>1, <3>2, Zenon
  <2>5. /\ \A k \in DOMAIN lines' : lines'[k].id \in 1..issued'
        /\ \A j, k \in DOMAIN lines' : lines'[j].id = lines'[k].id => j = k
        /\ \A v \in Coming' : \A k \in DOMAIN lines' : lines'[k].id # rec'[v].id
        /\ \A u, v \in Coming' : rec'[u].id = rec'[v].id => u = v
    BY <1>1, <1>3 DEF Numbered
  <2>. QED  BY <2>2, <2>3, <2>4, <2>5, Zenon DEF Numbered
<1>9. Linking => Linking'
  <2>. SUFFICES ASSUME Linking, Unbroken(lines)
                PROVE  /\ Len(lines') <= Len(chain') /\ \A k \in DOMAIN lines' : lines'[k].id = chain'[k]
                       /\ head' = LastLinked(chain')
                       /\ \A v \in Writers : place'[v] # "head"
                       /\ \A v \in Writers : place'[v] = "text" =>
                            /\ Len(chain') > 0 /\ rec'[v].id = chain'[Len(chain')]
                            /\ rec'[v].prev = IF Len(chain') = 1 THEN NoHash
                                              ELSE chain'[Len(chain') - 1]
    BY <1>1 DEF Linking, Unbroken, Breaks
  <2>1. /\ Len(lines) <= n /\ \A k \in DOMAIN lines : lines[k].id = chain[k]
        /\ head = LastLinked(chain) /\ rec[w].prev = head
    BY <1>1, <1>2, Zenon DEF Linking
  <2>2. Len(lines') <= Len(chain') /\ \A k \in DOMAIN lines' : lines'[k].id = chain'[k]
    <3>1. \A k \in DOMAIN lines : k \in 1..n
      BY <1>4, <2>1, Typed
    <3>2. Len(lines) <= n + 1
      BY <1>4, <2>1, Typed
    <3>. QED  BY <1>1, <1>5, <2>1, <3>1, <3>2, Zenon
  <2>4. head' = LastLinked(chain')
    <3>1. chain' # << >>
      BY <1>4, <1>5, SeqEmpty
    <3>. QED  BY <1>1, <1>5, <3>1, Zenon DEF LastLinked
  <2>5. \A v \in Writers : place'[v] # "head" /\ (place'[v] = "text" => v = w)
    BY <1>2, <1>3, Zenon
  <2>6. rec[w].prev = IF n + 1 = 1 THEN NoHash ELSE chain'[(n + 1) - 1]
    <3>1. chain = << >> <=> n = 0
      BY <1>4, SeqEmpty, Zenon DEF AuditBooks, Known
    <3>2. CASE n = 0
      BY <2>1, <3>1, <3>2 DEF LastLinked
    <3>3. CASE n # 0
      <4>1. n + 1 # 1 /\ (n + 1) - 1 = n /\ n \in 1..n
        BY <1>4, <3>3
      <4>. QED  BY <1>5, <2>1, <3>1, <3>3, <4>1, Zenon DEF LastLinked
    <3>. QED  BY <3>2, <3>3, Zenon
  <2>7. n + 1 > 0
    BY <1>4
  <2>. QED  BY <1>1, <1>5, <2>2, <2>4, <2>5, <2>6, <2>7, Zenon
<1>. QED  BY <1>1, <1>7, <1>8, <1>9, Zenon DEF AuditBooks

\* The other steps of an append keep the books.
LEMMA BooksAppend ==
  ASSUME AppendsInTurn, AuditBooks, NEW w \in Writers,
         AuditLock(w) \/ AuditTakePrev(w) \/ AuditNewline(w) \/ AuditUnlock(w) \/ AuditText(w)
  PROVE  AuditBooks'
<1>0. place[w] \notin {"idle", "append"}
        => holder = w /\ file /\ \A v \in Writers : v # w => place[v] \in {"idle", "append"}
  BY Zenon DEF AppendsInTurn
<1>1. CASE AuditLock(w) \/ AuditNewline(w) \/ AuditUnlock(w)
  <2>1. PICK to \in {"link", "idle", "unlock"} : place' = [place EXCEPT ![w] = to]
    BY <1>1, Zenon DEF AuditLock, AuditNewline, AuditUnlock
  <2>2. /\ UNCHANGED <<lines, chain, issued, journal, stderr, tampered, rec, head, file>>
        /\ place[w] \in {"append", "newline", "unlock"}
        /\ to = "link" => place[w] = "append"
    BY <1>1, <2>1, Typed, Zenon DEF AuditLock, AuditNewline, AuditUnlock
  <2>3. /\ place'[w] = to /\ \A v \in Writers : v # w => place'[v] = place[v]
    BY <2>1, Typed, Zenon
  <2>4. /\ Coming' \subseteq Coming /\ \A v \in Coming' : place'[v] # "text" => place[v] # "text"
    BY <2>2, <2>3, Zenon DEF Coming
  <2>5. \A v \in Writers : \A at \in {"head", "text"} : place'[v] = at => place[v] = at
    BY <2>1, <2>3, Zenon
  <2>6. Linking => Linking'
    BY <2>2, <2>5 DEF Linking, Unbroken, Breaks
  <2>. QED  BY <2>2, <2>4, <2>6, RecordsKept, Zenon
<1>2. CASE AuditTakePrev(w)
  <2>1. /\ place[w] = "link" /\ rec' = [rec EXCEPT ![w].prev = head]
        /\ place' = [place EXCEPT ![w] = "head"]
        /\ UNCHANGED <<lines, chain, issued, journal, stderr, tampered, head, file>>
    BY <1>2, Zenon DEF AuditTakePrev
  <2>2. /\ rec'[w].id = rec[w].id /\ rec'[w].prev = head /\ place'[w] = "head"
        /\ \A v \in Writers : v # w => rec'[v] = rec[v] /\ place'[v] = place[v]
    <3>1. rec[w] \in Lines
      BY Typed, Zenon
    <3>2. rec'[w] = [rec[w] EXCEPT !.prev = head]
      BY <2>1, Typed, Zenon
    <3>. QED  BY <2>1, <3>1, <3>2, Typed, Zenon DEF Lines
  <2>3. Coming' = Coming /\ \A v \in Coming : v \in Writers
    BY <2>1, <2>2, Zenon DEF Coming
  <2>4. Linking => Linking'
    BY <1>0, <2>1, <2>2, Zenon DEF Linking, Unbroken, Breaks
  <2>5. \A v \in Coming' : rec'[v].id = rec[v].id /\ (place'[v] # "text" => place[v] # "text")
    BY <2>1, <2>2, <2>3, Zenon
  <2>. QED  BY <2>1, <2>3, <2>4, <2>5, RecordsKept, Zenon
<1>3. CASE AuditText(w)
  <2>1. /\ place[w] = "text"
        /\ UNCHANGED <<rec, chain, issued, journal, stderr, tampered, head, file>>
    BY <1>3, Zenon DEF AuditText
  <2>2. PICK to \in {"newline", "unlock"} : place' = [place EXCEPT ![w] = to]
    BY <1>3, Zenon DEF AuditText
  <2>3. /\ Coming' \subseteq Coming \ {w} /\ \A v \in Writers : place'[v] \notin {"head", "text"}
        /\ \A v \in Coming' : v # w /\ place'[v] = place[v]
    BY <1>0, <2>1, <2>2, Typed, Zenon DEF Coming
  <2>. DEFINE half == Line(rec[w].id, rec[w].prev, FALSE)
  <2>4. rec[w] \in Lines /\ half \in Lines /\ half.id = rec[w].id /\ ~ half.record
    BY Typed, Zenon DEF Line, Lines
  <2>. HIDE DEF half
  <2>5. CASE lines' = Appended(rec[w])
    BY <2>1, <2>3, <2>4, <2>5, TextBooks, Zenon
  <2>6. CASE lines' = Appended(half)
    BY <2>1, <2>3, <2>4, <2>6, TextBooks, Zenon
  <2>7. CASE lines' = lines
    <3>1. Linking => Linking'
      BY <2>1, <2>3, <2>7, Zenon DEF Linking, Unbroken, Breaks
    <3>2. \A v \in Coming' : place'[v] # "text" => place[v] # "text"
      BY <2>3, Zenon
    <3>3. Coming' \subseteq Coming /\ \A v \in Coming' : rec'[v].id = rec[v].id
      BY <2>1, <2>3, Zenon
    <3>. QED  BY <2>1, <2>7, <3>1, <3>2, <3>3, RecordsKept, Zenon
  <2>. QED  BY <1>3, <2>5, <2>6, <2>7, Zenon DEF AuditText, half
<1>. QED  BY <1>1, <1>2, <1>3, Zenon

\* A kill leaves the file as it is.
LEMMA BooksKilled ==
  ASSUME AppendsInTurn, AuditBooks, AuditKill
  PROVE  AuditBooks'
<1>1. /\ file' = FALSE /\ place' = [w \in Writers |-> "idle"]
      /\ UNCHANGED <<chain, issued, journal, stderr, tampered, rec>>
  BY Zenon DEF AuditKill, Down
<1>2. Coming' = {} /\ \A v \in Writers : place'[v] = "idle"
  BY <1>1, Zenon DEF Coming
<1>3. CASE lines' = lines
  <2>1. Linking => Linking'
    BY <1>1, <1>2, <1>3, Zenon DEF Linking, Unbroken, Breaks
  <2>. QED  BY <1>1, <1>2, <1>3, <2>1, RecordsKept, Zenon
<1>4. ASSUME NEW w \in Writers, place[w] = "text",
             lines' = Appended(Line(rec[w].id, rec[w].prev, FALSE))
      PROVE  AuditBooks'
  <2>. DEFINE half == Line(rec[w].id, rec[w].prev, FALSE)
  <2>1. half \in Lines /\ half.id = rec[w].id /\ ~ half.record /\ lines' = Appended(half)
    BY <1>4, Typed, Zenon DEF Line, Lines
  <2>. HIDE DEF half
  <2>. QED  BY <1>1, <1>2, <1>4, <2>1, TextBooks, Zenon
<1>. QED  BY <1>3, <1>4, Zenon DEF AuditKill

\* The books hold of no file.
LEMMA AuditBegins ==
  ASSUME AuditInit
  PROVE  AppendsInTurn /\ ChainLinked /\ AuditBooks
<1>1. /\ lines = << >> /\ ragged = FALSE /\ head = 0 /\ file = FALSE /\ holder = NoWriter
      /\ place = [w \in Writers |-> "idle"] /\ issued = 0 /\ faults = 0
      /\ rec = [w \in Writers |-> Line(0, NoHash, TRUE)] /\ chain = << >>
      /\ journal = {} /\ stderr = {} /\ tampered = FALSE
  BY Zenon DEF AuditInit, NoHash
<1>2. lines \in Seq(Lines) /\ DOMAIN lines = {} /\ chain \in Seq(Nat) /\ DOMAIN chain = {}
      /\ Len(lines) = 0 /\ Len(chain) = 0
  BY <1>1
<1>3. Line(0, NoHash, TRUE) \in {l \in Lines : l.record}
  BY Zenon DEF Line, NoHash, Lines
<1>4. AppendsInTurn /\ ChainLinked
  BY <1>1, <1>2, <1>3, AuditAssumption, Zenon DEF AppendsInTurn, ChainLinked
<1>5. Coming = {}
  BY <1>1, Zenon DEF Coming
<1>6. Known
  <2>1. 1..0 = {} /\ 0 \in 0..MaxRecords
    BY AuditAssumption
  <2>. QED  BY <1>1, <1>2, <1>5, <2>1, Zenon DEF Known
<1>7. Numbered /\ Linking
  BY <1>1, <1>2, <1>5 DEF Numbered, Linking
<1>. QED  BY <1>4, <1>6, <1>7, Zenon DEF AuditBooks

\* So they hold always.
LEMMA AuditBooksHold == AuditSpec => [](AppendsInTurn /\ ChainLinked /\ AuditBooks)
<1>1. AuditInit => AppendsInTurn /\ ChainLinked /\ AuditBooks
  BY AuditBegins, Zenon
<1>2. ASSUME AppendsInTurn /\ ChainLinked /\ AuditBooks, [AuditNext]_auditVars
      PROVE  (AppendsInTurn /\ ChainLinked /\ AuditBooks)'
  <2>1. CASE UNCHANGED auditVars
    <3>1. AppendsInTurn'
      BY <1>2, <2>1, Zenon DEF auditVars, AppendsInTurn
    <3>2. ChainLinked'
      BY <1>2, <2>1, Zenon DEF auditVars, ChainLinked
    <3>3. Known' /\ (~ tampered => Numbered)'
      BY <1>2, <2>1, Zenon DEF auditVars, AuditBooks, Known, Numbered, Coming
    <3>4. (~ tampered => Linking)'
      BY <1>2, <2>1, Zenon DEF auditVars, AuditBooks, Linking, Unbroken, Breaks
    <3>. QED  BY <3>1, <3>2, <3>3, <3>4, Zenon DEF AuditBooks
  <2>2. CASE \/ AuditStart \/ AuditStop \/ AuditKill \/ AuditTamper
             \/ \E w \in Writers : AuditWrite(w)
    BY <1>2, <2>2, OutsideKeeps, BooksOutside, BooksKilled, Zenon
  <2>3. ASSUME NEW w \in Writers,
               \/ AuditLock(w) \/ AuditTakePrev(w) \/ AuditMoveHead(w) \/ AuditText(w)
               \/ AuditNewline(w) \/ AuditUnlock(w)
        PROVE  (AppendsInTurn /\ ChainLinked /\ AuditBooks)'
    BY <1>2, <2>3, AppendKeeps, BooksLinked, BooksAppend, Zenon
  <2>. QED  BY <1>2, <2>1, <2>2, <2>3, Zenon DEF AuditNext
<1>. QED  BY <1>1, <1>2, PTL DEF AuditSpec

\* append, write and verify (audit.rs), for any number of threads, records,
\* kills and restarts: appends take turns and link to each other, the file
\* verifies while nothing was killed, failed or edited, a file that verifies
\* is a prefix of what the last run linked, and every record in it was told
\* once.
THEOREM TheChainIsSound == AuditSpec => []ChainSound
<1>1. AppendsInTurn /\ ChainLinked /\ AuditBooks => ChainSound
  <2>. SUFFICES ASSUME AppendsInTurn, ChainLinked, AuditBooks PROVE ChainSound
    BY Zenon
  <2>1. ChainVerifies
    BY Zenon DEF ChainLinked, ChainVerifies, verify
  <2>2. LossIsVisible
    BY Typed, VerifyIsUnbroken, Zenon DEF LossIsVisible, AuditBooks, Linking
  <2>3. ToldOnce
    BY Zenon DEF AuditBooks, Known, ToldOnce
  <2>. QED  BY <2>1, <2>2, <2>3, Zenon DEF ChainSound
<1>. QED  BY <1>1, AuditBooksHold, PTL

\* verify (audit.rs): once a line but the last of a file that verified is
\* edited, removed or swapped, the file never verifies again, whatever is
\* appended, killed or restarted later.
THEOREM TamperingShows == AuditSpec => []TamperEvident
<1>1. AppendsInTurn /\ AuditBooks => TamperEvident
  BY Typed, VerifyIsUnbroken, Zenon DEF AuditBooks, Known, TamperEvident
<1>. QED  BY <1>1, AuditBooksHold, PTL
=============================================================================
