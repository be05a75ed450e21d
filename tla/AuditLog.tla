------------------------------ MODULE AuditLog ------------------------------
(***************************************************************************)
(* The audit log of audit.rs: several threads append records to one file,  *)
(* each record carrying the hash of the one before it, while the daemon    *)
(* may stop, be killed, or meet a full disk.                               *)
(*                                                                         *)
(* A record's text is abstracted to its number and its link, and SHA-256   *)
(* to an injection: the hash of a line is that line's number, and a line   *)
(* somebody edits gets a number nothing else has.  A line that is not JSON *)
(* (half a record, or two records run together) has record = FALSE.        *)
(* writeln! issues two writes, the text and the newline.                   *)
(***************************************************************************)
EXTENDS Naturals, Sequences

CONSTANTS Writers,     \* threads that write records
          MaxRecords,  \* bound on the records written
          MaxFaults    \* bound on kills and failed writes, and on edits

NoHash == 0      \* the absence of a link: head or prev is None
Forged == MaxRecords + 1  \* the hash of an edited line, which no record has
NoWriter == "none"

ASSUME AuditAssumption == /\ NoWriter \notin Writers
                          /\ {MaxRecords, MaxFaults} \subseteq Nat

VARIABLES lines,    \* the file: a sequence of [id, prev, record]
          ragged,   \* the last line has no newline yet
          head,     \* Audit.head
          file,     \* Audit.file is Some
          running,  \* the daemon is up
          holder,   \* the thread holding the file mutex
          place,    \* where each thread is in Audit::write
          rec,      \* the record each thread is writing
          issued,   \* records created so far
          journal,  \* records delivered to journald
          stderr,   \* records printed instead
          chain,    \* records linked by this run, after those it found
          faults,   \* kills and failed writes so far
          tampered  \* somebody changed a line other than the last

auditVars == <<lines, ragged, head, file, running, holder, place, rec, issued,
               journal, stderr, chain, faults, tampered>>

Line(id, prev, record) == [id |-> id, prev |-> prev, record |-> record]

\* A record as session_start, session_end and denied hand it over: unlinked.
NewRecord(n) == Line(n, NoHash, TRUE)

AuditInit == /\ lines = << >> /\ ragged = FALSE
             /\ head = NoHash /\ file = FALSE /\ running = FALSE
             /\ holder = NoWriter
             /\ place = [w \in Writers |-> "idle"]
             /\ rec = [w \in Writers |-> Line(0, NoHash, TRUE)]
             /\ issued = 0 /\ journal = {} /\ stderr = {}
             /\ chain = << >> /\ faults = 0 /\ tampered = FALSE

-----------------------------------------------------------------------------
(* The file's readers: head_of at startup, verify in aidctl.               *)

head_of(ls) == IF ls # << >> /\ ls[Len(ls)].record THEN ls[Len(ls)].id ELSE NoHash

\* Line k is where verify stops: it does not parse, or its link is not the
\* hash of the line before (no link, for the first).
BreaksUnlinked(ls, k) == ~ ls[k].record

Breaks(ls, k) == \/ ~ ls[k].record
                 \/ ls[k].prev # (IF k = 1 THEN NoHash ELSE ls[k - 1].id)

\* The line verify names, or zero when the whole file checks.
verify(ls) == LET bad == {k \in DOMAIN ls : Breaks(ls, k)}
              IN  IF bad = {} THEN 0 ELSE CHOOSE k \in bad : \A j \in bad : k <= j

Ids(ls) == [k \in DOMAIN ls |-> ls[k].id]

\* Text appended to the file: it continues a line that has no newline, and
\* the result of running two texts together is not JSON.
Appended(line) ==
  IF ragged THEN [lines EXCEPT ![Len(lines)] = Line(@.id, @.prev, FALSE)]
            ELSE Append(lines, line)

-----------------------------------------------------------------------------
(* Audit::new.                                                             *)
AuditStart ==
  /\ ~ running
  /\ running' = TRUE
  /\ \E opens \in BOOLEAN :
       /\ file' = opens
       /\ head' = IF opens THEN head_of(lines) ELSE NoHash
  /\ chain' = Ids(lines)
  /\ UNCHANGED <<lines, ragged, holder, place, rec, issued, journal, stderr,
                 faults, tampered>>

\* Audit::write, up to append: the journal, or stderr when that fails.
TwiceTold(w, n, delivered) ==
  /\ journal' = IF delivered THEN journal \cup {n} ELSE journal
  /\ stderr' = stderr \cup {n}

Report(w, n, delivered) ==
  /\ journal' = IF delivered THEN journal \cup {n} ELSE journal
  /\ stderr' = IF delivered THEN stderr ELSE stderr \cup {n}

AuditWrite(w) ==
  /\ running /\ place[w] = "idle" /\ issued < MaxRecords
  /\ issued' = issued + 1
  /\ rec' = [rec EXCEPT ![w] = NewRecord(issued + 1)]
  /\ \E delivered \in BOOLEAN : Report(w, issued + 1, delivered)
  /\ place' = [place EXCEPT ![w] = "append"]
  /\ UNCHANGED <<lines, ragged, head, file, running, holder, chain, faults,
                 tampered>>

-----------------------------------------------------------------------------
(* Audit::append.                                                          *)

\* The file mutex is taken; without a file there is nothing to do.
LockUnheld(w) ==
  /\ place[w] = "append"
  /\ holder' = IF file THEN w ELSE holder
  /\ place' = [place EXCEPT ![w] = IF file THEN "link" ELSE "idle"]
  /\ UNCHANGED <<lines, ragged, head, file, running, rec, issued, journal,
                 stderr, chain, faults, tampered>>

AuditLock(w) ==
  /\ place[w] = "append" /\ holder = NoWriter
  /\ holder' = IF file THEN w ELSE holder
  /\ place' = [place EXCEPT ![w] = IF file THEN "link" ELSE "idle"]
  /\ UNCHANGED <<lines, ragged, head, file, running, rec, issued, journal,
                 stderr, chain, faults, tampered>>

\* record.prev is the old head.
AuditTakePrev(w) ==
  /\ place[w] = "link"
  /\ rec' = [rec EXCEPT ![w].prev = head]
  /\ place' = [place EXCEPT ![w] = "head"]
  /\ UNCHANGED <<lines, ragged, head, file, running, holder, issued, journal,
                 stderr, chain, faults, tampered>>

\* The line is serialised and its hash becomes the head.
HeadKept(w) ==
  /\ place[w] = "head"
  /\ chain' = Append(chain, rec[w].id)
  /\ place' = [place EXCEPT ![w] = "text"]
  /\ UNCHANGED <<lines, ragged, head, file, running, holder, rec, issued,
                 journal, stderr, faults, tampered>>

AuditMoveHead(w) ==
  /\ place[w] = "head"
  /\ head' = rec[w].id
  /\ chain' = Append(chain, rec[w].id)
  /\ place' = [place EXCEPT ![w] = "text"]
  /\ UNCHANGED <<lines, ragged, file, running, holder, rec, issued, journal,
                 stderr, faults, tampered>>

\* writeln!'s first write.  A failure may leave nothing or half a line, and
\* is ignored.
AuditText(w) ==
  /\ place[w] = "text"
  /\ \/ /\ lines' = Appended(rec[w])
        /\ ragged' = TRUE
        /\ place' = [place EXCEPT ![w] = "newline"]
        /\ UNCHANGED faults
     \/ /\ faults < MaxFaults
        /\ faults' = faults + 1
        /\ place' = [place EXCEPT ![w] = "unlock"]
        /\ \/ UNCHANGED <<lines, ragged>>
           \/ /\ lines' = Appended(Line(rec[w].id, rec[w].prev, FALSE))
              /\ ragged' = TRUE
  /\ UNCHANGED <<head, file, running, holder, rec, issued, journal, stderr,
                 chain, tampered>>

\* Its second.
AuditNewline(w) ==
  /\ place[w] = "newline"
  /\ \/ ragged' = FALSE /\ UNCHANGED faults
     \/ faults < MaxFaults /\ faults' = faults + 1 /\ UNCHANGED ragged
  /\ place' = [place EXCEPT ![w] = "unlock"]
  /\ UNCHANGED <<lines, head, file, running, holder, rec, issued, journal,
                 stderr, chain, tampered>>

AuditUnlock(w) ==
  /\ place[w] = "unlock"
  /\ holder' = NoWriter
  /\ place' = [place EXCEPT ![w] = "idle"]
  /\ UNCHANGED <<lines, ragged, head, file, running, rec, issued, journal,
                 stderr, chain, faults, tampered>>

-----------------------------------------------------------------------------
(* The world: an orderly stop, a kill at any moment, an edit of the file.  *)

Down ==
  /\ running' = FALSE /\ file' = FALSE /\ head' = NoHash
  /\ holder' = NoWriter
  /\ place' = [w \in Writers |-> "idle"]
  /\ UNCHANGED <<rec, issued, journal, stderr, chain, tampered>>

AuditStop ==
  /\ running /\ \A w \in Writers : place[w] \in {"idle", "append"}
  /\ Down
  /\ UNCHANGED <<lines, ragged, faults>>

AuditKill ==
  /\ running /\ faults < MaxFaults
  /\ \E w \in Writers : place[w] \notin {"idle", "append"}
  /\ faults' = faults + 1
  /\ Down
  /\ \/ UNCHANGED <<lines, ragged>>
     \/ \E w \in Writers :
          /\ place[w] = "text"
          /\ lines' = Appended(Line(rec[w].id, rec[w].prev, FALSE))
          /\ ragged' = TRUE

\* In a file that verifies, a line other than the last is edited, deleted, or
\* swapped with the next.
Edited(k) == {[lines EXCEPT ![k].id = Forged],
              SubSeq(lines, 1, k - 1) \o SubSeq(lines, k + 1, Len(lines)),
              [lines EXCEPT ![k] = lines[k + 1], ![k + 1] = lines[k]]}

AuditTamper ==
  /\ ~ tampered /\ holder = NoWriter /\ ~ ragged /\ verify(lines) = 0
  /\ \E k \in DOMAIN lines : k < Len(lines) /\ lines' \in Edited(k)
  /\ tampered' = TRUE
  /\ UNCHANGED <<ragged, head, file, running, holder, place, rec, issued,
                 journal, stderr, chain, faults>>

AuditNext ==
  \/ AuditStart \/ AuditStop \/ AuditKill \/ AuditTamper
  \/ \E w \in Writers :
       \/ AuditWrite(w) \/ AuditLock(w) \/ AuditTakePrev(w)
       \/ AuditMoveHead(w) \/ AuditText(w) \/ AuditNewline(w)
       \/ AuditUnlock(w)

AuditSpec == AuditInit /\ [][AuditNext]_auditVars

-----------------------------------------------------------------------------

Lines == [id : Nat, prev : Nat, record : BOOLEAN]

\* The types, and the file mutex: one thread at a time is inside append, with
\* a file to append to, and a daemon that is down has nobody there.
AppendsInTurn ==
  /\ lines \in Seq(Lines)
  /\ rec \in [Writers -> {l \in Lines : l.record}]
  /\ place \in [Writers -> {"idle", "append", "link", "head", "text", "newline", "unlock"}]
  /\ faults \in Nat /\ issued \in Nat /\ head \in Nat
  /\ \A w \in Writers : place[w] \notin {"idle", "append"} <=> holder = w
  /\ holder \in Writers => file
  /\ file => running
  /\ ragged \in BOOLEAN /\ (ragged => lines # << >>)

\* The hash a record that comes next has to carry.
LastId(ls) == IF ls = << >> THEN NoHash ELSE ls[Len(ls)].id

\* As long as nothing has gone wrong every line carries the hash of the line
\* before, head is the hash of the last line except between moving it and
\* writing the text, and the record on its way there carries the old one.
ChainLinked ==
  (faults = 0 /\ ~ tampered) =>
    /\ \A k \in DOMAIN lines : ~ Breaks(lines, k)
    /\ ragged <=> \E w \in Writers : place[w] = "newline"
    /\ (file /\ \A w \in Writers : place[w] # "text") => head = LastId(lines)
    /\ \A w \in Writers : place[w] \in {"head", "text"} => rec[w].prev = LastId(lines)
    /\ \A w \in Writers : place[w] = "text" => head = rec[w].id

(* With no kill, no failed write and no edit, verify accepts the file at   *)
(* every moment, whichever threads wrote it and however often the daemon   *)
(* was restarted: append links under the file mutex and new picks the      *)
(* chain up from the tail.                                                 *)
ChainVerifies == (faults = 0 /\ ~ tampered) => verify(lines) = 0

(* A file that verifies has every record its last daemon run linked up to  *)
(* the last one in the file: a write that failed, or a record cut short,   *)
(* never goes unnoticed once a later record follows it (append moves the   *)
(* head before it writes).                                                 *)
LossIsVisible ==
  (verify(lines) = 0 /\ ~ tampered) =>
    Len(lines) <= Len(chain) /\ \A k \in DOMAIN lines : lines[k].id = chain[k]

(* In a file that verified, an edit, a deletion or a swap of any line but  *)
(* the last makes verify fail, and nothing the daemon appends afterwards,  *)
(* restarts included, makes it pass again.                                 *)
TamperEvident == tampered => verify(lines) # 0

(* Every record in the file was first told to the journal or to stderr,    *)
(* and to one of them only (write).                                        *)
ToldOnce == /\ journal \cap stderr = {}
            /\ \A k \in DOMAIN lines :
                 lines[k].id # Forged => lines[k].id \in journal \cup stderr

\* The daemon's own part of the chain: it verifies while nothing goes wrong,
\* shows what was lost, and each record was told once (write, append).
ChainSound == /\ AppendsInTurn /\ ChainLinked
              /\ ChainVerifies /\ LossIsVisible /\ ToldOnce
=============================================================================
