---------------------------- MODULE DecodeHelper ----------------------------
(***************************************************************************)
(* One attachment decoded in a process of its own: decode_within of        *)
(* decode.rs, its writer thread and the deadline on its reads, against the *)
(* ai-daemon-decode program it starts.                                     *)
(*                                                                         *)
(* decode_within is written not to trust that program, so besides the      *)
(* shipped one there is a rogue: it reads or does not, sends what frames   *)
(* it likes, starts a child that holds its pipes, dies or hangs.  Payloads *)
(* are counted in BLOB frames, which write_blob makes of them; pixels and  *)
(* samples are left out.                                                   *)
(***************************************************************************)
EXTENDS Naturals, Sequences

CONSTANTS Helpers,      \* of "absent" (or not to be spawned), "shipped", "rogue"
          EncodedSizes, \* frames of the encoded attachment
          Outputs,      \* frames a decoded attachment may have
          MaxDecoded,   \* MAX_DECODED
          PipeRoom      \* frames a pipe holds

ASSUME DecodeAssumption ==
  /\ Helpers \subseteq {"absent", "shipped", "rogue"}
  /\ EncodedSizes \subseteq Nat /\ Outputs \subseteq Nat /\ MaxDecoded \in Nat

VARIABLES kind, size,   \* the helper installed, and the attachment
          daemon,       \* where decode_within is
          writer,       \* frames the writer thread has yet to write
          inpipe,       \* frames in the helper's stdin
          outpipe,      \* frames in its stdout
          child,        \* where the helper is
          heir,         \* a process it started, in its group
          got,          \* payload frames it read
          left,         \* frames it has yet to send
          exit,         \* its wait status
          reaped,       \* it was waited for
          late,         \* the deadline has passed
          wanted, have, \* reply.len and data.len
          outcome,      \* of read_reply
          verdict       \* of decode_within

helperVars == <<child, got, left, exit>>
pipes == <<inpipe, outpipe>>
decodeVars == <<kind, size, daemon, writer, pipes, helperVars, heir, reaped,
                late, wanted, have, outcome, verdict>>

DecodeInit == /\ kind \in Helpers /\ size \in EncodedSizes
              /\ daemon = "start" /\ writer = 0 /\ inpipe = 0 /\ outpipe = << >>
              /\ child = "off" /\ heir = FALSE /\ got = 0 /\ left = 0
              /\ exit = "none" /\ reaped = FALSE /\ late = FALSE
              /\ wanted = 0 /\ have = 0 /\ outcome = "none" /\ verdict = "none"

HelperReply(ok, len) == [type |-> "reply", ok |-> ok, len |-> len]
BlobFrame(len) == [type |-> "blob", ok |-> FALSE, len |-> len]
OtherFrame == [type |-> "other", ok |-> FALSE, len |-> 0]

\* Somebody has the helper's ends of the pipes.
PipesHeld == child \notin {"off", "exited"} \/ heir

-----------------------------------------------------------------------------
(* decode_within.                                                          *)

SpawnDecoder ==
  /\ daemon = "start"
  /\ IF kind = "absent"
       THEN daemon' = "done" /\ verdict' = "absent" /\ UNCHANGED <<writer, child>>
       ELSE /\ daemon' = "reply" /\ writer' = 1 + size /\ child' = "request"
            /\ UNCHANGED verdict
  /\ UNCHANGED <<kind, size, pipes, got, left, exit, heir, reaped, late, wanted, have, outcome>>

\* The writer thread: the request, then the payload's frames; it ends early
\* when nobody can read them any more.
WriteFrame ==
  /\ writer > 0
  /\ IF PipesHeld THEN /\ inpipe < PipeRoom /\ inpipe' = inpipe + 1
                       /\ writer' = writer - 1
                  ELSE writer' = 0 /\ UNCHANGED inpipe
  /\ UNCHANGED <<kind, size, daemon, outpipe, helperVars, heir, reaped, late,
                 wanted, have, outcome, verdict>>

Reading == daemon \in {"reply", "payload"}
Concluded(what) == outcome' = what /\ daemon' = "kill"
GoesOn(at) == daemon' = at /\ UNCHANGED outcome

\* read_reply: the reply, then BLOB frames until there is all it announced.
TakeFrame ==
  /\ Reading /\ ~ late /\ outpipe # << >>
  /\ outpipe' = Tail(outpipe)
  /\ LET f == Head(outpipe) IN
     IF daemon = "reply"
       THEN /\ IF f.type # "reply" \/ ~ f.ok \/ f.len > MaxDecoded
                 THEN Concluded("error") /\ UNCHANGED wanted
                 ELSE /\ wanted' = f.len
                      /\ IF f.len = 0 THEN Concluded("ok") ELSE GoesOn("payload")
            /\ UNCHANGED have
       ELSE /\ IF f.type = "blob"
                 THEN /\ have' = have + f.len
                      /\ IF have' >= wanted THEN Concluded("ok") ELSE GoesOn("payload")
                 ELSE Concluded("error") /\ UNCHANGED have
            /\ UNCHANGED wanted
  /\ UNCHANGED <<kind, size, writer, inpipe, helperVars, heir, reaped, late, verdict>>

EofIsTheEnd ==
  /\ Reading /\ ~ late /\ outpipe = << >> /\ ~ PipesHeld
  /\ Concluded(IF daemon = "reply" THEN "error" ELSE "ok")
  /\ UNCHANGED <<kind, size, writer, pipes, helperVars, heir, reaped, late, wanted, have, verdict>>

TakeEof ==
  /\ Reading /\ ~ late /\ outpipe = << >> /\ ~ PipesHeld
  /\ Concluded("error")
  /\ UNCHANGED <<kind, size, writer, pipes, helperVars, heir, reaped, late, wanted, have, verdict>>

\* DeadlineReader: the time is looked at before every read.
LateAfterData ==
  /\ Reading /\ late /\ outpipe # << >>
  /\ Concluded("late")
  /\ UNCHANGED <<kind, size, writer, pipes, helperVars, heir, reaped, late, wanted, have, verdict>>

RunOutOfTime ==
  /\ Reading /\ late
  /\ Concluded("late")
  /\ UNCHANGED <<kind, size, writer, pipes, helperVars, heir, reaped, late, wanted, have, verdict>>

DeadlinePasses ==
  /\ Reading /\ ~ late /\ late' = TRUE
  /\ UNCHANGED <<kind, size, daemon, writer, pipes, helperVars, heir, reaped,
                 wanted, have, outcome, verdict>>

\* kill(-group), whatever the outcome was.
KillLeaderOnly ==
  /\ daemon = "kill" /\ daemon' = "wait" /\ child' = "exited"
  /\ exit' = IF child = "exited" THEN exit ELSE "SIGKILL"
  /\ UNCHANGED <<kind, size, writer, pipes, got, left, heir, reaped, late, wanted, have,
                 outcome, verdict>>

KillGroup ==
  /\ daemon = "kill" /\ daemon' = "wait" /\ child' = "exited" /\ heir' = FALSE
  /\ exit' = IF child = "exited" THEN exit ELSE "SIGKILL"
  /\ UNCHANGED <<kind, size, writer, pipes, got, left, reaped, late, wanted, have,
                 outcome, verdict>>

WaitDecoder ==
  /\ daemon = "wait" /\ child = "exited" /\ reaped' = TRUE /\ daemon' = "join"
  /\ UNCHANGED <<kind, size, writer, pipes, helperVars, heir, late, wanted, have,
                 outcome, verdict>>

JoinWriter ==
  /\ daemon = "join" /\ writer = 0 /\ daemon' = "done"
  /\ verdict' = IF outcome = "error" /\ exit = "SIGSYS" THEN "caged" ELSE outcome
  /\ UNCHANGED <<kind, size, writer, pipes, helperVars, heir, reaped, late, wanted,
                 have, outcome>>

-----------------------------------------------------------------------------
(* The shipped decoder.                                                    *)

Decoder(at, to) == kind = "shipped" /\ child = at /\ child' = to
Quietly == UNCHANGED <<kind, size, daemon, writer, heir, reaped, late, wanted, have,
                       outcome, verdict>>
Exits(status) == exit' = status

\* The stream cannot end before it has it all: the writer stops early only
\* once this process is gone.
ReadEncoded ==
  /\ inpipe > 0 /\ inpipe' = inpipe - 1 /\ UNCHANGED <<outpipe, left, exit>>
  /\ \/ Decoder("request", IF size = 0 THEN "confine" ELSE "payload") /\ UNCHANGED got
     \/ Decoder("payload", IF got + 1 = size THEN "confine" ELSE "payload") /\ got' = got + 1
  /\ Quietly

\* The cage closes before the first byte is parsed, or nothing is parsed.
Confine ==
  /\ Decoder("confine", "decode") \/ Decoder("confine", "fail")
  /\ UNCHANGED <<pipes, got, left, exit>> /\ Quietly

DecodeBytes ==
  /\ \/ Decoder("decode", "answer") /\ left' \in {n \in Outputs : n <= MaxDecoded}
        /\ UNCHANGED exit
     \/ Decoder("decode", "fail") /\ UNCHANGED <<left, exit>>
     \/ Decoder("decode", "exited") /\ Exits("SIGSYS") /\ UNCHANGED left
  /\ UNCHANGED <<pipes, got>> /\ Quietly

Put(frame, to) ==
  /\ Len(outpipe) < PipeRoom /\ outpipe' = Append(outpipe, frame) /\ child' = to
  /\ exit' = IF to = "exited" THEN "clean" ELSE exit

SendDecoded ==
  /\ kind = "shipped"
  /\ \/ child = "fail" /\ Put(HelperReply(FALSE, 0), "exited") /\ UNCHANGED left
     \/ child = "answer" /\ UNCHANGED left
        /\ Put(HelperReply(TRUE, left), IF left = 0 THEN "exited" ELSE "blobs")
     \/ child = "blobs" /\ left' = left - 1
        /\ Put(BlobFrame(1), IF left = 1 THEN "exited" ELSE "blobs")
  /\ UNCHANGED <<inpipe, got>> /\ Quietly

-----------------------------------------------------------------------------
(* A rogue.                                                                *)

Rogue == kind = "rogue" /\ child = "request"

RogueReads == /\ Rogue /\ inpipe > 0 /\ inpipe' = inpipe - 1
              /\ UNCHANGED <<outpipe, helperVars>> /\ Quietly

RogueSends ==
  /\ Rogue /\ Len(outpipe) < PipeRoom
  /\ \E f \in {HelperReply(TRUE, n) : n \in Outputs} \cup {HelperReply(FALSE, 0), OtherFrame}
              \cup {BlobFrame(n) : n \in 0..1} :
       outpipe' = Append(outpipe, f)
  /\ UNCHANGED <<inpipe, helperVars>> /\ Quietly

RogueForks == /\ Rogue /\ ~ heir /\ heir' = TRUE
              /\ UNCHANGED <<kind, size, daemon, writer, pipes, helperVars, reaped,
                             late, wanted, have, outcome, verdict>>

RogueDies == /\ Rogue /\ child' = "exited" /\ exit' \in {"clean", "SIGSYS", "other"}
             /\ UNCHANGED <<pipes, got, left>> /\ Quietly

DecodeNext ==
  \/ SpawnDecoder \/ WriteFrame \/ TakeFrame \/ TakeEof \/ RunOutOfTime \/ DeadlinePasses
  \/ KillGroup \/ WaitDecoder \/ JoinWriter
  \/ ReadEncoded \/ Confine \/ DecodeBytes \/ SendDecoded
  \/ RogueReads \/ RogueSends \/ RogueForks \/ RogueDies

\* Once an attachment is handed over the daemon's two threads run and the clock
\* goes on; the helper may stop anywhere.
DecodeFair ==
  /\ WF_decodeVars(TakeFrame \/ TakeEof \/ RunOutOfTime \/ KillGroup \/ WaitDecoder
                     \/ JoinWriter)
  /\ WF_decodeVars(WriteFrame)
  /\ WF_decodeVars(DeadlinePasses)

DecodeSpec == DecodeInit /\ [][DecodeNext]_decodeVars /\ DecodeFair

-----------------------------------------------------------------------------
(* Properties.                                                             *)

\* When decode_within returns, whatever the helper did, it has been waited
\* for, what it started is dead and the writer thread has ended: nothing is
\* left of an attachment.  (decode.rs: "so the deadline can kill everything
\* the decoder started and not just the decoder".)
NothingSurvives ==
  daemon = "done" /\ kind # "absent" =>
    reaped /\ child = "exited" /\ ~ heir /\ writer = 0

\* What is handed to the backend is whole: all the frames the reply
\* announced came, and it announced no more than the limit.  From the
\* shipped decoder it is exactly what was decoded.
DecodedWhole ==
  verdict = "ok" => /\ wanted <= have /\ wanted <= MaxDecoded
                    /\ kind = "shipped" => have = wanted /\ left = 0 /\ got = size

\* A decode ends, though the helper hang, refuse to read, flood its output
\* or leave a child with its pipes.  (decode.rs: "So the deadline lives on
\* the read".)
DecodeReturns == (daemon = "reply") ~> (daemon = "done")

\* What decode_within leaves behind: a whole result or none, and no process,
\* no thread.
DecodeClean == NothingSurvives /\ DecodedWhole
=============================================================================
