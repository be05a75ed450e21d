--------------------------- MODULE SessionProtocol ---------------------------
(***************************************************************************)
(* One session as its client sees it: the requests Worker::dispatch takes  *)
(* off the channel, the frames that go back, the tool calls a turn leaves  *)
(* open, attachments and media with their BLOB frames (session.rs), and    *)
(* the context-evicted notices other sessions' threads write to the same   *)
(* socket.                                                                 *)
(*                                                                         *)
(* The worker serves one request at a time.  A turn's gates (policy, load, *)
(* context, rate, KV, attachments) are one choice, refused or not; the     *)
(* modules Metering, KvBudget and Scheduler have what they decide.  A      *)
(* tool call is its number, zero a number nothing asked for; bytes are     *)
(* counted in units.                                                       *)
(***************************************************************************)
EXTENDS Naturals, Sequences, FiniteSets, Functions

CONSTANTS MaxToolCalls,  \* bound on the tool calls the model makes
          MaxFrames,     \* bound on what the backend sends for one request
          MaxRequests,   \* bound on the requests the client makes
          Batches,       \* the ToolResults a client may send: call numbers
          AttachSizes,   \* lengths a client declares, MaxBytes and past it
          MaxBytes,      \* attachments.max_bytes
          MaxHeld,       \* attachments.max_per_session
          Evictions      \* whether other sessions may evict this one's cache

ASSUME ProtocolAssumption == Batches \subseteq Seq(Nat) /\ AttachSizes \subseteq Nat

VARIABLES proto,     \* Worker.proto
          serving,   \* what the worker is doing
          pending,   \* Worker.pending_tool_calls, whose order nothing depends on
          in_history, \* calls in Worker.history
          answers,   \* tool results in Worker.history
          parallel,  \* the parallel_tools this turn asked the backend for
          calls_no,  \* calls made so far
          told,      \* frames sent since the last request
          owed,      \* bytes of the attachment yet to be read
          held,      \* attachments held
          sending,   \* bytes the client has announced and not yet sent
          departed,  \* the client stopped reading
          asks       \* requests so far

protocolVars == <<proto, serving, pending, in_history, answers, parallel,
                  calls_no, told, owed, held, sending, departed, asks>>

DATA_PROTO == 2
MIN_DATA_PROTO == 1

ProtocolInit == /\ proto = MIN_DATA_PROTO /\ serving = "ready"
                /\ pending = {} /\ in_history = {} /\ answers = {}
                /\ parallel = FALSE /\ calls_no = 0
                /\ told = << >> /\ owed = 0 /\ held = 0
                /\ sending = 0 /\ departed = FALSE /\ asks = 0

conversation == <<pending, in_history, answers, calls_no>>
attachments == <<owed, held, sending>>

Send(f) == told' = IF departed THEN told ELSE Append(told, f)

\* A request of a client that is not in the middle of an attachment.
MayAsk == /\ serving = "ready" /\ ~ departed /\ asks < MaxRequests
          /\ asks' = asks + 1

-----------------------------------------------------------------------------
(* dispatch.                                                               *)

\* Zero asks for whatever the daemon speaks.
Hello(p) ==
  LET asked == IF p = 0 THEN DATA_PROTO ELSE p IN
  /\ MayAsk /\ sending = 0
  /\ IF asked \in MIN_DATA_PROTO..DATA_PROTO
       THEN proto' = asked /\ serving' = "ready" /\ told' = <<"hello">>
       ELSE serving' = "dead" /\ told' = <<"error">> /\ UNCHANGED proto
  /\ UNCHANGED <<conversation, parallel, attachments, departed>>

\* turn's gates: refused, or begun with parallel_tools as the client and
\* the backend allow.
BeginUnversioned ==
  \/ /\ serving' = "ready" /\ told' = <<"error">>
     /\ UNCHANGED parallel
  \/ /\ serving' = "turn" /\ told' = << >>
     /\ \E can \in BOOLEAN : parallel' = can

BeginTurn ==
  \/ /\ serving' = "ready" /\ told' = <<"error">>
     /\ UNCHANGED parallel
  \/ /\ serving' = "turn" /\ told' = << >>
     /\ \E can \in BOOLEAN : parallel' = (proto >= 2 /\ can)

\* A new conversation: the client's messages replace the history, and the
\* calls outstanding are forgotten.
Generate ==
  /\ MayAsk /\ sending = 0
  /\ pending' = {} /\ in_history' = {} /\ answers' = {}
  /\ BeginTurn
  /\ UNCHANGED <<proto, calls_no, attachments, departed>>

\* answer_tools: results are taken one after the other up to the first that
\* answers nothing outstanding; the turn resumes when none is left.
Outstanding(results, k) ==
  results[k] \in pending \ {results[j] : j \in 1..(k - 1)}

Takes(results) ==
  CHOOSE n \in 0..Len(results) :
    /\ \A k \in 1..n : Outstanding(results, k)
    /\ n < Len(results) => ~ Outstanding(results, n + 1)

AnswerEach(results) ==
  LET n == Takes(results)
      taken == {results[k] : k \in 1..n}
  IN  /\ MayAsk /\ sending = 0 /\ pending # {}
      /\ pending' = pending \ taken
      /\ answers' = answers \cup taken
      /\ IF n = Len(results)
           THEN BeginTurn
           ELSE /\ told' = <<"error">>
                /\ UNCHANGED <<serving, parallel>>
      /\ UNCHANGED <<proto, in_history, calls_no, attachments, departed>>

AnswerTools(results) ==
  LET n == Takes(results)
      taken == {results[k] : k \in 1..n}
  IN  /\ MayAsk /\ sending = 0 /\ pending # {}
      /\ pending' = pending \ taken
      /\ answers' = answers \cup taken
      /\ IF n = Len(results) /\ pending' = {}
           THEN BeginTurn
           ELSE /\ told' = IF n = Len(results) THEN << >> ELSE <<"error">>
                /\ UNCHANGED <<serving, parallel>>
      /\ UNCHANGED <<proto, in_history, calls_no, attachments, departed>>

AnswerNothing ==
  /\ MayAsk /\ sending = 0 /\ pending = {}
  /\ told' = <<"error">>
  /\ UNCHANGED <<proto, serving, conversation, parallel, attachments, departed>>

\* A frame that is no request.
Unrecognised ==
  /\ MayAsk /\ sending = 0
  /\ told' = <<"error">>
  /\ UNCHANGED <<proto, serving, conversation, parallel, attachments, departed>>

\* GenerateMedia, and Embed or Tokenize: refused, or passed to the backend.
GenerateMedia ==
  /\ MayAsk /\ sending = 0
  /\ \/ serving' = "ready" /\ told' = <<"error">>
     \/ proto >= 2 /\ serving' = "media" /\ told' = << >>
  /\ UNCHANGED <<proto, conversation, parallel, attachments, departed>>

EmbedOrTokenize ==
  /\ MayAsk /\ sending = 0
  /\ \/ serving' = "ready" /\ told' = <<"error">>
     \/ serving' = "simple" /\ told' = << >>
  /\ UNCHANGED <<proto, conversation, parallel, attachments, departed>>

-----------------------------------------------------------------------------
(* The event loops of turn, generate_media and pump_simple.                *)

Room == Len(told) < MaxFrames

TokenEvent ==
  /\ serving = "turn" /\ Room /\ ~ departed
  /\ Send("token")
  /\ UNCHANGED <<proto, serving, conversation, parallel, attachments, departed, asks>>

\* The client left: the backend is cancelled and the loop ends.
TokenUnread ==
  /\ serving \in {"turn", "media"} /\ departed
  /\ serving' = "ready"
  /\ UNCHANGED <<proto, conversation, parallel, told, attachments, departed, asks>>

\* Calls to tools the turn offered: one, or several if the backend was asked
\* for several.
CallsUnrecorded(n) ==
  /\ serving = "turn" /\ Room /\ calls_no + n <= MaxToolCalls
  /\ n > 1 => parallel
  /\ pending' = pending \cup {calls_no + 1}
  /\ in_history' = in_history \cup {calls_no + k : k \in 1..n}
  /\ calls_no' = calls_no + n
  /\ Send(IF n = 1 THEN "call" ELSE "calls")
  /\ UNCHANGED <<proto, serving, answers, parallel, attachments, departed, asks>>

ToolCallsEvent(n) ==
  /\ serving = "turn" /\ Room /\ calls_no + n <= MaxToolCalls
  /\ n > 1 => parallel
  /\ LET ids == {calls_no + k : k \in 1..n}
     IN  pending' = pending \cup ids /\ in_history' = in_history \cup ids
  /\ calls_no' = calls_no + n
  /\ Send(IF n = 1 THEN "call" ELSE "calls")
  /\ UNCHANGED <<proto, serving, answers, parallel, attachments, departed, asks>>

\* A call the turn did not offer ends it (calls_are_ones_we_offered).
UnofferedGoesOn ==
  /\ serving = "turn" /\ Room
  /\ Send("error")
  /\ UNCHANGED <<proto, serving, conversation, parallel, attachments, departed, asks>>

UnofferedCall ==
  /\ serving = "turn"
  /\ Send("error") /\ serving' = "ready"
  /\ UNCHANGED <<proto, conversation, parallel, attachments, departed, asks>>

\* Vectors or Tokens for Embed and Tokenize.
ValueEvent ==
  /\ serving = "simple" /\ Room
  /\ Send("value")
  /\ UNCHANGED <<proto, serving, conversation, parallel, attachments, departed, asks>>

\* Media: the header, then, the socket's lock having been let go, the bytes.
MediaHeader ==
  /\ serving = "media" /\ Room /\ ~ departed
  /\ Send("media") /\ serving' = "blob"
  /\ UNCHANGED <<proto, conversation, parallel, attachments, departed, asks>>

MediaBytes ==
  /\ serving = "blob"
  /\ Send("blob") /\ serving' = "media"
  /\ UNCHANGED <<proto, conversation, parallel, attachments, departed, asks>>

\* Done, an error of the backend, or its silence.
Terminal(frame) ==
  /\ serving \in {"turn", "media", "simple"}
  /\ Send(frame) /\ serving' = "ready"
  /\ UNCHANGED <<proto, conversation, parallel, attachments, departed, asks>>

-----------------------------------------------------------------------------
(* attach, one frame at a time.                                            *)

\* The header.  Too long, or one too many, ends the session.
AttachRefusedEarly(len) ==
  /\ MayAsk /\ sending = 0
  /\ told' = IF len > MaxBytes \/ held >= MaxHeld THEN <<"error">> ELSE << >>
  /\ serving' = IF len > MaxBytes \/ held >= MaxHeld THEN "ready" ELSE "attach"
  /\ sending' = len /\ owed' = len
  /\ UNCHANGED <<proto, conversation, parallel, held, departed>>

Attach(len) ==
  /\ MayAsk /\ sending = 0
  /\ told' = IF len > MaxBytes \/ held >= MaxHeld THEN <<"error">> ELSE << >>
  /\ serving' = IF len > MaxBytes \/ held >= MaxHeld THEN "dead" ELSE "attach"
  /\ sending' = len /\ owed' = len
  /\ UNCHANGED <<proto, conversation, parallel, held, departed>>

\* The client sends the next of the bytes it announced.
Blob(n) ==
  /\ sending >= n /\ ~ departed /\ serving \in {"attach", "ready"}
  /\ sending' = sending - n
  /\ IF serving = "attach"
       THEN owed' = owed - n /\ UNCHANGED <<serving, told>>
       ELSE serving' = "dead" /\ told' = <<"error">> /\ UNCHANGED owed
  /\ UNCHANGED <<proto, conversation, parallel, held, departed, asks>>

\* A request in the middle of them, or more bytes than announced.
Interrupted ==
  /\ serving = "attach" /\ owed > 0 /\ ~ departed
  /\ serving' = "dead" /\ Send("error")
  /\ UNCHANGED <<proto, conversation, parallel, attachments, departed, asks>>

\* All of it is there: refused, or decoded, within budget and kept, in place
\* of the attachment that had its id if there was one.
AttachEnd ==
  /\ serving = "attach" /\ owed = 0
  /\ \/ held' \in {held + 1} \cup ({held} \ {0}) /\ UNCHANGED told
     \/ Send("error") /\ UNCHANGED held
  /\ serving' = "ready"
  /\ UNCHANGED <<proto, conversation, parallel, owed, sending, departed, asks>>

-----------------------------------------------------------------------------
(* announce_evictions of another session, and the client leaving.          *)
EvictionNotice ==
  /\ Evictions /\ serving # "dead" /\ ~ departed /\ Room
  /\ Send("notice")
  /\ UNCHANGED <<proto, serving, conversation, parallel, attachments, departed, asks>>

ClientLeaves ==
  /\ ~ departed
  /\ departed' = TRUE
  /\ UNCHANGED <<proto, serving, conversation, parallel, told, attachments, asks>>

\* The reader is gone, so recv fails.
WorkerEnds ==
  /\ departed /\ \/ serving = "ready"
                 \/ serving = "attach" /\ owed > 0
  /\ serving' = "dead"
  /\ UNCHANGED <<proto, conversation, parallel, told, attachments, departed, asks>>

ProtocolNext ==
  \/ \E p \in 0..3 : Hello(p)
  \/ Generate \/ AnswerNothing \/ Unrecognised \/ GenerateMedia \/ EmbedOrTokenize
  \/ \E results \in Batches : AnswerTools(results)
  \/ TokenEvent \/ TokenUnread \/ UnofferedCall \/ ValueEvent
  \/ \E n \in 1..2 : ToolCallsEvent(n)
  \/ MediaHeader \/ MediaBytes
  \/ Terminal("done") \/ Terminal("error")
  \/ \E len \in AttachSizes : Attach(len)
  \/ \E n \in 1..2 : Blob(n)
  \/ Interrupted \/ AttachEnd
  \/ EvictionNotice \/ ClientLeaves \/ WorkerEnds

ProtocolSpec == ProtocolInit /\ [][ProtocolNext]_protocolVars

-----------------------------------------------------------------------------
Terminals == {"done", "error"}

(* A request is answered once: nothing but notices follows a Done or an    *)
(* error, and a client that was sent anything of an answer is sent its     *)
(* end.  Every way out of the three event loops keeps this.                *)
AnsweredOnce ==
  /\ \A k \in DOMAIN told : told[k] \in Terminals =>
       \A j \in (k + 1)..Len(told) : told[j] = "notice"
  /\ (serving = "ready" /\ ~ departed /\ Range(told) \ {"notice", "hello"} # {}) =>
       Range(told) \cap Terminals # {}

(* What the session waits on is exactly what the model asked for in this   *)
(* conversation and has no result for, whatever batches the results came   *)
(* in and whatever was refused (turn, answer_tools, Generate).             *)
PendingExact == pending = in_history \ answers

(* The model is never put in front of a half-answered question: a turn     *)
(* starts only when every call in the history has its result.              *)
NoHalfAnswered ==
  [][serving # "turn" /\ serving' = "turn" => in_history' \subseteq answers']_protocolVars

(* A client that negotiated version 1, or nothing, is never sent what      *)
(* version 2 added (ToolCalls, Media).                                     *)
OldClientsUnderstand ==
  proto < 2 => Range(told) \cap {"calls", "media", "blob"} = {}

(* The stream of requests stays in step: whenever the worker expects a     *)
(* request the client has no attachment bytes left to send, also after an  *)
(* attachment was refused (attach drains before it decides).               *)
InStep == (serving = "ready" /\ ~ departed) => sending = 0

\* Client and worker understand each other on the socket, in both directions:
\* one end per request, nothing of a newer version, and no attachment bytes
\* where a request is expected (run, turn, attach).
WireInOrder == AnsweredOnce /\ OldClientsUnderstand /\ InStep
=============================================================================
