---------------------------- MODULE Cancellation ----------------------------
(***************************************************************************)
(* One session of session.rs: the thread that reads its socket, the thread *)
(* that works, and a caller on the bus (dbusapi.rs) that may cancel or     *)
(* close it at any moment.                                                 *)
(*                                                                         *)
(* The shared state is that of state.rs's Session: the cancelled and       *)
(* closed flags and current_req.  cancel_in_flight sets the flag and then  *)
(* looks at current_req, two steps; a turn clears the flag once its checks *)
(* are over, then queues, begins, and only then publishes current_req.     *)
(*                                                                         *)
(* A frame is a request to generate, streamed or not, or a cancel.  The    *)
(* backend request of turn n is n: the backend never uses an id twice.     *)
(***************************************************************************)
EXTENDS Naturals, Sequences, FiniteSets

CONSTANTS MaxTurns,   \* bound of the model on requests to generate
          MaxQueue,   \* bound of the model on frames unread in the socket
          MaxCalls    \* bound of the model on cancel frames and Cancel calls

ASSUME CancellationBounds == {MaxTurns, MaxQueue, MaxCalls} \subseteq Nat

VARIABLES socket,       \* frames the client has written and nobody has read
          gone,         \* the client has hung up
          shut,         \* the daemon's end of the socket has been shut down
          reader,       \* where the reading thread is
          offer,        \* the frame it is handing over, while offering
          worker,       \* where the working thread is
          stream,       \* whether the current turn streams its tokens
          turn,         \* the number of the latest turn
          cancel_sent,  \* the turn's local of that name
          bus,          \* where the caller on the bus is
          calls,        \* cancel frames and Cancel calls so far
          cancelled,    \* Session.cancelled
          closed,       \* Session.closed
          current_req,  \* Session.current_req, zero for None
          hits,         \* requests the backend was told to cancel
          covered       \* turns that overlap a cancellation by somebody

clientVars == <<socket, gone>>
readerVars == <<reader, offer>>
workerVars == <<worker, stream, turn, cancel_sent, current_req>>
busVars    == <<bus, calls>>
cancelVars == <<clientVars, readerVars, workerVars, busVars, shut, cancelled, closed,
                hits, covered>>

Frames == {"stream", "batch", "cancel"}

Unused == /\ socket = << >>
          /\ gone = FALSE
          /\ shut = FALSE
          /\ reader = "reading"
          /\ offer = "cancel"
          /\ stream = FALSE
          /\ turn = 0
          /\ cancel_sent = FALSE
          /\ bus = "idle"
          /\ calls = 0
          /\ cancelled = FALSE
          /\ closed = FALSE
          /\ current_req = 0
          /\ hits = {}
          /\ covered = {}

CancelInit == Unused /\ worker = "top"

-----------------------------------------------------------------------------
(* The client.                                                             *)

\* Requests written so far: turns started, in the socket and being offered.
Requests == turn + (IF reader = "offering" THEN 1 ELSE 0)
            + Cardinality({i \in DOMAIN socket : socket[i] # "cancel"})

Write(f) ==
  /\ ~ gone /\ ~ shut
  /\ Len(socket) < MaxQueue
  /\ IF f = "cancel" THEN calls < MaxCalls /\ calls' = calls + 1
                     ELSE Requests < MaxTurns /\ calls' = calls
  /\ socket' = Append(socket, f)
  /\ UNCHANGED <<gone, readerVars, workerVars, bus, shut, cancelled, closed,
                 hits, covered>>

HangUp ==
  /\ ~ gone
  /\ gone' = TRUE
  /\ UNCHANGED <<socket, readerVars, workerVars, busVars, shut, cancelled,
                 closed, hits, covered>>

-----------------------------------------------------------------------------
(* cancel_in_flight: set the flag, then look for a request to cancel.      *)

SetFlag == /\ cancelled' = TRUE
           /\ covered' = covered \cup {turn}

CancelCurrent == hits' = hits \cup ({current_req} \ {0})

-----------------------------------------------------------------------------
(* read_socket.  It cancels at once, and hands everything else across a    *)
(* rendezvous, where it waits until the working thread takes it.           *)

ReadCancel ==
  /\ reader = "reading"
  /\ socket # << >> /\ Head(socket) = "cancel"
  /\ socket' = Tail(socket)
  /\ reader' = "cancelling"
  /\ SetFlag
  /\ UNCHANGED <<gone, offer, workerVars, busVars, shut, closed, hits>>

ReadFrame ==
  /\ reader = "reading"
  /\ socket # << >> /\ Head(socket) # "cancel"
  /\ socket' = Tail(socket)
  /\ reader' = "offering"
  /\ offer' = Head(socket)
  /\ UNCHANGED <<gone, workerVars, busVars, shut, cancelled, closed, hits,
                 covered>>

\* End of file: the client hung up, or the daemon shut the socket.  What was
\* already queued is read first.
ReadEof ==
  /\ reader = "reading"
  /\ socket = << >> /\ (gone \/ shut)
  /\ reader' = "leaving"
  /\ SetFlag
  /\ UNCHANGED <<clientVars, offer, workerVars, busVars, shut, closed, hits>>

ReadsOn ==
  /\ reader \in {"cancelling", "leaving"}
  /\ CancelCurrent
  /\ reader' = "reading"
  /\ UNCHANGED <<clientVars, offer, workerVars, busVars, shut, cancelled, closed,
                 covered>>

ReaderCancels ==
  /\ reader \in {"cancelling", "leaving"}
  /\ CancelCurrent
  /\ reader' = IF reader = "cancelling" THEN "reading" ELSE "left"
  /\ UNCHANGED <<clientVars, offer, workerVars, busVars, shut, cancelled, closed,
                 covered>>

\* The working thread is gone, and with it the other end of the rendezvous.
OfferFails ==
  /\ reader = "offering"
  /\ worker = "retired"
  /\ reader' = "left"
  /\ UNCHANGED <<clientVars, offer, workerVars, busVars, shut, cancelled, closed,
                 hits, covered>>

-----------------------------------------------------------------------------
(* Worker::run and Worker::turn.                                           *)

\* run's test at the top of its loop.
Top ==
  /\ worker = "top"
  /\ worker' = IF closed THEN "retiring" ELSE "receiving"
  /\ UNCHANGED <<clientVars, readerVars, stream, turn, cancel_sent, current_req,
                 busVars, shut, cancelled, closed, hits, covered>>

\* The rendezvous: a turn starts with its checks, which may load a model.
Receive ==
  /\ worker = "receiving"
  /\ reader = "offering"
  /\ reader' = "reading"
  /\ offer' = "cancel"
  /\ worker' = "checking"
  /\ stream' = (offer = "stream")
  /\ turn' = turn + 1
  /\ covered' = IF bus = "idle" THEN covered ELSE covered \cup {turn + 1}
  /\ UNCHANGED <<clientVars, cancel_sent, current_req, busVars, shut, cancelled,
                 closed, hits>>

ReaderIsGone ==
  /\ worker = "receiving"
  /\ reader = "left"
  /\ worker' = "retiring"
  /\ UNCHANGED <<clientVars, readerVars, stream, turn, cancel_sent, current_req,
                 busVars, shut, cancelled, closed, hits, covered>>

\* One of the checks refuses the turn, or begin fails.
Refuse ==
  /\ worker \in {"checking", "queued"}
  /\ worker' = "top"
  /\ stream' = FALSE
  /\ UNCHANGED <<clientVars, readerVars, turn, cancel_sent, current_req, busVars,
                 shut, cancelled, closed, hits, covered>>

\* The checks passed: the flag is cleared and the turn queues for a slot.
KeepFlag ==
  /\ worker = "checking"
  /\ worker' = "queued"
  /\ UNCHANGED <<clientVars, readerVars, stream, turn, cancel_sent, current_req,
                 busVars, shut, cancelled, closed, hits, covered>>

ClearFlag ==
  /\ worker = "checking"
  /\ cancelled' = FALSE
  /\ worker' = "queued"
  /\ UNCHANGED <<clientVars, readerVars, stream, turn, cancel_sent, current_req,
                 busVars, shut, closed, hits, covered>>

BeginRequest ==
  /\ worker = "queued"
  /\ worker' = "begun"
  /\ UNCHANGED <<clientVars, readerVars, stream, turn, cancel_sent, current_req,
                 busVars, shut, cancelled, closed, hits, covered>>

Publish ==
  /\ worker = "begun"
  /\ worker' = "streaming"
  /\ current_req' = turn
  /\ UNCHANGED <<clientVars, readerVars, stream, turn, cancel_sent, busVars,
                 shut, cancelled, closed, hits, covered>>

\* The loop's reading of the flag, before every event and every quiet slice.
NeverLooks ==
  /\ FALSE
  /\ UNCHANGED cancelVars

SeeFlag ==
  /\ worker = "streaming"
  /\ cancelled /\ ~ cancel_sent
  /\ cancel_sent' = TRUE
  /\ hits' = hits \cup {turn}
  /\ UNCHANGED <<clientVars, readerVars, worker, stream, turn, current_req,
                 busVars, shut, cancelled, closed, covered>>

KeepsCurrent ==
  /\ worker = "streaming"
  /\ worker' = "top"
  /\ stream' = FALSE
  /\ cancel_sent' = FALSE
  /\ UNCHANGED <<clientVars, readerVars, turn, current_req, busVars, shut,
                 cancelled, closed, hits, covered>>

EndTurn ==
  /\ worker = "streaming"
  /\ worker' = "top"
  /\ current_req' = 0
  /\ stream' = FALSE
  /\ cancel_sent' = FALSE
  /\ UNCHANGED <<clientVars, readerVars, turn, busVars, shut, cancelled, closed,
                 hits, covered>>

\* The backend finishes of its own accord, whenever that is.
Done == EndTurn

\* The backend, told to cancel, ends the request.
DoneCancelled == turn \in hits /\ EndTurn

\* A token that cannot be written ends a turn that streams.
TokenUnsent == stream /\ (gone \/ shut) /\ EndTurn

\* retire, from teardown.
Retire ==
  /\ worker = "retiring"
  /\ worker' = "retired"
  /\ closed' = TRUE
  /\ shut' = TRUE
  /\ UNCHANGED <<clientVars, readerVars, stream, turn, cancel_sent, current_req,
                 busVars, cancelled, hits, covered>>

-----------------------------------------------------------------------------
(* Session.Cancel, and close_session (Session.Close and Manager.Revoke).   *)

BusCancel ==
  /\ bus = "idle"
  /\ calls < MaxCalls
  /\ calls' = calls + 1
  /\ bus' = "cancelling"
  /\ SetFlag
  /\ UNCHANGED <<clientVars, readerVars, workerVars, shut, closed, hits>>

BusClose ==
  /\ bus = "idle"
  /\ ~ closed
  /\ closed' = TRUE
  /\ bus' = "flagging"
  /\ covered' = covered \cup {turn}
  /\ UNCHANGED <<clientVars, readerVars, workerVars, calls, shut, cancelled,
                 hits>>

BusFlags ==
  /\ bus = "flagging"
  /\ bus' = "closing"
  /\ SetFlag
  /\ UNCHANGED <<clientVars, readerVars, workerVars, calls, shut, closed, hits>>

BusCancels ==
  /\ bus \in {"cancelling", "closing"}
  /\ CancelCurrent
  /\ bus' = IF bus = "cancelling" THEN "idle" ELSE "shutting"
  /\ UNCHANGED <<clientVars, readerVars, workerVars, calls, shut, cancelled,
                 closed, covered>>

LeavesSocket ==
  /\ bus = "shutting"
  /\ bus' = "idle"
  /\ UNCHANGED <<clientVars, readerVars, workerVars, calls, shut, cancelled,
                 closed, hits, covered>>

BusShuts ==
  /\ bus = "shutting"
  /\ shut' = TRUE
  /\ bus' = "idle"
  /\ UNCHANGED <<clientVars, readerVars, workerVars, calls, cancelled, closed,
                 hits, covered>>

-----------------------------------------------------------------------------

Client == HangUp \/ \E f \in Frames : Write(f)

Reader == ReadCancel \/ ReadFrame \/ ReadEof \/ ReaderCancels \/ OfferFails

\* What the working thread does without waiting for the backend to finish.
Works == \/ Top \/ Receive \/ ReaderIsGone \/ Refuse \/ ClearFlag \/ BeginRequest
         \/ Publish \/ SeeFlag \/ DoneCancelled \/ TokenUnsent \/ Retire

Bus == BusCancel \/ BusClose \/ BusFlags \/ BusCancels \/ BusShuts

CancelNext == Client \/ Reader \/ Works \/ Done \/ Bus

CancelSpec == CancelInit /\ [][CancelNext]_cancelVars

(***************************************************************************)
(* Fairness.  The threads run, the loop looks at the flag at least once    *)
(* per silence slice, a begun call on the bus is carried through, and a    *)
(* backend told to cancel ends the request.  When the backend finishes by  *)
(* itself is up to the model: no bound on that is assumed here.            *)
(***************************************************************************)
CancelFair == /\ WF_cancelVars(Reader)
              /\ WF_cancelVars(Top \/ Receive \/ ReaderIsGone \/ ClearFlag
                                 \/ BeginRequest \/ Publish \/ Retire)
              /\ WF_cancelVars(SeeFlag)
              /\ WF_cancelVars(DoneCancelled)
              /\ WF_cancelVars(TokenUnsent)
              /\ WF_cancelVars(BusFlags \/ BusCancels \/ BusShuts)

FairCancelSpec == CancelSpec /\ CancelFair

-----------------------------------------------------------------------------
(* Properties.                                                             *)

\* Every variable keeps its type, and current_req is the turn's request
\* exactly while the turn streams.
CancelTypeOK ==
  /\ socket \in Seq(Frames) /\ Len(socket) <= MaxQueue
  /\ reader \in {"reading", "offering", "cancelling", "leaving", "left"}
  /\ offer \in Frames
  /\ worker \in {"top", "receiving", "checking", "queued", "begun", "streaming",
                 "retiring", "retired"}
  /\ turn \in 0..MaxTurns
  /\ bus \in {"idle", "cancelling", "flagging", "closing", "shutting"}
  /\ calls \in 0..MaxCalls
  /\ current_req = IF worker = "streaming" THEN turn ELSE 0
  /\ {gone, shut, stream, cancel_sent, cancelled, closed} \subseteq BOOLEAN
  /\ hits \subseteq 1..turn
  /\ covered \subseteq 0..turn

\* A request is cancelled only if somebody's cancellation overlapped its turn:
\* neither a flag left over from an earlier turn nor a cancel that read
\* current_req before the turn changed reaches a later request.
NoStrayCancel == hits \subseteq covered

\* What a cancel on its way may reach is a turn it overlaps: the reader cannot
\* hand over the next request before it has looked at current_req, a turn that
\* begins during a call on the bus is counted as overlapped, and a turn clears
\* the flag before it begins its request.
CancelsOverlap ==
  /\ reader \in {"cancelling", "leaving"} => turn \in covered
  /\ bus # "idle" => turn \in covered
  /\ worker \in {"queued", "begun", "streaming"} /\ cancelled => turn \in covered

\* Turns are the client's requests, one after another.
TurnsAreRequests ==
  /\ Requests <= MaxTurns
  /\ worker \in {"checking", "queued", "begun", "streaming"} => turn > 0

\* The types, and no cancel on a turn it was not meant for (cancel_in_flight).
CancelInv == CancelTypeOK /\ NoStrayCancel /\ CancelsOverlap /\ TurnsAreRequests

\* A cancellation that finds the turn past the point where the flag is cleared
\* is not lost, although current_req may not be published yet: the request
\* begins and is cancelled, or the turn ends.
CancelLands ==
  \A n \in 1..MaxTurns :
    (turn = n /\ worker \in {"queued", "begun", "streaming"} /\ cancelled)
      ~> (n \in hits \/ turn # n \/ worker \notin {"queued", "begun", "streaming"})

\* Every request ends: its token limit, or the silence net.
RequestsEnd == []<>(worker # "streaming")

\* If every request ends, a session whose client has gone, or that was closed
\* from the bus, is retired, and its reader does not outlive it
\* (session.rs:234-241).
SessionEnds ==
  RequestsEnd => (gone \/ closed ~> (worker = "retired" /\ reader = "left"))

-----------------------------------------------------------------------------
(* What the comment on close_session says.                                 *)

\* Closing stops the generation already running, without waiting for it to
\* reach its end (dbusapi.rs:968-971).
CloseStops == closed ~> (worker = "retired")
=============================================================================
