-------------------------------- MODULE Shim --------------------------------
(***************************************************************************)
(* ai-daemon-shim: one HTTP connection, from the listeners to its end.     *)
(* The thread of a connection (main.rs, serve) shares nothing with others  *)
(* but a counter, so one connection, its client and the session it opens   *)
(* are the whole of it.  Three APIs relay a turn, as a JSON reply or as a  *)
(* stream of server-sent events; two more ask one question and wait.       *)
(*                                                                         *)
(* What the daemon sends is chosen event by event.  What the client gets   *)
(* is the sequence out, of frames with the index of the block or item they *)
(* are about; an HTTP reply is one frame.  JSON and texts are left out.    *)
(***************************************************************************)
EXTENDS Naturals, Sequences

CONSTANTS MaxEvents,     \* bound on the events the daemon sends for a turn
          Starts         \* <<TCP bind, Unix bind, configuration>> to start with

VARIABLES doors,      \* listeners: what main is listening on
          named,      \* ShimConfig: [require_token, clients]
          at,         \* where the connection's thread is
          request,    \* [door, route, stream, token]
          session,    \* none, open, closed (by Close) or dropped
          hung,       \* the HTTP client has gone
          broken,     \* a write to the client failed, or its request was cut
          lost,       \* the session's socket failed
          abandoned,  \* relay_json's flag
          cancels,    \* Request::Cancel frames sent
          late,       \* events read since the client went and no Cancel
          text_open,  \* a text block or item is open
          index,      \* of the next or open block
          passed_on,  \* tool calls relayed, or kept for the reply
          brought,    \* tool calls the daemon's events carried
          batched,    \* one of those events was a ToolCalls
          seen,       \* events read
          out         \* what was written to the client

threadVars == <<doors, named, request>>
callerVars == <<abandoned, cancels, late>>
blockVars == <<text_open, index>>
callVars == <<passed_on, brought, batched, seen>>
shimVars == <<threadVars, at, session, hung, broken, lost, callerVars,
              blockVars, callVars, out>>

Turns == {"chat", "messages", "responses"}
Asks == {"embeddings", "count_tokens"}
Plain == {"models", "health", "no such route"}
Nobody == [door |-> "none", route |-> "none", stream |-> FALSE, token |-> FALSE]

ShimInit == /\ doors = {} /\ at = "main" /\ request = Nobody
            /\ named = [require_token |-> FALSE, clients |-> FALSE]
            /\ session = "none" /\ hung = FALSE /\ broken = FALSE
            /\ lost = FALSE
            /\ abandoned = FALSE /\ cancels = 0 /\ late = 0
            /\ text_open = FALSE /\ index = 0 /\ passed_on = << >> /\ brought = << >>
            /\ batched = FALSE /\ seen = 0 /\ out = << >>

Frame(name, n) == [event |-> name, index |-> n]
Status(n) == Frame("status", n)
Relay == <<lost, callerVars, blockVars, callVars>>
Reading == <<callerVars, blockVars, callVars>>

-----------------------------------------------------------------------------
(* main, ShimConfig::load and the way to a handler.                        *)

\* ShimConfig::load: a file that cannot be parsed names nobody and asks for
\* a name, and no file at all neither names anybody nor asks.
Load(config) ==
  [require_token |-> config \in {"unreadable", "names required"},
   clients |-> config \in {"names", "names required"}]

\* A port in use and a socket path that cannot be bound end the process; a
\* runtime directory that is not there, or --port 0, only close a door.
ShimStart(tcp, unix, config) ==
  LET open == {d \in {"tcp", "unix"} :
                 (IF d = "tcp" THEN tcp ELSE unix) = "bound"}
  IN  /\ at = "main"
      /\ doors' = IF "error" \in {tcp, unix} THEN {} ELSE open
      /\ at' = IF doors' = {} THEN "exit" ELSE "accept"
      /\ named' = Load(config)
      /\ UNCHANGED <<request, session, hung, broken, Relay, out>>

Accept(door) ==
  /\ at = "accept" /\ door \in doors
  /\ request' = [Nobody EXCEPT !.door = door] /\ at' = "read"
  /\ UNCHANGED <<doors, named, session, hung, broken, Relay, out>>

\* read_request: a body over the limit or cut short ends the thread with
\* nothing said; name_for knows a token only if the configuration has it.
ReadRequest(route, stream, token) ==
  /\ at = "read"
  /\ request' = [request EXCEPT !.route = route, !.stream = stream,
                                !.token = token /\ named.clients]
  /\ at' = "serve"
  /\ UNCHANGED <<doors, named, session, hung, broken, Relay, out>>

ReadFails ==
  /\ at = "read" /\ at' = "end" /\ broken' = TRUE
  /\ UNCHANGED <<threadVars, session, hung, Relay, out>>

\* respond: a client that has gone may fail the write.
Respond(n) ==
  \/ out' = Append(out, Status(n)) /\ UNCHANGED broken
  \/ hung /\ broken' = TRUE /\ UNCHANGED out

ServeAnyone ==
  /\ at = "serve"
  /\ \/ request.route \in Plain /\ at' = "end" /\ \E n \in {200, 400, 404} : Respond(n)
     \/ request.route \notin Plain /\ at' = "parse" /\ UNCHANGED <<broken, out>>
  /\ UNCHANGED <<threadVars, session, hung, Relay>>

ServeGoesOn ==
  /\ at = "serve"
  /\ IF named.require_token /\ ~ request.token
       THEN at' = "parse" /\ Respond(401)
       ELSE at' = "parse" /\ UNCHANGED <<broken, out>>
  /\ UNCHANGED <<threadVars, session, hung, Relay>>

\* The answers of serve itself.
Answers == IF named.require_token /\ ~ request.token THEN {401}
           ELSE IF request.route = "no such route" THEN {404}
           ELSE IF request.route = "health" THEN {200}
           ELSE IF request.route = "models" THEN {200, 400} ELSE {}

Serve ==
  /\ at = "serve"
  /\ \/ at' = "end" /\ \E n \in Answers : Respond(n)
     \/ Answers = {} /\ at' = "parse" /\ UNCHANGED <<broken, out>>
  /\ UNCHANGED <<threadVars, session, hung, Relay>>

\* The body's JSON, and for /v1/responses all of it, before any session.
ParseBody ==
  /\ at = "parse"
  /\ \/ at' = "open" /\ UNCHANGED <<broken, out>>
     \/ at' = "end" /\ Respond(400)
  /\ UNCHANGED <<threadVars, session, hung, Relay>>

\* open_session: the two questions go at background priority and say no
\* Hello.  Only the three turns tell a denial apart.
OpenSession ==
  /\ at = "open"
  /\ \/ /\ session' = "open" /\ UNCHANGED <<broken, out>>
        /\ at' = IF request.route \in Turns THEN "hello" ELSE "generate"
     \/ /\ at' = "end" /\ UNCHANGED session
        /\ \E n \in {400} \cup (IF request.route \in Turns THEN {403} ELSE {}) :
             Respond(n)
  /\ UNCHANGED <<threadVars, hung, Relay>>

\* A frame the daemon's end does not take: the thread returns, and its
\* handles on the session's socket go with it.  The two questions come back
\* to serve, which answers 400.
DaemonGone ==
  /\ at \in {"hello", "generate"}
  /\ at' = "end" /\ session' = "dropped" /\ lost' = TRUE
  /\ IF request.route \in Turns THEN UNCHANGED <<broken, out>>
                                ELSE Respond(400)
  /\ UNCHANGED <<threadVars, hung, Reading>>

SayHello ==
  /\ at = "hello"
  /\ at' = IF request.route = "responses" THEN "generate" ELSE "attach"
  /\ UNCHANGED <<threadVars, session, hung, broken, Relay, out>>

\* The messages and the images in them: an image that does not decode, a
\* missing max_tokens or a socket that fails in parse_messages_body closes
\* the session and answers 400; in chat a socket that fails ends the thread.
AttachUnclosed ==
  /\ at = "attach"
  /\ \/ at' = "generate" /\ UNCHANGED <<session, broken, lost, out>>
     \/ /\ at' = "end" /\ session' = "dropped" /\ Respond(400)
        /\ UNCHANGED lost
     \/ /\ request.route = "chat" /\ at' = "end" /\ session' = "dropped"
        /\ lost' = TRUE /\ UNCHANGED <<broken, out>>
  /\ UNCHANGED <<threadVars, hung, Reading>>

AttachImages ==
  /\ at = "attach"
  /\ \/ at' = "generate" /\ UNCHANGED <<session, broken, lost, out>>
     \/ /\ at' = "end" /\ session' = "closed" /\ Respond(400)
        /\ UNCHANGED lost
     \/ /\ request.route = "chat" /\ at' = "end" /\ session' = "dropped"
        /\ lost' = TRUE /\ UNCHANGED <<broken, out>>
  /\ UNCHANGED <<threadVars, hung, Reading>>

-----------------------------------------------------------------------------
(* The relays.                                                             *)

\* Frames of a stream, then the next event or the end of the relay; writing
\* to a client that has gone may fail anywhere, which ends the relay.
Stream(frames, next) ==
  \/ out' = out \o frames /\ at' = next /\ UNCHANGED broken
  \/ /\ hung /\ broken' = TRUE /\ at' = "close"
     /\ \E k \in 0..(Len(frames) - 1) : out' = out \o SubSeq(frames, 1, k)

Opening == IF request.route = "messages" THEN <<Frame("message_start", 0)>>
           ELSE IF request.route = "responses" THEN <<Frame("created", 0)>> ELSE << >>

\* Request::Generate is written; a stream opens with its head.
SendGenerate ==
  /\ at = "generate"
  /\ IF request.stream THEN Stream(<<Status(200)>> \o Opening, "event")
                       ELSE /\ UNCHANGED <<broken, out>>
                            /\ at' = IF request.route \in Turns THEN "poll" ELSE "event"
  /\ UNCHANGED <<threadVars, session, hung, Relay>>

PollEachTime ==
  /\ at = "poll" /\ at' = "event"
  /\ abandoned' = hung
  /\ cancels' = cancels + (IF hung THEN 1 ELSE 0)
  /\ UNCHANGED <<threadVars, session, hung, broken, lost, late, blockVars, callVars, out>>

\* peer_hung_up, asked before every event of a JSON reply.
Poll ==
  /\ at = "poll" /\ at' = "event"
  /\ abandoned' = hung
  /\ cancels' = cancels + (IF hung /\ ~ abandoned THEN 1 ELSE 0)
  /\ UNCHANGED <<threadVars, session, hung, broken, lost, late, blockVars, callVars, out>>

Event(kind, ids) == [kind |-> kind, ids |-> ids]
Next2 == <<Len(brought) + 1, Len(brought) + 2>>

\* What read_event can return: a frame of the daemon's, the end of the
\* session, or a frame that is torn or not an event.
Events ==
  {Event(k, << >>) : k \in {"done", "error", "eof", "bad"}}
    \cup (IF seen = MaxEvents THEN {}
          ELSE {Event(k, << >>) : k \in {"token", "notice", "vectors"}}
                 \cup {Event("call", <<Len(brought) + 1>>), Event("calls", Next2)})

Read(e) ==
  /\ at = "event" /\ seen' = seen + 1
  /\ brought' = brought \o e.ids /\ batched' = (batched \/ e.kind = "calls")
  /\ late' = late + (IF hung /\ cancels = 0 THEN 1 ELSE 0)
  /\ UNCHANGED <<threadVars, hung, abandoned, cancels>>

\* The relays return an error on a bad frame; the session is closed all the
\* same.
ReadFailed(e) ==
  /\ e.kind = "bad" /\ at' = "close" /\ lost' = TRUE
  /\ UNCHANGED <<broken, passed_on, blockVars, out>>

FirstCallOf(e) ==
  passed_on' = passed_on \o (IF e.kind = "calls" THEN <<Head(e.ids)>> ELSE e.ids)

CallsOf(e) == passed_on' = passed_on \o e.ids

NoBlocks == UNCHANGED blockVars

\* relay_sse: one chunk for each event; the end of the session sends nothing.
ChatEvent(e) ==
  \/ ReadFailed(e)
  \/ /\ e.kind # "bad" /\ NoBlocks /\ UNCHANGED lost
     /\ IF e.kind = "call" THEN CallsOf(e) ELSE UNCHANGED passed_on
     /\ \/ e.kind \in {"token", "call", "notice"} /\ Stream(<<Frame("chunk", 0)>>, "event")
        \/ e.kind = "done" /\ Stream(<<Frame("chunk", 0), Frame("[DONE]", 0)>>, "close")
        \/ e.kind = "error" /\ Stream(<<Frame("error", 0), Frame("[DONE]", 0)>>, "close")
        \/ e.kind = "eof" /\ Stream(<< >>, "close")
        \/ e.kind \in {"calls", "vectors"} /\ Stream(<< >>, "event")

\* close_text_block and stream_tool_use.
TextLeftOpen == << >>

close_text_block == IF text_open THEN <<Frame("stop", index)>> ELSE << >>

after_text == index + (IF text_open THEN 1 ELSE 0)
stream_tool_use(n) == <<Frame("start", n), Frame("delta", n), Frame("stop", n)>>
Blocks(ids, n) ==
  [k \in 1..(3 * Len(ids)) |-> stream_tool_use(n + ((k - 1) \div 3))[1 + ((k - 1) % 3)]]

\* relay_anthropic_sse.
MessagesEvent(e) ==
  \/ ReadFailed(e)
  \/ /\ e.kind = "token" /\ text_open' = TRUE /\ UNCHANGED <<index, passed_on, lost>>
     /\ Stream((IF text_open THEN << >> ELSE <<Frame("start", index)>>)
                  \o <<Frame("delta", index)>>, "event")
  \/ /\ e.kind \in {"call", "calls"} /\ CallsOf(e) /\ UNCHANGED lost
     /\ text_open' = FALSE /\ index' = after_text + Len(e.ids)
     /\ Stream(close_text_block \o Blocks(e.ids, after_text), "event")
  \/ /\ e.kind \in {"done", "eof", "error"} /\ text_open' = FALSE
     /\ index' = after_text /\ UNCHANGED <<passed_on, lost>>
     /\ Stream(close_text_block
                 \o <<Frame(IF e.kind = "error" THEN "error" ELSE "message_delta", 0),
                      Frame("message_stop", 0)>>, "close")
  \/ /\ e.kind \in {"notice", "vectors"} /\ NoBlocks /\ UNCHANGED <<passed_on, lost>>
     /\ Stream(IF e.kind = "notice" THEN <<Frame("comment", 0)>> ELSE << >>, "event")

\* The end of relay_responses_sse: the text item, then the calls kept for it.
ResponsesEnd(e) ==
  \/ /\ e.kind \in {"done", "eof"} /\ text_open' = FALSE /\ UNCHANGED <<passed_on, lost>>
     /\ index' = after_text + Len(passed_on)
     /\ Stream((IF text_open THEN <<Frame("delta", index), Frame("delta", index)>>
                             ELSE << >>)
                 \o close_text_block \o Blocks(passed_on, after_text)
                 \o <<Frame("completed", 0)>>, "close")
  \/ /\ e.kind = "error" /\ NoBlocks /\ UNCHANGED <<passed_on, lost>>
     /\ Stream(<<Frame("failed", 0)>>, "close")

\* relay_responses_sse: calls wait for the text item to close.
ResponsesEvent(e) ==
  \/ ReadFailed(e)
  \/ /\ e.kind = "token" /\ text_open' = TRUE /\ UNCHANGED <<index, passed_on, lost>>
     /\ Stream((IF text_open THEN << >> ELSE <<Frame("start", index), Frame("delta", index)>>)
                  \o <<Frame("delta", index)>>, "event")
  \/ /\ e.kind \in {"call", "calls"} /\ CallsOf(e) /\ NoBlocks /\ UNCHANGED lost
     /\ Stream(<< >>, "event")
  \/ ResponsesEnd(e)
  \/ /\ e.kind \in {"notice", "vectors"} /\ NoBlocks /\ UNCHANGED <<passed_on, lost>>
     /\ Stream(<< >>, "event")

\* The next event of a JSON reply, and the answer an error gives.
Goes(e) == /\ e.kind \in {"token", "notice", "vectors", "call", "calls"}
           /\ at' = "poll" /\ NoBlocks /\ UNCHANGED <<lost, broken, out>>
Ends(e) == /\ e.kind \in {"done", "error", "eof"}
           /\ at' = "close" /\ NoBlocks /\ UNCHANGED <<lost, passed_on>>
Unsaid == UNCHANGED <<broken, out>>
RespondError == \E n \in {400, 403, 429} : Respond(n)

\* relay_json: no batch of calls is taken, an error is answered even to a
\* client known to have gone, and a session that ended is a failure.
ChatReply(e) ==
  \/ ReadFailed(e)
  \/ Goes(e) /\ IF e.kind = "calls" THEN UNCHANGED passed_on ELSE CallsOf(e)
  \/ /\ Ends(e)
     /\ \/ e.kind = "done" /\ IF abandoned THEN Unsaid ELSE Respond(200)
        \/ e.kind = "error" /\ RespondError
        \/ e.kind = "eof" /\ Respond(400)

\* relay_anthropic_json: a session that ended is a reply.
MessagesReply(e) ==
  \/ ReadFailed(e)
  \/ Goes(e) /\ CallsOf(e)
  \/ Ends(e) /\ IF abandoned THEN Unsaid
                ELSE IF e.kind = "error" THEN RespondError ELSE Respond(200)

\* relay_responses_json, the same way.
ResponsesReply(e) == MessagesReply(e)

\* embeddings: serve answers, after the session is closed, or dropped by a
\* frame that cannot be read.
EmbeddingsEvent(e) ==
  /\ Read(e) /\ NoBlocks /\ UNCHANGED passed_on
  /\ \/ e.kind \notin {"done", "eof", "error", "bad"} /\ at' = "event"
        /\ UNCHANGED <<lost, session, broken, out>>
     \/ /\ e.kind \in {"done", "eof", "error", "bad"} /\ at' = "end"
        /\ lost' = (e.kind = "bad")
        /\ session' = IF e.kind = "bad" THEN "dropped" ELSE "closed"
        /\ Respond(IF e.kind \in {"error", "bad"} THEN 400 ELSE 200)

\* count_tokens, with Tokens in place of Vectors.
CountTokensEvent(e) == EmbeddingsEvent(e)

\* The last line of chat, messages and responses: a JSON reply or a stream.
RelayEvent(e) ==
  /\ Read(e) /\ UNCHANGED session
  /\ \/ request.route = "chat" /\ request.stream /\ ChatEvent(e)
     \/ request.route = "chat" /\ ~ request.stream /\ ChatReply(e)
     \/ request.route = "messages" /\ request.stream /\ MessagesEvent(e)
     \/ request.route = "messages" /\ ~ request.stream /\ MessagesReply(e)
     \/ request.route = "responses" /\ request.stream /\ ResponsesEvent(e)
     \/ request.route = "responses" /\ ~ request.stream /\ ResponsesReply(e)

AskedEvent(e) ==
  \/ request.route = "embeddings" /\ EmbeddingsEvent(e)
  \/ request.route = "count_tokens" /\ CountTokensEvent(e)

\* session.close, whatever the relay returned.
CloseSession ==
  /\ at = "close" /\ at' = "end" /\ session' = "closed"
  /\ UNCHANGED <<threadVars, hung, broken, Relay, out>>

\* The HTTP client goes.
CallerHangsUp ==
  /\ at \notin {"main", "exit", "accept", "end"} /\ ~ hung /\ hung' = TRUE
  /\ UNCHANGED <<threadVars, at, session, broken, Relay, out>>

ShimNext ==
  \/ \E s \in Starts : ShimStart(s[1], s[2], s[3])
  \/ \E door \in {"tcp", "unix"} : Accept(door)
  \/ \E route \in Turns, stream \in BOOLEAN, token \in BOOLEAN :
       ReadRequest(route, stream, token)
  \/ \E route \in Asks \cup Plain, token \in BOOLEAN :
       ReadRequest(route, FALSE, token)
  \/ ReadFails \/ Serve \/ ParseBody \/ OpenSession \/ DaemonGone \/ SayHello
  \/ AttachImages \/ SendGenerate \/ Poll \/ CloseSession \/ CallerHangsUp
  \/ \E e \in Events : RelayEvent(e) \/ AskedEvent(e)

ShimSpec == ShimInit /\ [][ShimNext]_shimVars

-----------------------------------------------------------------------------
(* Properties.                                                             *)

IsPart(f) == f.event \in {"start", "delta", "stop"}
Parts == {i \in DOMAIN out : IsPart(out[i])}
LastOut == out[Len(out)]
Final == {"message_stop", "completed", "failed", "[DONE]"}

\* A connection gets one HTTP reply and nothing before its head, and gets
\* one whenever client and daemon stay: no path through serve and the five
\* handlers answers twice, or returns without an answer.
RepliedOnce ==
  /\ \A i \in DOMAIN out : out[i].event = "status" <=> i = 1
  /\ at = "end" /\ ~ hung /\ ~ broken /\ ~ lost => out # << >>

\* A session the shim opened is closed over the bus, not by having its
\* socket dropped, unless the socket itself failed; none outlives its
\* thread.  (relay_json: "so the session ends the way every other session
\* ends rather than by having its socket yanked".)
EndsByClose == /\ session = "dropped" => lost
               /\ at = "end" => session # "open"

\* What may come next about a block, after the frame f.
MayFollow(f, g) ==
  IF f.event = "stop" THEN g = Frame("start", f.index + 1)
                      ELSE g \in {Frame("delta", f.index), Frame("stop", f.index)}

\* The streams of /v1/messages and /v1/responses: blocks are numbered from
\* zero without a gap, one is open at a time, a delta or a stop is about the
\* open one, nothing follows the final event, and a stream that ends with
\* client and daemon there has its final event and, unless it reports a
\* failure, no open block.
StreamWellFormed ==
  request.stream /\ request.route # "chat" =>
    /\ \A i \in Parts : (\A k \in Parts : i <= k) => out[i] = Frame("start", 0)
    /\ \A i, j \in Parts : i < j /\ (\A k \in Parts : k <= i \/ j <= k) =>
                           MayFollow(out[i], out[j])
    /\ \A i \in DOMAIN out : out[i].event \in Final => i = Len(out)
    /\ (/\ at = "end" /\ session = "closed" /\ ~ broken /\ ~ lost
        /\ out # << >> /\ out[1] = Status(200)) =>
         /\ LastOut.event \in Final
         /\ LastOut.event # "failed" =>
              \A i \in Parts : (\A k \in Parts : k <= i) => out[i].event = "stop"

\* A client that leaves while its JSON reply is being generated is noticed
\* by the next event but one: the daemon is told to cancel once, and only
\* then.  (peer_hung_up: "Asked between events rather than discovered on
\* the next write".)
HangUpNoticed ==
  /\ cancels <= 1 /\ (cancels = 1 => hung /\ abandoned)
  /\ request.route \in Turns /\ ~ request.stream => late <= 1

Succeeded == /\ at \in {"close", "end"} /\ ~ broken /\ ~ lost /\ out # << >>
             /\ IF request.stream
                  THEN /\ LastOut.event \in Final \ {"failed"}
                       /\ ~ \E i \in DOMAIN out : out[i].event = "error"
                  ELSE LastOut = Status(200)

\* A turn reported as a success carries every tool call the daemon's events
\* carried, in order, whichever API relays it, but for the chat relays,
\* which read no batch of calls (relay_sse, relay_json: "Some(_) => {}").
CallsReach ==
  Succeeded /\ request.route \in Turns /\ ~ (request.route = "chat" /\ batched) =>
    passed_on = brought

\* Nobody without a name the configuration knows gets a session on a
\* machine that asks for names, and nobody at all gets one when the
\* configuration cannot be read.
NamedOrRefused == session # "none" /\ named.require_token =>
                    request.token /\ named.clients

\* A connection is served once and its session ends properly, for somebody
\* the configuration names, and not for a client that has left.
ServedOnce == RepliedOnce /\ EndsByClose /\ NamedOrRefused /\ HangUpNoticed

\* What the daemon said reaches the HTTP client whole and well-formed.
RelayedWhole == StreamWellFormed /\ CallsReach
=============================================================================
