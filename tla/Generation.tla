----------------------------- MODULE Generation -----------------------------
(***************************************************************************)
(* The backend programs: the thread each of llamacpp, remote and mock      *)
(* starts for a request, against the thread that reads the control socket  *)
(* and meanwhile handles Cancel, Pause and Resume.                         *)
(*                                                                         *)
(* The maps paused, cancelled and streams (transfers in remote) are keyed  *)
(* by req_id; the flags are shared with the thread, which keeps its own    *)
(* once the entry is gone.  What a server or an endpoint sends is chosen   *)
(* line by line, and it may send nothing for ever.  In "remote again" the  *)
(* daemon has reconnected and numbers its requests from the start, while   *)
(* the old connection's transfer is still running.                         *)
(***************************************************************************)
EXTENDS Naturals, Sequences, FiniteSets

CONSTANTS Programs,     \* <<program, its requests>>: a program is "llamacpp",
                        \* "remote", "remote again" or "mock"
          Requests,
          WithTools,    \* the ones that offer tools
          MaxLines,     \* for each program, a bound on a reply's lines
          None

ASSUME GenerationAssumption ==
  /\ \A p \in Programs : p[1] \in {"llamacpp", "remote", "remote again", "mock"}
  /\ None \notin Requests

VARIABLES program,
          step,        \* where a request's thread is
          hold,        \* the paused flag of a request
          stop,        \* its cancelled flag
          paused,      \* State.paused: who has the entry of an id
          cancelled,   \* State.cancelled
          transport,   \* State.streams, or State.transfers
          link,        \* a request's connection or child: its state
          taken,       \* whose child a remote thread took from the map
          canceller,   \* the Cancel whose second half is to come
          lines,       \* lines received
          text,        \* tokens of text among them
          asked_for,   \* tool calls among them
          unread,      \* a line could not be read
          reason,      \* finish_reason
          sent,        \* events sent to the daemon
          slack        \* tokens sent since the daemon paused or cancelled

perRequest == <<lines, text, asked_for, unread, reason, sent, slack>>
maps == <<paused, cancelled, transport>>
flags == <<hold, stop>>
generationVars == <<program, step, flags, maps, link, taken, canceller, perRequest>>

remote == program \in {"remote", "remote again"}
Id(r) == IF program = "remote again" THEN "1" ELSE r
Ids == {Id(r) : r \in Requests}
Each(v) == [r \in Requests |-> v]

GenerationInit ==
  /\ \E p \in Programs :
       /\ program = p[1]
       /\ step = [r \in Requests |-> IF r \in p[2] THEN "none" ELSE "absent"]
  /\ hold = Each(FALSE) /\ stop = Each(FALSE)
  /\ paused = [i \in Ids |-> None] /\ cancelled = [i \in Ids |-> None]
  /\ transport = [i \in Ids |-> None] /\ link = Each("none")
  /\ taken = Each(None) /\ canceller = None
  /\ lines = Each(0) /\ text = Each(0) /\ asked_for = Each(0)
  /\ unread = Each(FALSE) /\ reason = Each("stop") /\ sent = Each(<< >>)
  /\ slack = Each(0)

Advance(r, s) == step' = [step EXCEPT ![r] = s]
Send(r, events) == sent' = [sent EXCEPT ![r] = @ \o events]
Conclude(r, why) == reason' = [reason EXCEPT ![r] = why]

-----------------------------------------------------------------------------
(* handle: the thread that reads the control socket.                       *)

\* Generate registers the flags before the thread starts.  Remote has no
\* paused map.
HandleGenerate(r) ==
  /\ step[r] = "none" /\ canceller = None /\ Advance(r, "start")
  /\ cancelled' = [cancelled EXCEPT ![Id(r)] = r]
  /\ IF remote THEN UNCHANGED paused ELSE paused' = [paused EXCEPT ![Id(r)] = r]
  /\ UNCHANGED <<program, flags, transport, link, taken, canceller, perRequest>>

\* Embed, Tokenize and GenerateMedia have no flags, and cannot be cancelled.
HandleAsk(r) ==
  /\ step[r] = "none" /\ canceller = None /\ Advance(r, "ask")
  /\ UNCHANGED <<program, flags, maps, link, taken, canceller, perRequest>>

\* Cancel: the flag, then the transport.
HandleCancel(i) ==
  /\ canceller = None /\ cancelled[i] # None
  /\ stop' = [stop EXCEPT ![cancelled[i]] = TRUE]
  /\ canceller' = IF program = "mock" THEN None ELSE i
  /\ slack' = [slack EXCEPT ![cancelled[i]] = 0]
  /\ UNCHANGED <<program, step, hold, maps, link, taken, lines, text, asked_for, unread,
                 reason, sent>>

Killed(was) == IF was = "up" THEN "cut"
                 ELSE IF was = "reaped" THEN "killed reaped" ELSE was

\* A child in the map has not been waited for: the kill is made under the
\* map's lock, and a child leaves the map before it is waited for.
HandleCut ==
  /\ canceller # None /\ canceller' = None
  /\ LET r == transport[canceller] IN
     IF r = None THEN UNCHANGED link
     ELSE link' = [link EXCEPT ![r] = Killed(@)]
  /\ UNCHANGED <<program, step, flags, maps, taken, perRequest>>

HandlePause(i, on) ==
  /\ canceller = None /\ paused[i] # None /\ hold[paused[i]] # on
  /\ hold' = [hold EXCEPT ![paused[i]] = on]
  /\ slack' = [slack EXCEPT ![paused[i]] = 0]
  /\ UNCHANGED <<program, step, stop, maps, link, taken, canceller, lines, text, asked_for,
                 unread, reason, sent>>

-----------------------------------------------------------------------------
(* The thread of a request.                                                *)

\* The thread's last act, whatever generate returned.
Fail(r) == Send(r, <<"error">>) /\ Advance(r, "leave") /\ UNCHANGED <<reason, slack>>

LeaveKeepingFlags(r) ==
  /\ step[r] = "leave" /\ Advance(r, "gone")
  /\ transport' = [transport EXCEPT ![Id(r)] = None]
  /\ UNCHANGED <<program, flags, paused, cancelled, link, taken, canceller, perRequest>>

Leave(r) ==
  /\ step[r] = "leave" /\ Advance(r, "gone")
  /\ paused' = [paused EXCEPT ![Id(r)] = None]
  /\ cancelled' = [cancelled EXCEPT ![Id(r)] = None]
  /\ transport' = [transport EXCEPT ![Id(r)] = None]
  /\ UNCHANGED <<program, flags, link, taken, canceller, perRequest>>

\* embed, tokenize and generate_media: the values and done, or an error.
Answer(r) ==
  /\ step[r] = "ask" /\ Advance(r, "gone")
  /\ \/ Send(r, <<"value", "done">>) \/ Send(r, <<"error">>)
  /\ UNCHANGED <<program, flags, maps, link, taken, canceller, lines, text, asked_for, unread,
                 reason, slack>>

\* A model that is not loaded or not in the map, a connection or a curl that
\* cannot be had.  Mock goes to its tokens, or answers tools with calls.
Start(r) ==
  /\ step[r] = "start"
  /\ \/ Fail(r) /\ UNCHANGED <<link, asked_for>>
     \/ /\ program # "mock" /\ Advance(r, "register")
        /\ link' = [link EXCEPT ![r] = "up"]
        /\ UNCHANGED <<reason, sent, slack, asked_for>>
     \/ /\ program = "mock" /\ UNCHANGED <<link, slack>>
        /\ IF r \in WithTools
             THEN /\ \E n \in 1..2 : /\ asked_for' = [asked_for EXCEPT ![r] = n]
                                     /\ Send(r, <<"calls", "done">>)
                  /\ Conclude(r, "tool_call") /\ Advance(r, "leave")
             ELSE Advance(r, "held") /\ UNCHANGED <<reason, sent, asked_for>>
  /\ UNCHANGED <<program, flags, maps, taken, canceller, lines, text, unread>>

\* The transport goes into its map: a cancel before this finds none.
Register(r) ==
  /\ step[r] = "register" /\ transport' = [transport EXCEPT ![Id(r)] = r]
  /\ Advance(r, IF remote THEN "body" ELSE "headers")
  /\ UNCHANGED <<program, flags, paused, cancelled, link, taken, canceller, perRequest>>

\* llamacpp: the status and the headers.  A socket shut by a cancel ends
\* here as an error, since no one looks at the flag.
Headers(r) ==
  /\ step[r] = "headers"
  /\ \/ Fail(r)
     \/ link[r] = "up" /\ Advance(r, "body") /\ UNCHANGED <<reason, sent, slack>>
  /\ UNCHANGED <<program, flags, maps, link, taken, canceller, lines, text, asked_for, unread>>

\* One line of the reply: something to relay, the end marker, the end of the
\* stream, or a line that cannot be read.  A transport that was cut still
\* gives what was buffered, then ends.
Body(r, line) ==
  /\ step[r] = "body"
  /\ line \in {"chunk", "marker"} => lines[r] < MaxLines[program]
  /\ line = "marker" => link[r] # "cut"
  /\ lines' = [lines EXCEPT ![r] = @ + 1]
  /\ unread' = [unread EXCEPT ![r] = (line = "unreadable")]
  /\ link' = IF line = "end" /\ link[r] = "up" THEN [link EXCEPT ![r] = "closed"] ELSE link
  /\ LET misread == line = "unreadable" /\ (remote \/ ~ stop[r])
         told == stop[r] /\ (line # "marker" \/ remote)
     IN  \/ line = "chunk" /\ Advance(r, "held") /\ UNCHANGED <<reason, sent, slack>>
         \/ misread /\ Fail(r)
         \/ /\ line # "chunk" /\ ~ misread
            /\ Advance(r, IF remote THEN "reap" ELSE "flush") /\ UNCHANGED <<sent, slack>>
            /\ IF told THEN Conclude(r, "cancelled") ELSE UNCHANGED reason
  /\ UNCHANGED <<program, flags, maps, taken, canceller, text, asked_for>>

\* The boundary: a paused request waits, a cancelled one ends.  Remote
\* pauses nothing.
CheckNotPaused(r) ==
  /\ step[r] = "held"
  /\ IF stop[r] THEN Advance(r, IF remote THEN "reap" ELSE "flush") /\ Conclude(r, "cancelled")
                ELSE Advance(r, "emit") /\ UNCHANGED reason
  /\ UNCHANGED <<program, flags, maps, link, taken, canceller, lines, text, asked_for, unread,
                 sent, slack>>

CheckPausedForGood(r) == ~ hold[r] /\ CheckNotPaused(r)

Check(r) ==
  /\ step[r] = "held" /\ (hold[r] => stop[r])
  /\ IF stop[r] THEN Advance(r, IF remote THEN "reap" ELSE "flush") /\ Conclude(r, "cancelled")
                ELSE Advance(r, "emit") /\ UNCHANGED reason
  /\ UNCHANGED <<program, flags, maps, link, taken, canceller, lines, text, asked_for, unread,
                 sent, slack>>

\* A token is sent, unless tools were offered: then it is kept, and remote
\* collects the calls the line has.  Mock sends its next token or is done.
Emit(r) ==
  /\ step[r] = "emit"
  /\ \/ /\ text' = [text EXCEPT ![r] = @ + 1] /\ UNCHANGED asked_for
        /\ IF r \in WithTools THEN UNCHANGED <<sent, slack>>
           ELSE /\ Send(r, <<"token">>)
                /\ slack' = [slack EXCEPT ![r] = IF hold[r] \/ stop[r] THEN @ + 1 ELSE @]
     \/ /\ remote /\ r \in WithTools /\ asked_for' = [asked_for EXCEPT ![r] = @ + 1]
        /\ UNCHANGED <<text, sent, slack>>
  /\ IF program = "mock"
       THEN Advance(r, IF text'[r] = MaxLines[program] THEN "flush" ELSE "held")
       ELSE Advance(r, "body")
  /\ UNCHANGED <<program, flags, maps, link, taken, canceller, lines, unread, reason>>

\* remote: the child leaves the map, its stderr is read to the end, and it
\* is killed and waited for.
ReapInMap(r) ==
  /\ step[r] = "reap" /\ taken' = [taken EXCEPT ![r] = transport[Id(r)]]
  /\ Advance(r, IF transport[Id(r)] = None THEN "flush" ELSE "wait")
  /\ UNCHANGED <<program, flags, maps, link, canceller, perRequest>>

Reap(r) ==
  /\ step[r] = "reap" /\ taken' = [taken EXCEPT ![r] = transport[Id(r)]]
  /\ transport' = [transport EXCEPT ![Id(r)] = None]
  /\ Advance(r, IF transport[Id(r)] = None THEN "flush" ELSE "wait")
  /\ UNCHANGED <<program, flags, paused, cancelled, link, canceller, perRequest>>

CurlExits(r) ==
  /\ remote /\ link[r] = "up"
  /\ link' = [link EXCEPT ![r] = "closed"]
  /\ UNCHANGED <<program, step, flags, maps, taken, canceller, perRequest>>

WaitChild(r) ==
  /\ step[r] = "wait" /\ link[taken[r]] \in {"cut", "closed"}
  /\ link' = [link EXCEPT ![taken[r]] = "reaped"]
  /\ \E failed \in IF link[taken[r]] = "cut" THEN {TRUE} ELSE BOOLEAN :
       IF failed /\ ~ stop[r] THEN Fail(r)
       ELSE Advance(r, "flush") /\ UNCHANGED <<reason, sent, slack>>
  /\ UNCHANGED <<program, flags, maps, taken, canceller, lines, text, asked_for, unread>>

\* What was kept, then done: remote's calls, one or a batch; llamacpp's text
\* if it parses as a call, and otherwise as the tokens it is.
FlushCallOnly(r) ==
  /\ step[r] = "flush" /\ Advance(r, "leave")
  /\ Send(r, (IF asked_for[r] > 0 THEN <<"calls">> ELSE << >>) \o <<"done">>)
  /\ UNCHANGED <<program, flags, maps, link, taken, canceller, lines, text, asked_for, unread,
                 reason, slack>>

Flush(r) ==
  /\ step[r] = "flush" /\ Advance(r, "leave")
  /\ \/ /\ asked_for[r] > 0 \/ (program = "llamacpp" /\ r \in WithTools /\ text[r] > 0)
        /\ Send(r, <<"calls", "done">>) /\ Conclude(r, "tool_call")
     \/ /\ asked_for[r] = 0 /\ UNCHANGED reason
        /\ LET kept == IF program = "llamacpp" /\ r \in WithTools THEN text[r] ELSE 0 IN
           Send(r, [i \in 1..kept |-> "token"] \o <<"done">>)
  /\ UNCHANGED <<program, flags, maps, link, taken, canceller, lines, text, asked_for, unread, slack>>

Lines == {"chunk", "marker", "end", "unreadable"}

GenerationNext ==
  \/ \E i \in Ids : HandleCancel(i) \/ HandlePause(i, TRUE) \/ HandlePause(i, FALSE)
  \/ HandleCut
  \/ \E r \in Requests :
       \/ HandleGenerate(r) \/ HandleAsk(r) \/ Answer(r) \/ Start(r) \/ Register(r)
       \/ Headers(r) \/ Check(r) \/ Emit(r) \/ Reap(r) \/ CurlExits(r) \/ WaitChild(r) \/ Flush(r)
       \/ Leave(r)
       \/ \E line \in Lines : Body(r, line)

\* What the threads do of themselves.  A server's lines are not among them:
\* a read is certain to return only when the transport has been cut.
ReadsOwn(r) == /\ step[r] \in {"headers", "body"} /\ link[r] \in {"cut", "closed"}
               /\ Headers(r) \/ \E line \in Lines : Body(r, line)

GenerationFair ==
  /\ WF_generationVars(HandleCut)
  /\ \A r \in Requests :
       WF_generationVars(Start(r) \/ Register(r) \/ Check(r) \/ Emit(r) \/ Reap(r)
                           \/ WaitChild(r) \/ Flush(r) \/ Leave(r) \/ ReadsOwn(r))

GenerationSpec == GenerationInit /\ [][GenerationNext]_generationVars /\ GenerationFair

-----------------------------------------------------------------------------
(* Properties.                                                             *)

Ends(r) == {i \in DOMAIN sent[r] : sent[r][i] \in {"done", "error"}}
Tokens(r) == Cardinality({i \in DOMAIN sent[r] : sent[r][i] = "token"})
Spoke(r) == /\ step[r] = "gone" /\ sent[r][Len(sent[r])] = "done"
            /\ sent[r][1] # "value" /\ reason[r] # "tool_call"

\* The daemon waits for one event that ends a request: every thread sends
\* one, done or error, sends nothing after it, and leaves no entry behind.
OneEnd ==
  /\ \A r \in Requests : /\ \A i \in Ends(r) : i = Len(sent[r])
                         /\ step[r] = "gone" => Ends(r) # {}
  /\ (\A r \in Requests : step[r] \in {"none", "absent", "gone"}) =>
       \A i \in Ids : paused[i] = None /\ cancelled[i] = None /\ transport[i] = None

\* A request the daemon paused or cancelled lets at most the token go that
\* was already past the boundary: sched.rs counts on a paused request not
\* decoding for its client.
QuietWhenTold == \A r \in Requests : hold[r] \/ stop[r] => slack[r] <= 1

\* Cancel kills a process group only while its leader is not waited for, so
\* the id cannot be another's; a transfer whose lines could be read is
\* waited for.  (libc_kill_group: "a process group we created and have not
\* yet reaped".)
KillsOwn ==
  \A r \in Requests :
    /\ link[r] # "killed reaped"
    /\ program = "remote" /\ step[r] = "gone" /\ ~ unread[r] =>
         link[r] \in {"none", "reaped"}

\* A reply of text reaches the daemon token by token when no tools were
\* offered, and, in llamacpp, also when they were and none was called.
TextReaches ==
  \A r \in Requests :
    Spoke(r) /\ ~ (remote /\ r \in WithTools) => Tokens(r) = text[r]

\* A cancel that found the transport ends the request, however silent the
\* server is and whether or not it was paused.  (llamacpp: "Then end the
\* read, rather than hoping a token arrives to notice the flag at".)
CutEnds ==
  \A r \in Requests :
    (link[r] = "cut" /\ program # "remote again") ~> (step[r] = "gone")

\* What the daemon hears of a request is whole: all of a text, then one end,
\* and no trace of the request in the program's maps.
AnswerWhole == OneEnd /\ TextReaches

\* Pause and Cancel do what they are for: they silence their own request and
\* signal no process but its own.
StopsItsOwn == QuietWhenTold /\ KillsOwn
=============================================================================
