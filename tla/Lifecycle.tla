------------------------------ MODULE Lifecycle ------------------------------
(***************************************************************************)
(* The life of a session: CreateSession with its SessionSlot guard, the    *)
(* worker thread's start and end, retire, and Close or Revoke from the bus *)
(* (dbusapi.rs, session.rs), against the count that policy.rs keeps of the *)
(* sessions an identity holds.                                             *)
(*                                                                         *)
(* All sessions belong to one identity.  CreateSession yields where it     *)
(* awaits; each stretch between two awaits is one action, and a failure    *)
(* there includes what the guard's Drop does.  retire runs on a thread of  *)
(* its own or inside the guard, and is three steps: the audit record and   *)
(* the closed flag, the count, and the table, the bus and the socket.      *)
(***************************************************************************)
EXTENDS Naturals, FiniteSets

CONSTANTS Sessions,     \* the calls of CreateSession
          MaxSessions   \* limits.max_sessions of the identity

ASSUME LifecycleAssumption == /\ IsFiniteSet(Sessions)
                              /\ MaxSessions \in Nat \ {0}

VARIABLES pc,       \* where each session's creation, then its worker, is
          count,    \* the identity's entry in State.sessions
          table,    \* Daemon.sessions
          bus,      \* session objects on the bus
          started,  \* session_start records in the audit log
          ended,    \* session_end records, per session
          sink,     \* sessions whose worker has published its sink
          closed,   \* Session.closed
          shut,     \* sessions whose socket has been shut down
          gone,     \* sessions whose client has hung up and that are not ending
          closing   \* sessions close_session has flagged, the sink not looked at

vars == <<pc, count, table, bus, started, ended, sink, closed, shut, gone,
          closing>>

PCs == {"out", "opening", "inserted", "registered", "starting", "top",
        "receiving", "ending", "uncounting", "removing", "refused", "over"}

Init == /\ pc = [s \in Sessions |-> "out"]
        /\ count = 0
        /\ table = {} /\ bus = {} /\ started = {} /\ sink = {}
        /\ closed = {} /\ shut = {} /\ gone = {} /\ closing = {}
        /\ ended = [s \in Sessions |-> 0]

Goto(s, l) == pc' = [pc EXCEPT ![s] = l]

saturating_sub(m, n) == IF m > n THEN m - n ELSE 0

-----------------------------------------------------------------------------
(* CreateSession.                                                          *)

\* open_session, and the guard is armed; then it waits for a backend.
OverTheLimit == count <= MaxSessions

open_session == count < MaxSessions

Open(s) ==
  /\ pc[s] = "out"
  /\ open_session
  /\ count' = count + 1
  /\ Goto(s, "opening")
  /\ UNCHANGED <<table, bus, started, ended, sink, closed, shut, gone, closing>>

Refuse(s) ==
  /\ pc[s] = "out"
  /\ ~ open_session
  /\ Goto(s, "refused")
  /\ UNCHANGED <<count, table, bus, started, ended, sink, closed, shut, gone,
                 closing>>

\* No backend: the error path gives the count back, and so does the guard.
BackendFails(s) ==
  /\ pc[s] = "opening"
  /\ count' = saturating_sub(saturating_sub(count, 1), 1)
  /\ Goto(s, "over")
  /\ UNCHANGED <<table, bus, started, ended, sink, closed, shut, gone, closing>>

\* The socket pair or the object path fails: the guard gives the count back.
NoGuard(s) ==
  /\ pc[s] = "opening"
  /\ Goto(s, "over")
  /\ UNCHANGED <<count, table, bus, started, ended, sink, closed, shut, gone,
                 closing>>

SocketFails(s) ==
  /\ pc[s] = "opening"
  /\ count' = saturating_sub(count, 1)
  /\ Goto(s, "over")
  /\ UNCHANGED <<table, bus, started, ended, sink, closed, shut, gone, closing>>

\* The session is audited and inserted; then it waits for the object server.
Insert(s) ==
  /\ pc[s] = "opening"
  /\ started' = started \cup {s}
  /\ table' = table \cup {s}
  /\ Goto(s, "inserted")
  /\ UNCHANGED <<count, bus, ended, sink, closed, shut, gone, closing>>

Register(s) ==
  /\ pc[s] = "inserted"
  /\ bus' = bus \cup {s}
  /\ Goto(s, "registered")
  /\ UNCHANGED <<count, table, started, ended, sink, closed, shut, gone, closing>>

\* The object server or the thread fails: the guard retires the session.
Phantom(s) ==
  /\ pc[s] \in {"inserted", "registered"}
  /\ count' = saturating_sub(count, 1)
  /\ Goto(s, "over")
  /\ UNCHANGED <<table, bus, started, ended, sink, closed, shut, gone, closing>>

Abandon(s) ==
  /\ pc[s] \in {"inserted", "registered"}
  /\ Goto(s, "ending")
  /\ UNCHANGED <<count, table, bus, started, ended, sink, closed, shut, gone,
                 closing>>

\* The thread is running, the guard is disarmed and the client has its end.
Spawn(s) ==
  /\ pc[s] = "registered"
  /\ Goto(s, "starting")
  /\ UNCHANGED <<count, table, bus, started, ended, sink, closed, shut, gone,
                 closing>>

-----------------------------------------------------------------------------
(* The worker thread.                                                      *)

\* It publishes its sink and starts its reader, before it looks at closed.
NoSink(s) ==
  /\ pc[s] = "starting"
  /\ Goto(s, "top")
  /\ UNCHANGED <<count, table, bus, started, ended, sink, closed, shut, gone,
                 closing>>

Publish(s) ==
  /\ pc[s] = "starting"
  /\ sink' = sink \cup {s}
  /\ Goto(s, "top")
  /\ UNCHANGED <<count, table, bus, started, ended, closed, shut, gone, closing>>

\* The socket cannot be duplicated, or the reader cannot be started.
StartFails(s) ==
  /\ pc[s] = "starting"
  /\ sink' \in {sink, sink \cup {s}}
  /\ Goto(s, "ending")
  /\ UNCHANGED <<count, table, bus, started, ended, closed, shut, gone, closing>>

Top(s) ==
  /\ pc[s] = "top"
  /\ Goto(s, IF s \in closed THEN "ending" ELSE "receiving")
  /\ UNCHANGED <<count, table, bus, started, ended, sink, closed, shut, gone,
                 closing>>

\* A request is served, and a fatal one ends the session.
Serve(s) ==
  /\ pc[s] = "receiving"
  /\ s \notin shut \cup gone
  /\ \E l \in {"top", "ending"} : Goto(s, l)
  /\ UNCHANGED <<count, table, bus, started, ended, sink, closed, shut, gone,
                 closing>>

\* The reader has met the end of the socket and left.
ReaderIsGone(s) ==
  /\ pc[s] = "receiving"
  /\ s \in shut \cup gone
  /\ Goto(s, "ending")
  /\ UNCHANGED <<count, table, bus, started, ended, sink, closed, shut, gone,
                 closing>>

HangUp(s) ==
  /\ pc[s] \in {"starting", "top", "receiving"}
  /\ gone' = gone \cup {s}
  /\ UNCHANGED <<pc, count, table, bus, started, ended, sink, closed, shut,
                 closing>>

-----------------------------------------------------------------------------
(* retire.                                                                 *)

End(s) ==
  /\ pc[s] = "ending"
  /\ ended' = [ended EXCEPT ![s] = @ + 1]
  /\ closed' = closed \cup {s}
  /\ gone' = gone \ {s}
  /\ Goto(s, "uncounting")
  /\ UNCHANGED <<count, table, bus, started, sink, shut, closing>>

Uncount(s) ==
  /\ pc[s] = "uncounting"
  /\ count' = saturating_sub(count, 1)
  /\ Goto(s, "removing")
  /\ UNCHANGED <<table, bus, started, ended, sink, closed, shut, gone, closing>>

LeavesObject(s) ==
  /\ pc[s] = "removing"
  /\ table' = table \ {s}
  /\ shut' = IF s \in sink THEN shut \cup {s} ELSE shut
  /\ Goto(s, "over")
  /\ UNCHANGED <<count, bus, started, ended, sink, closed, gone, closing>>

RemoveEntry(s) ==
  /\ pc[s] = "removing"
  /\ table' = table \ {s}
  /\ bus' = bus \ {s}
  /\ shut' = IF s \in sink THEN shut \cup {s} ELSE shut
  /\ Goto(s, "over")
  /\ UNCHANGED <<count, started, ended, sink, closed, gone, closing>>

-----------------------------------------------------------------------------
(* close_session of dbusapi.rs: by Session.Close on an object on the bus,  *)
(* or by Revoke for every session in the table.  The flag goes up first,   *)
(* then the sink is looked at.                                             *)

Close(s) ==
  /\ s \in table \cup bus
  /\ s \notin closing
  /\ closed' = closed \cup {s}
  /\ closing' = closing \cup {s}
  /\ UNCHANGED <<pc, count, table, bus, started, ended, sink, shut, gone>>

CloseShuts(s) ==
  /\ s \in closing
  /\ closing' = closing \ {s}
  /\ shut' = IF s \in sink THEN shut \cup {s} ELSE shut
  /\ UNCHANGED <<pc, count, table, bus, started, ended, sink, closed, gone>>

-----------------------------------------------------------------------------

Creates(s) == \/ Open(s) \/ Refuse(s) \/ BackendFails(s) \/ SocketFails(s)
              \/ Insert(s) \/ Register(s) \/ Abandon(s) \/ Spawn(s)

Works(s) == \/ Publish(s) \/ StartFails(s) \/ Top(s) \/ Serve(s)
            \/ ReaderIsGone(s) \/ End(s) \/ Uncount(s) \/ RemoveEntry(s)

Next == \E s \in Sessions : Creates(s) \/ Works(s) \/ HangUp(s) \/ Close(s)
                              \/ CloseShuts(s)

Spec == Init /\ [][Next]_vars

\* A creation that has begun goes on and a thread keeps running.  Nothing
\* obliges a client to ask, to hang up or to close.
Fairness ==
  \A s \in Sessions :
    /\ WF_vars(Insert(s) \/ Register(s) \/ Spawn(s) \/ Abandon(s)
                 \/ BackendFails(s) \/ SocketFails(s))
    /\ WF_vars(Publish(s) \/ StartFails(s) \/ Top(s) \/ ReaderIsGone(s))
    /\ WF_vars(End(s) \/ Uncount(s) \/ RemoveEntry(s))
    /\ WF_vars(CloseShuts(s))

FairSpec == Spec /\ Fairness

-----------------------------------------------------------------------------
(* Properties.                                                             *)

\* Calls that have taken a place under the limit and not given it back.
Held == {s \in Sessions : pc[s] \notin {"out", "refused", "removing", "over"}}

\* Every variable keeps its type.
LifecycleTypeOK ==
  /\ pc \in [Sessions -> PCs]
  /\ count \in 0..MaxSessions
  /\ ended \in [Sessions -> Nat]
  /\ \A S \in {table, bus, started, sink, closed, shut, gone, closing} :
       S \subseteq Sessions

\* No failure leaks a place: an identity is never refused for sessions that
\* are not there (SessionSlot: refused until the daemon restarts even though
\* nothing is actually open).
CountNeverLeaks == count <= Cardinality(Held)

\* The audit log is balanced: a session that started ends exactly once, when
\* it is retired, by whichever of its ends notices.
AuditBalanced ==
  \A s \in Sessions :
    /\ ended[s] <= 1
    /\ ended[s] = 1 => s \in started
    /\ s \in started /\ pc[s] = "over" => ended[s] = 1

\* The four pieces of state of retire go together: a session that is over is
\* in no table, has no object on the bus and leaves no socket open.
NothingLeftBehind ==
  \A s \in Sessions :
    pc[s] = "over" => /\ s \notin table \cup bus
                      /\ s \in sink => s \in shut

\* What each stage has done: a call that has not reached insert_session has
\* left nothing anywhere, and the two records of a session are written on the
\* way in and on the way out.
StagesMatch ==
  \A s \in Sessions :
    /\ pc[s] \in {"out", "opening", "refused"} => s \notin table \cup bus \cup sink
    /\ pc[s] \in {"out", "opening", "refused"} => s \notin started
    /\ pc[s] \in PCs \ {"out", "opening", "refused", "over"} => s \in started
    /\ ended[s] = IF pc[s] \in {"uncounting", "removing"}
                      \/ (pc[s] = "over" /\ s \in started) THEN 1 ELSE 0

\* A session closed or revoked from the bus ends, even when the close comes
\* before its worker has a sink to shut.
ClosedEnds == \A s \in Sessions : (s \in closed) ~> (pc[s] = "over")

\* The count, the audit log, the table, the bus and the socket agree on which
\* sessions there are, whichever step of CreateSession failed.
LifecycleInv ==
  /\ LifecycleTypeOK /\ CountNeverLeaks
  /\ AuditBalanced /\ NothingLeftBehind /\ StagesMatch

-----------------------------------------------------------------------------
(* What the tests say of the limit.                                        *)

\* A session that is actually running still counts against the limit, so an
\* identity never holds more sessions than it is permitted (dbusapi.rs:1197).
LimitHolds == Cardinality(Held) <= MaxSessions
=============================================================================
