------------------------------- MODULE Portal -------------------------------
(***************************************************************************)
(* ai-daemon-portal: the application id it reads from a caller's sandbox   *)
(* and asserts to the daemon, while the caller's pid may come to name      *)
(* another process.                                                        *)
(*                                                                         *)
(* A process is [start, sandbox, app].  Two processes of one pid never     *)
(* start at the same time.  An .flatpak-info is a sequence of lines; a     *)
(* label is <<the parts of its profile, its mode>>.                        *)
(***************************************************************************)
EXTENDS Naturals, Sequences

CONSTANTS AppIds,      \* what applications are called, "" for no name at all
          MaxStarts    \* bound on the processes the caller's pid names

NoProcess == [start |-> 0, sandbox |-> "none", app |-> "none"]
NoId == << >>

VARIABLES process,   \* the process of the caller's pid, or NoProcess
          starts,    \* processes of that pid so far
          method,    \* the call: [name, claims], claims when it sets portal_app_id itself
          point,     \* how far sandbox_of and the method are
          before,    \* start_time at the first reading
          first,     \* the process that reading was of
          found,     \* the id read, as a sequence of at most one
          asserted   \* the portal_app_id forwarded, or the identity returned

portalVars == <<process, starts, method, point, before, first, found, asserted>>

PortalInit ==
  /\ process \in [start : {1}, sandbox : {"flatpak", "snap", "complain", "bare"}, app : AppIds]
  /\ starts = 1
  /\ method \in [name : {"create_session", "list_models", "identify"}, claims : BOOLEAN]
  /\ point = "caller_pid" /\ before = 0 /\ first = NoProcess
  /\ found = NoId /\ asserted = NoId

-----------------------------------------------------------------------------
(* What a sandbox wrote, and how it is read.                               *)

Info(p) == <<[section |-> "Instance"], [name |-> "decoy"],
             [section |-> "Application"], [name |-> p.app], [name |-> "second"]>>

Label(p) == CASE p.sandbox = "snap" -> <<<<"snap", p.app, "binary">>, "enforce">>
              [] p.sandbox = "complain" -> <<<<"snap", p.app, "binary">>, "complain">>
              [] OTHER -> <<<<"unconfined">>, "">>

NonEmpty(name) == IF name = "" THEN NoId ELSE <<name>>

flatpak_app_id(lines) ==
  LET opened(k) == {i \in 1..k : "section" \in DOMAIN lines[i]}
      names == {k \in DOMAIN lines :
                  /\ "name" \in DOMAIN lines[k]
                  /\ \E i \in opened(k) : /\ \A j \in opened(k) : j <= i
                                          /\ lines[i].section = "Application"}
  IN  IF names = {} THEN NoId
      ELSE NonEmpty(lines[CHOOSE k \in names : \A j \in names : k <= j].name)

snap_app_id(label) ==
  IF label[2] \in {"complain", "unconfined"} \/ label[1][1] # "snap" \/ Len(label[1]) < 2
  THEN NoId ELSE NonEmpty(label[1][2])

-----------------------------------------------------------------------------
Reaches(to) == point' = to /\ UNCHANGED <<process, starts, method>>

Denies == Reaches("refused") /\ UNCHANGED <<before, first, found, asserted>>

\* The bus names the pid; sandbox_of then reads its start time.
ReadBefore ==
  /\ point = "caller_pid"
  /\ \/ /\ process = NoProcess
        /\ Denies
     \/ /\ process # NoProcess
        /\ before' = process.start /\ first' = process
        /\ Reaches("flatpak") /\ UNCHANGED <<found, asserted>>

\* /proc/PID/root/.flatpak-info, of whatever process has the pid by now.
ReadFlatpak ==
  /\ point = "flatpak"
  /\ \/ /\ process.sandbox = "flatpak"
        /\ found' = flatpak_app_id(Info(process))
        /\ Reaches("after")
     \/ /\ process.sandbox # "flatpak"
        /\ Reaches("label") /\ UNCHANGED found
  /\ UNCHANGED <<before, first, asserted>>

ReadLabel ==
  /\ point = "label"
  /\ found' = IF process = NoProcess THEN NoId ELSE snap_app_id(Label(process))
  /\ Reaches("after") /\ UNCHANGED <<before, first, asserted>>

NoSecondReading ==
  /\ point = "after"
  /\ IF found = NoId THEN Denies
     ELSE Reaches("options") /\ UNCHANGED <<before, first, found, asserted>>

\* The second reading of the start time, and assert_for's refusal.
ReadAfter ==
  /\ point = "after"
  /\ IF process.start # before \/ found = NoId THEN Denies
     ELSE Reaches("options") /\ UNCHANGED <<before, first, found, asserted>>

\* create_session forwards the id, identify returns it, and list_models only
\* needed there to be one.
Serves ==
  /\ point = "options"
  /\ IF method.name = "create_session" /\ method.claims THEN Denies
     ELSE /\ asserted' = IF method.name = "list_models" THEN NoId ELSE found
          /\ Reaches("served") /\ UNCHANGED <<before, first, found>>

\* The process of the pid ends, and another may be given it.
ProcessEnds ==
  /\ process # NoProcess
  /\ process' = NoProcess
  /\ UNCHANGED <<starts, method, point, before, first, found, asserted>>

ProcessStarts ==
  /\ process = NoProcess /\ starts < MaxStarts
  /\ starts' = starts + 1
  /\ process' \in [start : {starts'}, sandbox : {"flatpak", "snap", "complain", "bare"},
                   app : AppIds]
  /\ UNCHANGED <<method, point, before, first, found, asserted>>

PortalNext == \/ ReadBefore \/ ReadFlatpak \/ ReadLabel \/ ReadAfter \/ Serves
              \/ ProcessEnds \/ ProcessStarts

PortalSpec == PortalInit /\ [][PortalNext]_portalVars

-----------------------------------------------------------------------------
\* Whatever becomes of the caller while it is read, an id the portal asserts
\* is the one an enforcing sandbox gave to the process whose start time was
\* read first, and never one the caller supplied (sandbox_of, create_session).
VouchesForOne ==
  asserted # NoId =>
    /\ asserted = <<first.app>>
    /\ first.sandbox \in {"flatpak", "snap"}
    /\ method.name = "create_session" => ~ method.claims
=============================================================================
