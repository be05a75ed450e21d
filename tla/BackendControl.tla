--------------------------- MODULE BackendControl ---------------------------
(***************************************************************************)
(* Loading and unloading models on one backend: Backend::load and unload   *)
(* of backend.rs, the janitor's unload_idle_models of state.rs, and the    *)
(* command loop of the llama.cpp backend at the other end of the socket.   *)
(*                                                                         *)
(* Control replies carry no request id, and all of them arrive on one      *)
(* channel.  The control_op mutex keeps one operation waiting at a time,   *)
(* but an operation that times out leaves its reply to arrive later.       *)
(*                                                                         *)
(* A model is known by the context size it was loaded with, zero when it   *)
(* is not loaded.  No model is pinned.                                     *)
(***************************************************************************)
EXTENDS Naturals, FiniteSets, Sequences

CONSTANTS Users,        \* sessions that generate on this backend
          Janitor,      \* the janitor thread
          Models,
          Contexts,     \* the context sizes sessions ask for
          MaxTimeouts   \* bound of the model on operations that time out

ASSUME ControlAssumption == /\ Janitor \notin Users
                            /\ Contexts \subseteq Nat \ {0}
                            /\ MaxTimeouts \in Nat

Callers == Users \cup {Janitor}

VARIABLES stage,       \* where each caller is
          want,        \* Session.model, and the model the janitor is at
          context,     \* Session.max_context
          in_use,      \* the janitor's local of that name
          doomed,      \* the models the janitor has still to unload
          control_op,  \* who holds the mutex of that name
          loaded,      \* Backend.loaded, the context size of each model
          inbox,       \* requests the backend has not read
          control,     \* replies nobody has taken
          resident,    \* what the backend has loaded
          timeouts     \* operations that have timed out

daemonVars == <<stage, want, context, in_use, doomed, control_op, loaded, timeouts>>
controlVars == <<daemonVars, inbox, control, resident>>

Message == [kind : {"load"}, model : Models, context : Contexts]
             \cup [kind : {"unload"}, model : Models, context : {0}]

Reply == [kind : {"loaded"}, model : Models, context : Contexts]
           \cup [kind : {"unloaded", "error"}, model : Models, context : {0}]

ControlInit == /\ stage = [c \in Callers |-> IF c = Janitor THEN "idle" ELSE "out"]
               /\ want \in [Callers -> Models]
               /\ context \in [Users -> Contexts]
               /\ in_use = {}
               /\ doomed = {}
               /\ control_op = {}
               /\ loaded = [m \in Models |-> 0]
               /\ inbox = << >>
               /\ control = << >>
               /\ resident = [m \in Models |-> 0]
               /\ timeouts = 0

-----------------------------------------------------------------------------
(* Sessions.                                                               *)

GoTo(c, l) == stage' = [stage EXCEPT ![c] = l]

\* A session for model want[u] enters and leaves the session table.
Create(u) ==
  /\ stage[u] = "out"
  /\ GoTo(u, "idle")
  /\ UNCHANGED <<want, context, in_use, doomed, control_op, loaded, timeouts,
                 inbox, control, resident>>

Close(u) ==
  /\ stage[u] = "idle"
  /\ GoTo(u, "out")
  /\ UNCHANGED <<want, context, in_use, doomed, control_op, loaded, timeouts,
                 inbox, control, resident>>

\* load's fast path, taken without the mutex.
Load(u) ==
  /\ stage[u] = "idle"
  /\ GoTo(u, IF loaded[want[u]] # 0 THEN "ready" ELSE "lock")
  /\ UNCHANGED <<want, context, in_use, doomed, control_op, loaded, timeouts,
                 inbox, control, resident>>

\* The turn that needed the model is over.
EndTurn(u) ==
  /\ stage[u] = "ready"
  /\ GoTo(u, "idle")
  /\ UNCHANGED <<want, context, in_use, doomed, control_op, loaded, timeouts,
                 inbox, control, resident>>

-----------------------------------------------------------------------------
(* unload_idle_models: it reads the session table, then the loaded models, *)
(* then unloads them one by one.                                           *)

LookAtSessions ==
  /\ stage[Janitor] = "idle"
  /\ in_use' = {want[u] : u \in {v \in Users : stage[v] # "out"}}
  /\ GoTo(Janitor, "looking")
  /\ UNCHANGED <<want, context, doomed, control_op, loaded, timeouts, inbox,
                 control, resident>>

LookAtModels ==
  /\ stage[Janitor] = "looking"
  /\ doomed' = {m \in Models : loaded[m] # 0} \ in_use
  /\ in_use' = {}
  /\ GoTo(Janitor, "scanning")
  /\ UNCHANGED <<want, context, control_op, loaded, timeouts, inbox, control,
                 resident>>

Unload(m) ==
  /\ stage[Janitor] = "scanning"
  /\ m \in doomed
  /\ doomed' = doomed \ {m}
  /\ want' = [want EXCEPT ![Janitor] = m]
  /\ GoTo(Janitor, "lock")
  /\ UNCHANGED <<context, in_use, control_op, loaded, timeouts, inbox, control,
                 resident>>

Sleep ==
  /\ stage[Janitor] = "scanning"
  /\ doomed = {}
  /\ GoTo(Janitor, "idle")
  /\ UNCHANGED <<want, context, in_use, doomed, control_op, loaded, timeouts,
                 inbox, control, resident>>

-----------------------------------------------------------------------------
(* An operation, under the mutex.                                          *)

\* A second caller of load finds the first one's work.
FindsWork(c) ==
  /\ stage[c] = "lock" /\ control_op = {}
  /\ c # Janitor /\ loaded[want[c]] # 0
  /\ GoTo(c, "ready")
  /\ UNCHANGED <<want, context, in_use, doomed, control_op, loaded, timeouts,
                 inbox, control, resident>>

NoSecondLook(c) == TRUE

MustAsk(c) == c = Janitor \/ loaded[want[c]] = 0

Ask(c) ==
  /\ stage[c] = "lock" /\ control_op = {}
  /\ MustAsk(c)
  /\ control_op' = {c}
  /\ inbox' = Append(inbox,
                [kind    |-> IF c = Janitor THEN "unload" ELSE "load",
                 model   |-> want[c],
                 context |-> IF c = Janitor THEN 0 ELSE context[c]])
  /\ GoTo(c, "wait")
  /\ UNCHANGED <<want, context, in_use, doomed, loaded, timeouts, control,
                 resident>>

\* The waiting operation takes r for its answer; it discards anything else.
Answers(c, r) ==
  \/ r.kind = "error"
  \/ /\ r.kind = IF c = Janitor THEN "unloaded" ELSE "loaded"
     /\ r.model = want[c]

\* The operation returns: the janitor goes on scanning, a session goes to l.
KeepsLock(c, l) == /\ UNCHANGED control_op
                   /\ GoTo(c, IF c = Janitor THEN "scanning" ELSE l)

Return(c, l) == /\ control_op' = {}
                /\ GoTo(c, IF c = Janitor THEN "scanning" ELSE l)

\* What the operation leaves in loaded.  unload forgets the model however it
\* ended; load records it when the answer was the one it asked for.
ForgetsOnSuccess(c, r) ==
  IF c = Janitor
  THEN IF r.kind = "unloaded" THEN [loaded EXCEPT ![want[c]] = 0] ELSE loaded
  ELSE IF r.kind = "loaded" THEN [loaded EXCEPT ![want[c]] = r.context] ELSE loaded

LoadedAfter(c, r) ==
  IF c = Janitor THEN [loaded EXCEPT ![want[c]] = 0]
  ELSE IF r.kind = "loaded" THEN [loaded EXCEPT ![want[c]] = r.context] ELSE loaded

Peeks(c) ==
  /\ stage[c] = "wait" /\ control # << >>
  /\ LET r == Head(control)
     IN  /\ Answers(c, r)
         /\ loaded' = LoadedAfter(c, r)
         /\ Return(c, IF r.kind = "loaded" THEN "ready" ELSE "idle")
  /\ UNCHANGED <<want, context, in_use, doomed, timeouts, inbox, control,
                 resident>>

Answered(c) ==
  /\ stage[c] = "wait" /\ control # << >>
  /\ LET r == Head(control)
     IN  /\ Answers(c, r)
         /\ loaded' = LoadedAfter(c, r)
         /\ Return(c, IF r.kind = "loaded" THEN "ready" ELSE "idle")
  /\ control' = Tail(control)
  /\ UNCHANGED <<want, context, in_use, doomed, timeouts, inbox, resident>>

Discard(c) ==
  /\ stage[c] = "wait" /\ control # << >>
  /\ ~ Answers(c, Head(control))
  /\ control' = Tail(control)
  /\ UNCHANGED <<daemonVars, inbox, resident>>

\* The deadline passes.
TimeOut(c) ==
  /\ stage[c] = "wait"
  /\ timeouts < MaxTimeouts
  /\ timeouts' = timeouts + 1
  /\ loaded' = IF c = Janitor THEN [loaded EXCEPT ![want[c]] = 0] ELSE loaded
  /\ Return(c, "idle")
  /\ UNCHANGED <<want, context, in_use, doomed, inbox, control, resident>>

-----------------------------------------------------------------------------
(* The backend's command loop.                                             *)

Respond(kind, size) ==
  /\ control' = Append(control, [kind |-> kind, model |-> Head(inbox).model,
                                 context |-> size])
  /\ inbox' = Tail(inbox)
  /\ UNCHANGED daemonVars

\* A model that is loaded already is answered with the context it has.
BackendLoads ==
  /\ inbox # << >> /\ Head(inbox).kind = "load"
  /\ LET m == Head(inbox).model
         n == IF resident[m] # 0 THEN resident[m] ELSE Head(inbox).context
     IN  /\ resident' = [resident EXCEPT ![m] = n]
         /\ Respond("loaded", n)

BackendFails ==
  /\ inbox # << >> /\ Head(inbox).kind = "load"
  /\ resident[Head(inbox).model] = 0
  /\ Respond("error", 0)
  /\ UNCHANGED resident

BackendUnloads ==
  /\ inbox # << >> /\ Head(inbox).kind = "unload"
  /\ resident' = [resident EXCEPT ![Head(inbox).model] = 0]
  /\ Respond("unloaded", 0)

-----------------------------------------------------------------------------

Session(u) == Create(u) \/ Close(u) \/ Load(u) \/ EndTurn(u)

Cleans == LookAtSessions \/ LookAtModels \/ Sleep \/ \E m \in Models : Unload(m)

Operation(c) == FindsWork(c) \/ Ask(c) \/ Answered(c) \/ Discard(c) \/ TimeOut(c)

Backend == BackendLoads \/ BackendFails \/ BackendUnloads

ControlNext == \/ \E u \in Users : Session(u)
               \/ Cleans
               \/ \E c \in Callers : Operation(c)
               \/ Backend

ControlSpec == ControlInit /\ [][ControlNext]_controlVars

-----------------------------------------------------------------------------
(* Properties.                                                             *)

\* Every variable keeps its type.
ControlTypeOK ==
  /\ stage \in [Callers -> {"out", "idle", "looking", "scanning", "lock", "wait",
                            "ready"}]
  /\ want \in [Callers -> Models]
  /\ context \in [Users -> Contexts]
  /\ in_use \subseteq Models /\ doomed \subseteq Models
  /\ control_op = {c \in Callers : stage[c] = "wait"}
  /\ loaded \in [Models -> Contexts \cup {0}]
  /\ resident \in [Models -> Contexts \cup {0}]
  /\ inbox \in Seq(Message) /\ control \in Seq(Reply)
  /\ timeouts \in 0..MaxTimeouts

\* While a load waits for the backend, nobody has loaded that model: callers
\* that race for one model ask for it once, and the rest find it (load's
\* second look, under the mutex).
AskedOnce == \A u \in Users : stage[u] = "wait" => loaded[want[u]] = 0

\* Replies that nobody waits for do not pile up: there are at most as many as
\* operations have timed out, because each operation that returns otherwise
\* takes one reply and discards the rest that came before it.
StaleRepliesBounded ==
  Len(inbox) + Len(control) <= timeouts + Cardinality(control_op)

\* One operation waits at a time (control_op).
OneWaits ==
  \A c, d \in Callers : stage[c] = "wait" /\ stage[d] = "wait" => c = d

\* The waiting operation's own request, or the reply to it, is the last thing
\* on its way: whatever comes before it was left by an operation that is over.
OwnIsLast ==
  \A c \in Callers : stage[c] = "wait" =>
    IF inbox # << >>
    THEN /\ inbox[Len(inbox)].model = want[c]
         /\ inbox[Len(inbox)].kind = IF c = Janitor THEN "unload" ELSE "load"
    ELSE /\ control # << >>
         /\ Answers(c, control[Len(control)])
         /\ c = Janitor => control[Len(control)].kind = "unloaded"

Unloading(m) == stage[Janitor] = "wait" /\ want[Janitor] = m

\* What is left of operations that are over does no harm as long as one at
\* most has timed out: a stale unload is for a model that is not recorded as
\* loaded, and a stale reply to load says what the backend has, unless that
\* model is just being unloaded.
StaleIsHarmless ==
  timeouts <= 1 =>
    /\ \A i \in DOMAIN inbox : inbox[i].kind = "unload" =>
         \/ loaded[inbox[i].model] = 0
         \/ i = Len(inbox) /\ Unloading(inbox[i].model)
    /\ \A i \in DOMAIN control : control[i].kind = "loaded" =>
         \/ resident[control[i].model] = control[i].context
         \/ Unloading(control[i].model)

\* What loaded says is so, as long as one operation at most has timed out: the
\* backend has the model with the context that loaded records, unless that
\* model is just being unloaded.  load's fast path serves sessions from that
\* record.
LoadedIsBacked ==
  timeouts <= 1 =>
    \A m \in Models : loaded[m] # 0 => resident[m] = loaded[m] \/ Unloading(m)

\* Who asks and which reply is whose: load and unload take turns, ask for what
\* is not there already, and leave no more replies behind than time-outs.
RepliesAccounted ==
  /\ ControlTypeOK /\ AskedOnce /\ StaleRepliesBounded
  /\ OneWaits /\ OwnIsLast /\ StaleIsHarmless
=============================================================================
