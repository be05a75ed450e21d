----------------------------- MODULE Scheduler -----------------------------
(***************************************************************************)
(* Decode slots and preemption: the first half of the daemon's sched.rs,   *)
(* driven by the session threads of session.rs and acting on the backend   *)
(* through the Preemptor trait.                                            *)
(*                                                                         *)
(* Each session is one thread and holds at most one slot.  The scheduler's *)
(* mutex makes each critical section one action.  What the code does after *)
(* it drops the mutex is a separate step: the pause and resume messages a  *)
(* thread computed under the lock sit in unsent[s] until that thread sends *)
(* them one at a time, and the thread does nothing else meanwhile.         *)
(*                                                                         *)
(* Waiters are kept in the order they were pushed, which is ticket order   *)
(* because a ticket is drawn and pushed under one lock.                    *)
(***************************************************************************)
EXTENDS Naturals, FiniteSets, Sequences, Functions

CONSTANTS Interactive,     \* sessions opened in the interactive class
          Background,      \* sessions opened in the background class
          MaxInteractive,  \* scheduler.max_concurrent_interactive
          MaxBackground,   \* scheduler.max_concurrent_background
          MaxServed        \* bound of the model on tokens charged

ASSUME ClassesAssumption == /\ IsFiniteSet(Interactive)
                            /\ IsFiniteSet(Background)
                            /\ Interactive \cap Background = {}
ASSUME CapsAssumption == /\ MaxInteractive \in Nat \ {0}
                         /\ MaxBackground \in Nat \ {0}
ASSUME ServedAssumption == MaxServed \in Nat

Sessions == Interactive \cup Background

VARIABLES pc,        \* where each session's thread is
          waiting,   \* Inner.waiting, in ticket order
          running,   \* sessions with an entry in Inner.running
          attached,  \* running entries whose backend and req_id are Some
          paused,    \* running entries whose paused flag is set
          served,    \* Inner.served
          unsent,    \* messages decided on and not yet sent
          live,      \* requests the backend is working on
          held       \* live requests whose pause flag is set in the backend

vars == <<pc, waiting, running, attached, paused, served, unsent, live, held>>

Messages == Sessions \X {"pause", "resume"}

PCs == {"idle", "waiting", "admitted", "begun", "streaming"}

Init == /\ pc = [s \in Sessions |-> "idle"]
        /\ waiting = << >>
        /\ running = {}
        /\ attached = {}
        /\ paused = {}
        /\ served = [s \in Sessions |-> 0]
        /\ unsent = [s \in Sessions |-> {}]
        /\ live = {}
        /\ held = {}

-----------------------------------------------------------------------------
(* What the scheduler decides under its mutex.                             *)

ClassOf(s) == IF s \in Interactive THEN Interactive ELSE Background

Cap(s) == IF s \in Interactive THEN MaxInteractive ELSE MaxBackground

\* The key (class, served, ticket) of waiter i is at most that of waiter j.
NewestFirst(i, j) ==
  \/ waiting[i] \in Interactive /\ waiting[j] \in Background
  \/ ClassOf(waiting[i]) = ClassOf(waiting[j]) /\ i >= j

KeyLE(i, j) ==
  LET me    == waiting[i]
      other == waiting[j]
  IN  \/ me \in Interactive /\ other \in Background
      \/ /\ ClassOf(me) = ClassOf(other)
         /\ \/ served[me] < served[other]
            \/ served[me] = served[other] /\ i <= j

\* Whether waiter i should get the next free slot.
TurnAtCap(i) ==
  /\ Cardinality(running \cap ClassOf(waiting[i])) <= Cap(waiting[i])
  /\ \A j \in DOMAIN waiting : KeyLE(i, j)

is_turn(i) ==
  /\ Cardinality(running \cap ClassOf(waiting[i])) < Cap(waiting[i])
  /\ \A j \in DOMAIN waiting : KeyLE(i, j)

\* The running entries whose paused flag the admission of s sets.
PreemptsEveryone(s) == IF s \in Interactive THEN running \ paused ELSE {}

to_pause(s) ==
  IF s \in Interactive THEN (running \cap Background) \ paused ELSE {}

\* Whether s, attaching now, starts paused.
PausesAnyClass(s) == (running \ {s}) \cap Interactive # {}

NeverStartsPaused(s) == FALSE

pause_now(s) == s \in Background /\ (running \ {s}) \cap Interactive # {}

\* The running entries whose paused flag the release of s clears.
ResumesAlways(s) == paused \ {s}

CountsItself(s) == IF running \cap Interactive # {} THEN {} ELSE paused \ {s}

to_resume(s) ==
  IF (running \ {s}) \cap Interactive # {} THEN {} ELSE paused \ {s}

\* The thread at location l, with nothing left to send.
At(s, l) == pc[s] = l /\ unsent[s] = {}

Goto(s, l) == pc' = [pc EXCEPT ![s] = l]

-----------------------------------------------------------------------------
(* The steps of a session's thread.                                        *)

\* admit, up to its loop: a request that passed its checks queues for a slot.
Enqueue(s) ==
  /\ At(s, "idle")
  /\ waiting' = Append(waiting, s)
  /\ Goto(s, "waiting")
  /\ UNCHANGED <<running, attached, paused, served, unsent, live, held>>

\* The queue without one of its entries.
RemoveAt(q, i) == SubSeq(q, 1, i - 1) \o SubSeq(q, i + 1, Len(q))

\* admit, its turn come.  An interactive admission marks the background
\* entries and will tell the backend about those that are attached.
Admit(s) ==
  /\ At(s, "waiting")
  /\ \E i \in DOMAIN waiting : /\ waiting[i] = s
                               /\ is_turn(i)
                               /\ waiting' = RemoveAt(waiting, i)
  /\ running' = running \cup {s}
  /\ paused' = paused \cup to_pause(s)
  /\ unsent' = [unsent EXCEPT ![s] =
                  {<<t, "pause">> : t \in to_pause(s) \cap attached}]
  /\ Goto(s, "admitted")
  /\ UNCHANGED <<attached, served, live, held>>

\* The backend takes the request on; nothing has asked it to pause yet.
Begin(s) ==
  /\ At(s, "admitted")
  /\ live' = live \cup {s}
  /\ Goto(s, "begun")
  /\ UNCHANGED <<waiting, running, attached, paused, served, unsent, held>>

\* Slot::attach.
Attach(s) ==
  /\ At(s, "begun")
  /\ attached' = attached \cup {s}
  /\ paused' = IF pause_now(s) THEN paused \cup {s} ELSE paused
  /\ unsent' = [unsent EXCEPT ![s] =
                  IF pause_now(s) THEN {<<s, "pause">>} ELSE {}]
  /\ Goto(s, "streaming")
  /\ UNCHANGED <<waiting, running, served, live, held>>

\* A token of a text generation: the one place a slot is charged.  Media and
\* embedding requests hold a slot too and are never charged.
Charge(s) ==
  /\ At(s, "streaming")
  /\ s \notin held
  /\ served[s] < MaxServed
  /\ served' = [served EXCEPT ![s] = @ + 1]
  /\ UNCHANGED <<pc, waiting, running, attached, paused, unsent, live, held>>

\* release, from Slot's Drop.  The request is over, so a message to it that
\* another thread has yet to send will find no such request in the backend:
\* sending it changes nothing, and it leaves unsent here.
Release(s) ==
  /\ running' = running \ {s}
  /\ attached' = attached \ {s}
  /\ paused' = (paused \ {s}) \ to_resume(s)
  /\ unsent' = [t \in Sessions |->
                  IF t = s
                  THEN {<<r, "resume">> : r \in to_resume(s) \cap attached}
                  ELSE {m \in unsent[t] : m[1] # s}]
  /\ live' = live \ {s}
  /\ held' = held \ {s}
  /\ Goto(s, "idle")
  /\ UNCHANGED <<waiting, served>>

\* The backend refused the request, and the slot is dropped unattached.
BeginFails(s) == At(s, "admitted") /\ Release(s)

\* The request ended in one of three ways: it ran to its end, which needs the
\* backend free to go on; the silence net gave up on it, which counts only the
\* time is_paused answered no; or it was cancelled, which nothing prevents.
Finish(s) == At(s, "streaming") /\ s \notin held /\ Release(s)

GiveUp(s) == At(s, "streaming") /\ s \notin paused /\ Release(s)

Cancel(s) == At(s, "streaming") /\ Release(s)

\* One Preemptor::set_paused.  The pipe to the backend keeps the order of the
\* writes, so a write and its effect are one step here.
Send(s) ==
  /\ \E m \in unsent[s] :
       /\ held' = IF m[2] = "pause" THEN held \cup {m[1]} ELSE held \ {m[1]}
       /\ unsent' = [unsent EXCEPT ![s] = @ \ {m}]
  /\ UNCHANGED <<pc, waiting, running, attached, paused, served, live>>

Step(s) == \/ Enqueue(s)
           \/ Admit(s)
           \/ Begin(s)
           \/ BeginFails(s)
           \/ Attach(s)
           \/ Charge(s)
           \/ Finish(s)
           \/ GiveUp(s)
           \/ Cancel(s)
           \/ Send(s)

Next == \E s \in Sessions : Step(s)

Spec == Init /\ [][Next]_vars

(***************************************************************************)
(* Fairness.  A waiter is woken by release's notify_all and by its 250 ms  *)
(* timeout; a thread outside a wait keeps running; and a request the       *)
(* scheduler is not pausing ends, by itself or through the silence net.    *)
(* Nothing obliges a client to ask again.                                  *)
(***************************************************************************)
Fairness == \A s \in Sessions : /\ WF_vars(Admit(s))
                                /\ WF_vars(Begin(s) \/ BeginFails(s))
                                /\ WF_vars(Attach(s))
                                /\ WF_vars(Finish(s) \/ GiveUp(s))
                                /\ WF_vars(Send(s))

FairSpec == Spec /\ Fairness

-----------------------------------------------------------------------------
(* Properties.                                                             *)

\* Every variable keeps its type.
TypeOK ==
  /\ pc \in [Sessions -> PCs]
  /\ waiting \in Seq(Sessions)
  /\ running \subseteq Sessions
  /\ attached \subseteq running
  /\ paused \subseteq running \cap Background
  /\ served \in [Sessions -> 0..MaxServed]
  /\ unsent \in [Sessions -> SUBSET Messages]
  /\ live \subseteq Sessions
  /\ held \subseteq live

\* A class never has more slots out than its configured maximum, whatever
\* order admissions and releases come in (is_turn's cap).
SlotCaps ==
  /\ Cardinality(running \cap Interactive) <= MaxInteractive
  /\ Cardinality(running \cap Background) <= MaxBackground

\* The paused flag of an attached background request says exactly whether an
\* interactive request holds a slot, and an unattached entry is flagged only
\* while one does: admit, attach and release agree about who is preempted.
PreemptionExact ==
  LET busy == running \cap Interactive # {}
  IN  /\ \A s \in attached \cap Background : s \in paused <=> busy
      /\ paused # {} => busy

\* A pause that an admission has decided on and not yet sent is never out of
\* date: its target is still flagged paused, because the admitting thread
\* holds an interactive slot until the pause has gone out.
AdmitPauseIsCurrent ==
  \A s, t \in Sessions : s # t /\ <<t, "pause">> \in unsent[s] => t \in paused

\* No interactive request is ever held still by the backend.
InteractiveNeverHeld == held \cap Interactive = {}

\* The scheduler's books follow from where the threads are: an entry is in
\* running from admission to release, and attached while its thread streams.
BooksMatchThreads ==
  /\ running = {s \in Sessions : pc[s] \in {"admitted", "begun", "streaming"}}
  /\ attached = {s \in Sessions : pc[s] = "streaming"}
  /\ live = {s \in Sessions : pc[s] \in {"begun", "streaming"}}
  /\ held \subseteq attached \cap Background

\* Whoever has a message to send sends it to an attached background request,
\* and a pause comes from that request's own attach or from an interactive
\* admission that has gone no further.
MessagesMatchThreads ==
  \A s \in Sessions : \A m \in unsent[s] :
    /\ m[1] \in attached \cap Background
    /\ m[2] = "pause" => m[1] = s \/ (s \in Interactive /\ pc[s] = "admitted")

\* The inductive invariant: every safety property above follows from it.
SchedulerInv == /\ TypeOK
                /\ BooksMatchThreads
                /\ MessagesMatchThreads
                /\ SlotCaps
                /\ PreemptionExact

\* A waiting session of the interactive class that has been served no more
\* than any other of its class gets a slot (sched.rs:9-11, a chatty client
\* cannot starve a quiet one).
QuietIsServed ==
  \A s \in Interactive :
    (pc[s] = "waiting" /\ \A t \in Interactive : served[s] <= served[t])
      ~> (s \in running)

\* Preempted background work is not forgotten: if interactive clients stop
\* asking, every background request that has a slot comes to its end.
BackgroundEnds ==
  \A s \in Background :
    <>[](\A t \in Interactive : pc[t] = "idle")
      => ((s \in running) ~> (s \notin running))

\* The scheduler implements its contract: the queue is who asks, running who
\* holds, and an attached entry that is flagged is frozen.
Contract == INSTANCE SlotContract WITH want <- Range(waiting), holds <- running,
              working <- attached, frozen <- paused \cap attached, spent <- served

\* Every step of a session's thread is one the contract allows or one its
\* callers cannot see: whatever the queue, the tickets and the flags do, slots
\* are granted in the order promised and preemption is exact (sched.rs:1-22).
ImplementsContract == Contract!ContractSpec
=============================================================================
