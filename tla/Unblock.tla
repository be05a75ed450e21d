------------------------------- MODULE Unblock -------------------------------
(***************************************************************************)
(* Asking polkit from the bus: unblock.rs, require_admin of dbusapi.rs and *)
(* check_authorization of polkit.rs.                                       *)
(*                                                                         *)
(* zbus runs every method call on one executor thread, which is also the   *)
(* thread that reads replies off the connection.  A bus call that must ask *)
(* polkit hands the question to a thread and is polled until the thread    *)
(* has left a result; a session asks from its own thread.  All of them ask *)
(* over one connection, behind the one polkit mutex.                       *)
(***************************************************************************)
EXTENDS Naturals, FiniteSets

CONSTANTS BusCalls,   \* method calls that need model-admin
          Askers      \* session threads that need a capability

ASSUME AskingApart == BusCalls \cap Askers = {} /\ "nobody" \notin BusCalls \cup Askers

VARIABLES task,     \* each call: "new", "ready" to be polled, "pending", "blocking" or "done"
          waker,    \* calls whose Shared.waker is set
          result,   \* Shared.result of each call, or of a session's check
          thread,   \* where the asking thread of each is
          mutex,    \* who holds the polkit mutex
          replies,  \* replies of polkit on the connection, unread
          heard     \* replies read and handed to the waiting thread

unblockVars == <<task, waker, result, thread, mutex, replies, heard>>

Asking == BusCalls \cup Askers
Nobody == "nobody"
\* polkit: yes, no, nobody was there to answer, or no details are taken.
Says == {"yes", "no", "challenge", "details", "error"}
\* Where a thread is that waits for polkit's reply.
Waits == {"asked with details", "asked"}

UnblockInit == /\ task = [c \in BusCalls |-> "new"]
               /\ thread = [c \in Asking |-> IF c \in Askers THEN "check" ELSE "unborn"]
               /\ result = [c \in Asking |-> "none"]
               /\ waker = {}
               /\ mutex = Nobody
               /\ replies = {}
               /\ heard = {}

\* The executor is free to dispatch, to poll and to read its socket unless
\* some handler blocks it.
ExecutorFree == \A c \in BusCalls : task[c] # "blocking"

Set(f, c, v) == [f EXCEPT ![c] = v]

-----------------------------------------------------------------------------
(* The executor thread.                                                    *)

DispatchInline(c) ==
  /\ ExecutorFree
  /\ task[c] = "new"
  /\ task' = Set(task, c, "blocking")
  /\ thread' = Set(thread, c, "check")
  /\ UNCHANGED <<waker, result, mutex, replies, heard>>

\* unblock: the thread is started, or could not be and that is the result.
Dispatch(c) ==
  /\ ExecutorFree
  /\ task[c] = "new"
  /\ task' = Set(task, c, "ready")
  /\ \/ thread' = Set(thread, c, "check") /\ UNCHANGED result
     \/ result' = Set(result, c, "failed") /\ UNCHANGED thread
  /\ UNCHANGED <<waker, mutex, replies, heard>>

\* poll, under Shared's mutex.
PollForgetful(c) ==
  /\ ExecutorFree
  /\ task[c] = "ready"
  /\ task' = Set(task, c, IF result[c] = "none" THEN "pending" ELSE "done")
  /\ UNCHANGED <<waker, result, thread, mutex, replies, heard>>

PollCall(c) ==
  /\ ExecutorFree
  /\ task[c] = "ready"
  /\ IF result[c] # "none"
     THEN task' = Set(task, c, "done") /\ UNCHANGED waker
     ELSE task' = Set(task, c, "pending") /\ waker' = waker \cup {c}
  /\ UNCHANGED <<result, thread, mutex, replies, heard>>

\* A reply is read and wakes the thread whose call it answers.
ReadReply ==
  /\ ExecutorFree
  /\ \E m \in replies : replies' = replies \ {m} /\ heard' = heard \cup {m}
  /\ UNCHANGED <<task, waker, result, thread, mutex>>

-----------------------------------------------------------------------------
(* The asking threads.                                                     *)

\* ask_polkit takes the mutex and calls CheckAuthorization with details.
AskPolkit(c) ==
  /\ thread[c] = "check"
  /\ mutex = Nobody
  /\ mutex' = c
  /\ thread' = Set(thread, c, "asked with details")
  /\ UNCHANGED <<task, waker, result, replies, heard>>

\* The authority answers, or the user does, or the bus gives the call up.
Authority(c) ==
  /\ thread[c] \in Waits
  /\ ~ \E m \in replies \cup heard : m[1] = c
  /\ \E say \in Says : replies' = replies \cup {<<c, say>>}
  /\ UNCHANGED <<task, waker, result, thread, mutex, heard>>

interpret(say) == CASE say = "yes" -> "allowed"
                    [] say = "no"  -> "denied"
                    [] OTHER       -> "failed"

\* A refusal of the details is asked again without them.
AskAgain(c) ==
  /\ thread[c] = "asked with details"
  /\ <<c, "details">> \in heard
  /\ heard' = heard \ {<<c, "details">>}
  /\ thread' = Set(thread, c, "asked")
  /\ UNCHANGED <<task, waker, result, mutex, replies>>

\* The answer is in; the mutex guard is dropped with ask_polkit's frame.
Hear(c) ==
  /\ \E m \in heard :
       /\ m[1] = c
       /\ thread[c] = "asked" \/ m[2] # "details"
       /\ heard' = heard \ {m}
       /\ thread' = Set(thread, c, interpret(m[2]))
  /\ mutex' = Nobody
  /\ UNCHANGED <<task, waker, result, replies>>

\* The worker leaves its result and wakes whoever polled before it, under
\* Shared's mutex; a session's thread simply goes on with its answer.
Complete(c) ==
  /\ thread[c] \in {"allowed", "denied", "failed"}
  /\ result' = Set(result, c, thread[c])
  /\ thread' = Set(thread, c, "gone")
  /\ task' = IF c \in waker THEN Set(task, c, "ready") ELSE
             IF c \in BusCalls /\ task[c] = "blocking" THEN Set(task, c, "done") ELSE task
  /\ waker' = waker \ {c}
  /\ UNCHANGED <<mutex, replies, heard>>

Executor == ReadReply \/ \E c \in BusCalls : Dispatch(c) \/ PollCall(c)
ThreadStep(c) == AskPolkit(c) \/ AskAgain(c) \/ Hear(c) \/ Complete(c)

UnblockNext == Executor \/ \E c \in Asking : ThreadStep(c) \/ Authority(c)

\* The executor serves every ready task and every reply; threads run and
\* each asks once, so a free mutex goes to each in the end; and polkit
\* answers, as it does when its agent gives up.
UnblockFair ==
  /\ WF_unblockVars(ReadReply)
  /\ \A c \in BusCalls : WF_unblockVars(Dispatch(c)) /\ WF_unblockVars(PollCall(c))
  /\ \A c \in Asking : /\ WF_unblockVars(AskPolkit(c))
                       /\ WF_unblockVars(AskAgain(c) \/ Hear(c) \/ Complete(c))
                       /\ WF_unblockVars(Authority(c))

UnblockSpec == UnblockInit /\ [][UnblockNext]_unblockVars /\ UnblockFair

-----------------------------------------------------------------------------
(* Properties.                                                             *)

\* A call is never left pending with its result in and nobody to wake it, and
\* whoever waits for polkit's mutex waits for a thread that is asking.
NoLostWakeup ==
  /\ \A c \in BusCalls : task[c] = "pending" => c \in waker /\ result[c] = "none"
  /\ mutex # Nobody => thread[mutex] \in Waits

\* The types; the mutex is held by the one thread that waits for polkit; every
\* reply, read or not, is the only one for a thread that waits; and a waker is
\* kept for a pending call alone.
UnblockBooks ==
  /\ task \in [BusCalls -> {"new", "ready", "pending", "blocking", "done"}]
  /\ thread \in [Asking -> {"unborn", "check", "allowed", "denied", "failed", "gone"} \cup Waits]
  /\ result \in [Asking -> {"none", "allowed", "denied", "failed"}]
  /\ replies \cup heard \subseteq Asking \X Says
  /\ waker \subseteq {c \in BusCalls : task[c] = "pending"}
  /\ \A c \in BusCalls : task[c] = "new" => thread[c] = "unborn"
  /\ \A c \in Asking : thread[c] \in Waits <=> mutex = c
  /\ \A m \in replies \cup heard : thread[m[1]] \in Waits
  /\ \A m, n \in replies \cup heard : m[1] = n[1] => m = n
  /\ replies \cap heard = {}
  /\ mutex \in Asking \cup {Nobody}

\* Every method call that had to ask polkit is answered and every session's
\* check returns, however the questions queue behind one another: no handler
\* waits on the executor for what only the executor could deliver
\* (unblock.rs:5-10).
EveryoneAnswered ==
  /\ [](NoLostWakeup /\ UnblockBooks)
  /\ <>(/\ \A c \in BusCalls : task[c] = "done"
        /\ \A c \in Askers : thread[c] = "gone")
=============================================================================
