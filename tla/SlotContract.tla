---------------------------- MODULE SlotContract ----------------------------
(***************************************************************************)
(* What the scheduler promises its callers (sched.rs's module comment),    *)
(* without queues, tickets, flags or messages: a class has so many slots,  *)
(* interactive requests go first and the least served of a class before    *)
(* the others, and the background requests that have reached a backend are *)
(* frozen exactly while an interactive request has a slot.                 *)
(***************************************************************************)
EXTENDS Naturals, FiniteSets

CONSTANTS Interactive, Background, MaxInteractive, MaxBackground

VARIABLES want,     \* who asks for a slot
          holds,    \* who has one
          working,  \* holders whose request a backend has
          frozen,   \* who is told to stand still
          spent     \* tokens produced for each session

contractVars == <<want, holds, working, frozen, spent>>

Clients == Interactive \cup Background

Class(s) == IF s \in Interactive THEN Interactive ELSE Background
Slots(s) == IF s \in Interactive THEN MaxInteractive ELSE MaxBackground

ContractInit == /\ want = {} /\ holds = {} /\ working = {} /\ frozen = {}
                /\ spent = [s \in Clients |-> 0]

\* Who is frozen depends on nothing but who holds and who works.
Freeze ==
  frozen' = IF holds' \cap Interactive # {} THEN working' \cap Background ELSE {}

Ask(s) == /\ s \notin want \cup holds
          /\ want' = want \cup {s}
          /\ UNCHANGED <<holds, working, frozen, spent>>

\* The next in line is any asker that no other is before.
Grant(s) ==
  /\ s \in want
  /\ Cardinality(holds \cap Class(s)) < Slots(s)
  /\ s \in Background => want \cap Interactive = {}
  /\ \A t \in want \cap Class(s) : spent[s] <= spent[t]
  /\ want' = want \ {s}
  /\ holds' = holds \cup {s}
  /\ UNCHANGED <<working, spent>>
  /\ Freeze

Work(s) == /\ s \in holds \ working
           /\ working' = working \cup {s}
           /\ UNCHANGED <<want, holds, spent>>
           /\ Freeze

Produce(s) == /\ s \in working
              /\ spent' = [spent EXCEPT ![s] = @ + 1]
              /\ UNCHANGED <<want, holds, working, frozen>>

Return(s) == /\ s \in holds
             /\ holds' = holds \ {s}
             /\ working' = working \ {s}
             /\ UNCHANGED <<want, spent>>
             /\ Freeze

ContractNext == \E s \in Clients : Ask(s) \/ Grant(s) \/ Work(s) \/ Produce(s) \/ Return(s)

ContractSpec == ContractInit /\ [][ContractNext]_contractVars
=============================================================================
