-------------------------- MODULE GenerationProofs --------------------------
(***************************************************************************)
(* Proofs about Generation, for any number of requests and any programs'   *)
(* sets of them.  What the daemon has heard is whole because of where the  *)
(* thread is (Speech), and a kill hits the right process because of who    *)
(* has the child: the map, the thread that took it, or nobody (Children).  *)
(***************************************************************************)
EXTENDS Generation, FiniteSetTheorems, TLAPS

-----------------------------------------------------------------------------
(* Sequences.                                                              *)

\* The length of a sequence, and its domain.
LEMMA SeqLen ==
  ASSUME NEW S, NEW s \in Seq(S)
  PROVE  Len(s) \in Nat /\ DOMAIN s = 1..Len(s) /\ s \in [1..Len(s) -> S]
  OBVIOUS

\* Only the empty sequence has no elements.
LEMMA SeqEmpty ==
  ASSUME NEW S
  PROVE  /\ << >> \in Seq(S) /\ Len(<< >>) = 0
         /\ \A s \in Seq(S) : s # << >> => Len(s) \in Nat \ {0}
  OBVIOUS

\* The elements of a concatenation.
LEMMA SeqConcat ==
  ASSUME NEW S, NEW s \in Seq(S), NEW t \in Seq(S)
  PROVE  /\ s \o t \in Seq(S) /\ Len(s \o t) = Len(s) + Len(t)
         /\ \A i \in 1..(Len(s) + Len(t)) :
              (s \o t)[i] = IF i <= Len(s) THEN s[i] ELSE t[i - Len(s)]
  OBVIOUS

\* The empty sequence adds nothing.
LEMMA SeqConcatEmpty ==
  ASSUME NEW S, NEW s \in Seq(S)
  PROVE  s \o << >> = s /\ << >> \o s = s
  OBVIOUS

-----------------------------------------------------------------------------
(* The invariants.                                                         *)

\* Where the thread of a request can be: before the body of the reply, in it,
\* and past it.
Before == {"none", "absent", "start", "ask", "register", "headers"}
Speaking == {"body", "held", "emit", "reap", "wait", "flush"}
Over == {"leave", "gone"}
\* What the backend sends the daemon.
Events == {"token", "calls", "value", "done", "error"}
\* What may have become of a request's child.
Links == {"none", "up", "cut", "closed", "reaped", "killed reaped"}

\* The types of the backend's state.
GenTyped ==
  /\ program \in {"llamacpp", "remote", "remote again", "mock"}
  /\ step \in [Requests -> Before \cup Speaking \cup Over]
  /\ hold \in [Requests -> BOOLEAN] /\ stop \in [Requests -> BOOLEAN]
  /\ paused \in [Ids -> Requests \cup {None}] /\ cancelled \in [Ids -> Requests \cup {None}]
  /\ transport \in [Ids -> Requests \cup {None}] /\ taken \in [Requests -> Requests \cup {None}]
  /\ canceller \in Ids \cup {None}
  /\ link \in [Requests -> Links] /\ unread \in [Requests -> BOOLEAN]
  /\ text \in [Requests -> Nat] /\ asked_for \in [Requests -> Nat] /\ slack \in [Requests -> Nat]
  /\ reason \in [Requests -> {"stop", "cancelled", "tool_call"}]

\* A request that was told to stop has let one token go since, or is past the
\* boundary with it.
Told(r) == hold[r] \/ stop[r] => slack[r] <= 1 /\ (step[r] = "emit" => slack[r] = 0)

\* An entry of a map belongs to a request whose thread is running.
Entries ==
  \A i \in Ids : \A r \in Requests :
    r \in {paused[i], cancelled[i], transport[i]} =>
      Id(r) = i /\ step[r] \notin {"none", "absent", "ask", "gone"}

\* A child is in the map, in the hands of the thread that took it, or waited for.
Unstarted == {"none", "absent", "start", "ask"}

\* Requests whose child is not in the map yet.
Fresh == Unstarted \cup {"register"}

\* Nobody is killed after they were waited for, and a child begins when its
\* thread starts it.
Living ==
  \A r \in Requests :
    /\ link[r] # "killed reaped"
    /\ step[r] \in Unstarted => link[r] = "none"
    /\ step[r] = "register" => link[r] # "reaped"
\* A child that was waited for is in the map no more,
InMap == \A r \in Requests : \A i \in Ids :
           link[r] = "reaped" \/ step[r] \in Fresh => transport[i] # r
\* and neither is one its thread has taken out to wait for.
Taken == \A r \in Requests :
           step[r] = "wait" => /\ taken[r] \in Requests /\ step[taken[r]] \notin Fresh
                               /\ \A i \in Ids : transport[i] # taken[r]

\* Together: what is known of the children.
Children == Living /\ InMap /\ Taken

\* A blob some manifest names, some installation is about to publish, or a
\* removal is about to unlink.
Owned(r) ==
  /\ step[r] # "headers"
  /\ step[r] \in {"body", "held", "emit", "reap"} => transport[r] = r
  /\ step[r] = "wait" => taken[r] = r
  /\ step[r] = "flush" => link[r] = "reaped"
  /\ step[r] \in Over /\ ~ unread[r] => link[r] \in {"none", "reaped"}

\* So with program remote, where every request has its own id.
OwnChild ==
  program = "remote" => \A r \in Requests : Owned(r)

\* The last event is the one terminal event.
Ended(s) == /\ Len(s) >= 1 /\ s[Len(s)] \in {"done", "error"}
            /\ \A i \in 1..(Len(s) - 1) : s[i] \notin {"done", "error"}

\* What the daemon has heard of a request.
Speech(r) ==
  /\ step[r] \in Before => sent[r] = << >> /\ text[r] = 0 /\ asked_for[r] = 0
  /\ step[r] \in {"register", "headers"} => program # "mock"
  /\ step[r] \in Speaking =>
       /\ \A i \in 1..Len(sent[r]) : sent[r][i] = "token"
       /\ Len(sent[r]) = IF r \in WithTools THEN 0 ELSE text[r]
       /\ asked_for[r] > 0 => remote /\ r \in WithTools
       /\ program = "mock" => r \notin WithTools
  /\ step[r] \in Over =>
       /\ Ended(sent[r])
       /\ /\ sent[r][Len(sent[r])] = "done" /\ sent[r][1] # "value" /\ reason[r] # "tool_call"
          /\ ~ (remote /\ r \in WithTools)
          => /\ \A i \in 1..(Len(sent[r]) - 1) : sent[r][i] = "token"
             /\ Len(sent[r]) = text[r] + 1

\* The type of what was sent.
SentTyped == sent \in [Requests -> Seq(Events)]

\* The inductive invariant.
GenInv ==
  /\ GenTyped /\ SentTyped /\ Entries /\ Children /\ OwnChild
  /\ \A r \in Requests : Told(r) /\ Speech(r)

\* The program and the requests' ids never change.
LEMMA NamesStay ==
  ASSUME GenerationNext \/ UNCHANGED generationVars
  PROVE  /\ program' = program /\ Ids' = Ids /\ (remote' <=> remote)
         /\ \A r \in Requests : Id(r)' = Id(r) /\ Id(r) \in Ids
<1>1. program' = program
  <2>1. \A i : HandleCancel(i) \/ HandlePause(i, TRUE) \/ HandlePause(i, FALSE) \/ HandleCut
                => program' = program
    BY Zenon DEF HandleCancel, HandlePause, HandleCut
  <2>2. \A r : HandleGenerate(r) \/ HandleAsk(r) \/ Answer(r) \/ Start(r) \/ Register(r) \/ Headers(r)
                => program' = program
    BY Zenon DEF HandleGenerate, HandleAsk, Answer, Start, Register, Headers
  <2>3. \A r : Check(r) \/ Emit(r) \/ Reap(r) \/ CurlExits(r) => program' = program
    BY Zenon DEF Check, Emit, Reap, CurlExits
  <2>4. \A r : WaitChild(r) \/ Flush(r) \/ Leave(r) => program' = program
    BY Zenon DEF WaitChild, Flush, Leave
  <2>5. \A r, line : Body(r, line) => program' = program
    BY DEF Body
  <2>. QED  BY <2>1, <2>2, <2>3, <2>4, <2>5, Zenon DEF GenerationNext, generationVars
<1>. QED  BY <1>1, Zenon DEF Ids, Id, remote

\* A function stays one into its range.
LEMMA StillInto ==
  ASSUME NEW T, NEW f \in [Requests -> T], NEW r \in Requests, NEW v \in T
  PROVE  [f EXCEPT ![r] = v] \in [Requests -> T]
  BY Zenon

\* Every step keeps the types,
LEMMA TypesKept ==
  ASSUME GenTyped, GenerationNext
  PROVE  GenTyped'
<1>0. /\ program' = program /\ Ids' = Ids /\ None \notin Requests
      /\ \A r \in Requests : Id(r)' = Id(r) /\ Id(r) \in Ids
  BY NamesStay, GenerationAssumption, Zenon
<1>c. /\ text \in [Requests -> Nat] /\ asked_for \in [Requests -> Nat] /\ slack \in [Requests -> Nat]
  BY Zenon DEF GenTyped
<1>1. ASSUME NEW i \in Ids, HandleCancel(i) PROVE GenTyped'
  <2>1. cancelled[i] \in Requests
    BY <1>1, Zenon DEF GenTyped, HandleCancel
  <2>. QED  BY <1>0, <1>1, <2>1, Zenon DEF GenTyped, HandleCancel, maps
<1>2. ASSUME NEW i \in Ids, NEW on \in BOOLEAN, HandlePause(i, on) PROVE GenTyped'
  <2>1. paused[i] \in Requests
    <3>1. paused[i] # None
      BY <1>2, Zenon DEF HandlePause
    <3>2. \A j \in Ids : paused[j] \in Requests \cup {None}
      BY Zenon DEF GenTyped
    <3>. QED  BY <3>1, <3>2, Zenon
  <2>. QED  BY <1>0, <1>2, <2>1, Zenon DEF GenTyped, HandlePause, maps
<1>3. CASE HandleCut
  <2>1. canceller \in Ids
    BY <1>3, Zenon DEF GenTyped, HandleCut
  <2>2. link' \in [Requests -> Links]
    <3>1. \A was \in Links : Killed(was) \in Links
      BY Zenon DEF Killed, Links
    <3>2. transport[canceller] \in Requests \cup {None} /\ link \in [Requests -> Links]
      BY <2>1, Zenon DEF GenTyped
    <3>3. link' = link \/ link' = [link EXCEPT ![transport[canceller]] = Killed(link[transport[canceller]])]
      BY <1>3, Zenon DEF HandleCut
    <3>4. CASE transport[canceller] = None
      BY <1>3, <3>2, <3>4, Zenon DEF HandleCut
    <3>5. CASE transport[canceller] \in Requests
      BY <3>1, <3>2, <3>3, <3>5
    <3>. QED  BY <3>2, <3>4, <3>5, Zenon
  <2>. QED  BY <1>0, <1>3, <2>1, <2>2, Zenon DEF GenTyped, HandleCut, maps, flags, perRequest
<1>4. ASSUME NEW r \in Requests, HandleGenerate(r) PROVE GenTyped'
  BY <1>0, <1>4, Zenon DEF GenTyped, HandleGenerate, Advance, Conclude, Fail, maps, flags, perRequest,
     Links, Events, Before, Speaking, Over
<1>5. ASSUME NEW r \in Requests, HandleAsk(r) PROVE GenTyped'
  BY <1>0, <1>5, Zenon DEF GenTyped, HandleAsk, Advance, Conclude, Fail, maps, flags, perRequest,
     Links, Events, Before, Speaking, Over
<1>6. ASSUME NEW r \in Requests, Answer(r) PROVE GenTyped'
  BY <1>0, <1>6, Zenon DEF GenTyped, Answer, Advance, Conclude, Fail, maps, flags, perRequest, Links,
     Events, Before, Speaking, Over
<1>7. ASSUME NEW r \in Requests, Start(r) PROVE GenTyped'
  <2>1. step' \in [Requests -> Before \cup Speaking \cup Over]
    <3>1. \E at \in {"leave", "register", "held"} : step' = [step EXCEPT ![r] = at]
      BY <1>7, Zenon DEF Start, Advance, Fail
    <3>. QED  BY <3>1, Zenon DEF GenTyped, Before, Speaking, Over
  <2>2. link' \in [Requests -> Links] /\ reason' \in [Requests -> {"stop", "cancelled", "tool_call"}]
    BY <1>7, Zenon DEF GenTyped, Start, Fail, Conclude, Links
  <2>3. asked_for' \in [Requests -> Nat] /\ slack' = slack
    <3>1. /\ asked_for' = asked_for \/ \E n \in 1..2 : asked_for' = [asked_for EXCEPT ![r] = n]
          /\ slack' = slack
      BY <1>7, Zenon DEF Start, Fail
    <3>2. asked_for \in [Requests -> Nat] /\ \A n \in 1..2 : n \in Nat
      BY <1>c
    <3>. QED  BY <3>1, <3>2, StillInto, Zenon
  <2>. QED  BY <1>0, <1>7, <2>1, <2>2, <2>3, Zenon DEF GenTyped, Start, maps, flags
<1>8. ASSUME NEW r \in Requests, Register(r) PROVE GenTyped'
  BY <1>0, <1>8, Zenon DEF GenTyped, Register, Advance, Conclude, Fail, maps, flags, perRequest,
     Links, Events, Before, Speaking, Over
<1>9. ASSUME NEW r \in Requests, Headers(r) PROVE GenTyped'
  BY <1>0, <1>9, Zenon DEF GenTyped, Headers, Advance, Conclude, Fail, maps, flags, perRequest, Links,
     Events, Before, Speaking, Over
<1>10. ASSUME NEW r \in Requests, Check(r) PROVE GenTyped'
  BY <1>0, <1>10 DEF GenTyped, Check, Advance, Conclude, Fail, maps, flags, perRequest, Links,
     Events, Before, Speaking, Over
<1>11. ASSUME NEW r \in Requests, Emit(r) PROVE GenTyped'
  <2>1. /\ step' \in [Requests -> Before \cup Speaking \cup Over]
        /\ UNCHANGED <<program, flags, maps, link, taken, canceller, unread, reason>>
    <3>1. /\ \E at \in {"flush", "held", "body"} : step' = [step EXCEPT ![r] = at]
          /\ UNCHANGED <<program, flags, maps, link, taken, canceller, unread, reason>>
      BY <1>11, Zenon DEF Emit, Advance
    <3>2. {"flush", "held", "body"} \subseteq Speaking
      BY Zenon DEF Speaking
    <3>3. step \in [Requests -> Before \cup Speaking \cup Over]
      BY Zenon DEF GenTyped
    <3>. QED  BY <3>1, <3>2, <3>3, Zenon
  <2>2. text' \in [Requests -> Nat] /\ asked_for' \in [Requests -> Nat]
    <3>1. /\ text' = text \/ text' = [text EXCEPT ![r] = text[r] + 1]
          /\ asked_for' = asked_for \/ asked_for' = [asked_for EXCEPT ![r] = asked_for[r] + 1]
      BY <1>11, Zenon DEF Emit
    <3>2. /\ text \in [Requests -> Nat] /\ text[r] + 1 \in Nat
          /\ asked_for \in [Requests -> Nat] /\ asked_for[r] + 1 \in Nat
      BY <1>c
    <3>. QED  BY <3>1, <3>2, StillInto, Zenon
  <2>3. slack' \in [Requests -> Nat]
    <3>1. slack' = slack \/ slack' = [slack EXCEPT ![r] = slack[r] + 1] \/ slack' = [slack EXCEPT ![r] = slack[r]]
      BY <1>11, Zenon DEF Emit
    <3>2. slack \in [Requests -> Nat] /\ slack[r] + 1 \in Nat /\ slack[r] \in Nat
      BY <1>c
    <3>. QED  BY <3>1, <3>2, StillInto, Zenon
  <2>. QED  BY <1>0, <2>1, <2>2, <2>3, Zenon DEF GenTyped, maps, flags
<1>12. ASSUME NEW r \in Requests, Reap(r) PROVE GenTyped'
  BY <1>0, <1>12, Zenon DEF GenTyped, Reap, Advance, Conclude, Fail, maps, flags, perRequest, Links,
     Events, Before, Speaking, Over
<1>13. ASSUME NEW r \in Requests, CurlExits(r) PROVE GenTyped'
  BY <1>0, <1>13, Zenon DEF GenTyped, CurlExits, Advance, Conclude, Fail, maps, flags, perRequest,
     Links, Events, Before, Speaking, Over
<1>14. ASSUME NEW r \in Requests, WaitChild(r) PROVE GenTyped'
  BY <1>0, <1>14, Zenon DEF GenTyped, WaitChild, Advance, Conclude, Fail, maps, flags, perRequest,
     Links, Events, Before, Speaking, Over
<1>15. ASSUME NEW r \in Requests, Flush(r) PROVE GenTyped'
  BY <1>0, <1>15, Zenon DEF GenTyped, Flush, Advance, Conclude, Fail, maps, flags, perRequest, Links,
     Events, Before, Speaking, Over
<1>16. ASSUME NEW r \in Requests, Leave(r) PROVE GenTyped'
  BY <1>0, <1>16, Zenon DEF GenTyped, Leave, Advance, Conclude, Fail, maps, flags, perRequest, Links,
     Events, Before, Speaking, Over
<1>17. ASSUME NEW r \in Requests, NEW line \in Lines, Body(r, line) PROVE GenTyped'
  BY <1>0, <1>17, Zenon DEF GenTyped, Body, Advance, Conclude, Fail, maps, flags, perRequest, Links,
     Events, Before, Speaking, Over
<1>. QED  BY <1>1, <1>2, <1>3, <1>4, <1>5, <1>6, <1>7, <1>8, <1>9, <1>10, <1>11, <1>12, <1>13,
   <1>14, <1>15, <1>16, <1>17, Zenon DEF GenerationNext
\* at most one token gets out after a request was told to stop or hold,
LEMMA ToldKept ==
  ASSUME NEW r \in Requests, GenTyped, Told(r), GenerationNext
  PROVE  Told(r)'
<1>1. /\ slack \in [Requests -> Nat] /\ step \in [Requests -> Before \cup Speaking \cup Over]
      /\ hold \in [Requests -> BOOLEAN] /\ stop \in [Requests -> BOOLEAN]
  BY Zenon DEF GenTyped
<1>2. /\ slack'[r] = 0
      /\ step' = step
      => Told(r)'
  BY <1>1 DEF Told
<1>3. /\ step'[r] # "emit" \/ step'[r] = step[r]
      /\ UNCHANGED <<hold, stop, slack>>
      => Told(r)'
  BY <1>1, Zenon DEF Told
<1>4. UNCHANGED <<hold, stop, slack, step>> => Told(r)'
  BY Zenon DEF Told
<1>5. ASSUME NEW i \in Ids, HandleCancel(i) PROVE Told(r)'
  BY <1>1, <1>2, <1>5, Zenon DEF HandleCancel, GenTyped, Told
<1>6. ASSUME NEW i \in Ids, NEW on \in BOOLEAN, HandlePause(i, on) PROVE Told(r)'
  <2>1. /\ paused[i] \in Requests \cup {None}
        /\ hold' = [hold EXCEPT ![paused[i]] = on] /\ slack' = [slack EXCEPT ![paused[i]] = 0]
        /\ UNCHANGED <<stop, step>>
    BY <1>6, Zenon DEF HandlePause, GenTyped
  <2>2. CASE paused[i] = r
    BY <1>1, <1>2, <2>1, <2>2, Zenon
  <2>3. CASE paused[i] # r
    BY <1>1, <2>1, <2>3, Zenon DEF Told
  <2>. QED  BY <2>2, <2>3, Zenon
<1>7. CASE HandleCut
  BY <1>4, <1>7, Zenon DEF HandleCut, flags, perRequest
<1>8. ASSUME NEW q \in Requests, HandleGenerate(q) \/ HandleAsk(q) \/ Answer(q) \/ Register(q) PROVE Told(r)'
  BY <1>1, <1>3, <1>8, Zenon DEF HandleGenerate, HandleAsk, Answer, Register, Advance, flags,
     perRequest
<1>9. ASSUME NEW q \in Requests, Start(q) PROVE Told(r)'
  BY <1>1, <1>3, <1>9, Zenon DEF Start, Fail, Advance, flags
<1>10. ASSUME NEW q \in Requests, Headers(q) PROVE Told(r)'
  BY <1>1, <1>3, <1>10, Zenon DEF Headers, Fail, Advance, flags
<1>11. ASSUME NEW q \in Requests, CurlExits(q) \/ Reap(q) \/ Leave(q) \/ Flush(q) PROVE Told(r)'
  BY <1>1, <1>3, <1>11, Zenon DEF CurlExits, Reap, Flush, Leave, Advance, flags, perRequest
<1>12. ASSUME NEW q \in Requests, WaitChild(q) PROVE Told(r)'
  BY <1>1, <1>3, <1>12, Zenon DEF WaitChild, Fail, Advance, flags
<1>13. ASSUME NEW q \in Requests, NEW line \in Lines, Body(q, line) PROVE Told(r)'
  <2>1. step'[r] # "emit" \/ step'[r] = step[r]
    BY <1>1, <1>13, Zenon DEF Body, Fail, Advance
  <2>2. UNCHANGED <<hold, stop, slack>>
    BY <1>13, Zenon DEF Body, Fail, flags
  <2>. QED  BY <1>3, <2>1, <2>2, Zenon
<1>14. ASSUME NEW q \in Requests, Check(q) PROVE Told(r)'
  <2>1. /\ UNCHANGED <<hold, stop, slack>> /\ (hold[q] => stop[q])
        /\ \/ ~ stop[q] /\ step' = [step EXCEPT ![q] = "emit"]
           \/ \E at \in {"flush", "reap"} : step' = [step EXCEPT ![q] = at]
    BY <1>14, Zenon DEF Check, Advance, flags
  <2>2. CASE q = r /\ step'[r] = "emit"
    BY <1>1, <2>1, <2>2, Zenon DEF Told
  <2>3. CASE q # r \/ step'[r] # "emit"
    BY <1>1, <1>3, <2>1, <2>3, Zenon
  <2>. QED  BY <2>2, <2>3, Zenon
<1>15. ASSUME NEW q \in Requests, Emit(q) PROVE Told(r)'
  <2>1. /\ UNCHANGED <<hold, stop>> /\ step[q] = "emit"
        /\ \E at \in {"flush", "held", "body"} : step' = [step EXCEPT ![q] = at]
        /\ \/ slack' = slack
           \/ slack' = [slack EXCEPT ![q] = slack[q]] /\ ~ (hold[q] \/ stop[q])
           \/ slack' = [slack EXCEPT ![q] = slack[q] + 1] /\ (hold[q] \/ stop[q])
    BY <1>15, Zenon DEF Emit, Advance, flags
  <2>2. CASE q # r
    BY <1>1, <2>1, <2>2, Zenon DEF Told
  <2>3. CASE q = r
    BY <1>1, <2>1, <2>3 DEF Told
  <2>. QED  BY <2>2, <2>3, Zenon
<1>. QED  BY <1>5, <1>6, <1>7, <1>8, <1>9, <1>10, <1>11, <1>12, <1>13, <1>14,
   <1>15, Zenon DEF GenerationNext
\* the maps hold entries of running requests only,
LEMMA EntriesKept ==
  ASSUME GenTyped, Entries, GenerationNext
  PROVE  Entries'
<1>1. /\ Ids' = Ids /\ None \notin Requests
      /\ \A r \in Requests : Id(r)' = Id(r) /\ Id(r) \in Ids
  BY NamesStay, GenerationAssumption, Zenon
<1>2. /\ step \in [Requests -> Before \cup Speaking \cup Over]
      /\ paused \in [Ids -> Requests \cup {None}] /\ cancelled \in [Ids -> Requests \cup {None}]
      /\ transport \in [Ids -> Requests \cup {None}]
  BY Zenon DEF GenTyped
<1>3. /\ UNCHANGED maps
      /\ \A r \in Requests : step[r] \notin {"none", "absent", "ask", "gone"}
                             => step'[r] \notin {"none", "absent", "ask", "gone"}
      => Entries'
  BY <1>1, Zenon DEF Entries, maps
<1>4. ASSUME NEW i \in Ids, HandleCancel(i) \/ HandlePause(i, TRUE) \/ HandlePause(i, FALSE) PROVE Entries'
  <2>1. UNCHANGED <<step, maps>>
    BY <1>4, Zenon DEF HandleCancel, HandlePause
  <2>. QED  BY <1>3, <2>1, Zenon
<1>5. CASE HandleCut
  BY <1>3, <1>5, Zenon DEF HandleCut
<1>6. ASSUME NEW q \in Requests, HandleGenerate(q) PROVE Entries'
  <2>1. /\ step' = [step EXCEPT ![q] = "start"] /\ transport' = transport
        /\ cancelled' = [cancelled EXCEPT ![Id(q)] = q]
        /\ paused' = paused \/ paused' = [paused EXCEPT ![Id(q)] = q]
    BY <1>6, Zenon DEF HandleGenerate, Advance
  <2>. QED  BY <1>1, <1>2, <2>1 DEF Entries
<1>7. ASSUME NEW q \in Requests, Register(q) PROVE Entries'
  <2>1. /\ \E at \in {"body", "headers"} : step' = [step EXCEPT ![q] = at]
        /\ UNCHANGED <<paused, cancelled>> /\ transport' = [transport EXCEPT ![Id(q)] = q]
    BY <1>7, Zenon DEF Register, Advance
  <2>. QED  BY <1>1, <1>2, <2>1 DEF Entries
<1>8. ASSUME NEW q \in Requests, Reap(q) PROVE Entries'
  <2>1. /\ \E at \in {"flush", "wait"} : step' = [step EXCEPT ![q] = at]
        /\ UNCHANGED <<paused, cancelled>> /\ transport' = [transport EXCEPT ![Id(q)] = None]
    BY <1>8, Zenon DEF Reap, Advance
  <2>. QED  BY <1>1, <1>2, <2>1 DEF Entries
<1>9. ASSUME NEW q \in Requests, Leave(q) PROVE Entries'
  <2>1. /\ step' = [step EXCEPT ![q] = "gone"]
        /\ paused' = [paused EXCEPT ![Id(q)] = None] /\ cancelled' = [cancelled EXCEPT ![Id(q)] = None]
        /\ transport' = [transport EXCEPT ![Id(q)] = None]
    BY <1>9, Zenon DEF Leave, Advance
  <2>. QED  BY <1>1, <1>2, <2>1 DEF Entries
<1>10. ASSUME NEW q \in Requests, Answer(q) PROVE Entries'
  <2>1. step[q] = "ask" /\ step' = [step EXCEPT ![q] = "gone"] /\ UNCHANGED maps
    BY <1>10, Zenon DEF Answer, Advance
  <2>. QED  BY <1>2, <1>3, <2>1, Zenon
<1>11. ASSUME NEW q \in Requests, HandleAsk(q) \/ Headers(q) \/ CurlExits(q) PROVE Entries'
  <2>1. /\ \/ step' = step \/ \E at \in {"leave", "body"} : step' = [step EXCEPT ![q] = at]
           \/ step[q] = "none" /\ step' = [step EXCEPT ![q] = "ask"]
        /\ UNCHANGED maps
    BY <1>11, Zenon DEF HandleAsk, Headers, Fail, CurlExits, Advance
  <2>. QED  BY <1>2, <1>3, <2>1, Zenon
<1>12. ASSUME NEW q \in Requests, Start(q) PROVE Entries'
  <2>1. /\ \E at \in {"leave", "register", "held"} : step' = [step EXCEPT ![q] = at] /\ UNCHANGED maps
    BY <1>12, Zenon DEF Start, Fail, Advance
  <2>. QED  BY <1>2, <1>3, <2>1, Zenon
<1>13. ASSUME NEW q \in Requests, Check(q) \/ Emit(q) PROVE Entries'
  <2>1. /\ \E at \in {"emit", "reap", "flush", "held", "body"} : step' = [step EXCEPT ![q] = at]
        /\ UNCHANGED maps
    BY <1>13, Zenon DEF Check, Emit, Advance
  <2>. QED  BY <1>2, <1>3, <2>1, Zenon
<1>14. ASSUME NEW q \in Requests, WaitChild(q) \/ Flush(q) PROVE Entries'
  <2>1. /\ \E at \in {"leave", "flush"} : step' = [step EXCEPT ![q] = at] /\ UNCHANGED maps
    BY <1>14, Zenon DEF WaitChild, Flush, Fail, Advance
  <2>. QED  BY <1>2, <1>3, <2>1, Zenon
<1>15. ASSUME NEW q \in Requests, NEW line \in Lines, Body(q, line) PROVE Entries'
  <2>1. /\ \E at \in {"leave", "held", "reap", "flush"} : step' = [step EXCEPT ![q] = at]
        /\ UNCHANGED maps
    BY <1>15, Zenon DEF Body, Fail, Advance
  <2>. QED  BY <1>2, <1>3, <2>1, Zenon
<1>. QED  BY <1>4, <1>5, <1>6, <1>7, <1>8, <1>9, <1>10, <1>11, <1>12, <1>13, <1>14, <1>15, Zenon
          DEF GenerationNext
\* a child is waited for once,
LEMMA ChildrenKept ==
  ASSUME GenTyped, Entries, Children, GenerationNext
  PROVE  Children'
<1>1. /\ Ids' = Ids /\ None \notin Requests
      /\ \A r \in Requests : Id(r) \in Ids
  BY NamesStay, GenerationAssumption, Zenon
<1>2. /\ step \in [Requests -> Before \cup Speaking \cup Over] /\ link \in [Requests -> Links]
      /\ transport \in [Ids -> Requests \cup {None}] /\ taken \in [Requests -> Requests \cup {None}]
  BY Zenon DEF GenTyped
<1>3. Living /\ InMap /\ Taken
  BY Zenon DEF Children
<1>4. UNCHANGED <<step, link, transport, taken>> => Children'
  BY <1>1, <1>3, Zenon DEF Children, Living, InMap, Taken
<1>x. ASSUME NEW q \in Requests, UNCHANGED <<transport, taken>>,
             \A r \in Requests : r # q => step'[r] = step[r],
             step'[q] \notin {"register", "wait"}, step'[q] \in Fresh => step[q] \in Unstarted,
             \A r \in Requests : link'[r] # link[r] => link'[r] = "closed" /\ step[r] \notin Unstarted
                                                       /\ step'[r] \notin Unstarted
      PROVE  Children'
  <2>1. Living'
    BY <1>3, <1>x, Zenon DEF Living, Fresh, Unstarted
  <2>2. \A r \in Requests : step'[r] \in Fresh => step[r] \in Fresh
    BY <1>x, Zenon DEF Fresh
  <2>3. InMap'
    BY <1>1, <1>3, <1>x, <2>2 DEF InMap
  <2>4. \A r \in Requests : step'[r] = "wait" => step[r] = "wait"
    BY <1>x, Zenon
  <2>5. Taken'
    BY <1>1, <1>3, <1>x, <2>2, <2>4, Zenon DEF Taken
  <2>. QED  BY <2>1, <2>3, <2>5, Zenon DEF Children
<1>5. ASSUME NEW i \in Ids, HandleCancel(i) \/ HandlePause(i, TRUE) \/ HandlePause(i, FALSE) PROVE Children'
  <2>1. UNCHANGED <<step, link, transport, taken>>
    BY <1>5, Zenon DEF HandleCancel, HandlePause, maps
  <2>. QED  BY <1>4, <2>1, Zenon
<1>6. CASE HandleCut
  <2>1. canceller \in Ids /\ UNCHANGED <<step, transport, taken>>
    BY <1>6, Zenon DEF HandleCut, GenTyped, maps
  <2>2. CASE transport[canceller] = None
    BY <1>4, <1>6, <2>1, <2>2, Zenon DEF HandleCut
  <2>3. CASE transport[canceller] # None
    <3>1. PICK c \in Requests : c = transport[canceller]
      BY <1>2, <2>1, <2>3, Zenon
    <3>2. link' = [link EXCEPT ![c] = Killed(link[c])]
      BY <1>6, <2>3, <3>1, Zenon DEF HandleCut
    <3>3. link[c] # "reaped" /\ step[c] \notin Fresh
      BY <1>3, <2>1, <3>1, Zenon DEF InMap
    <3>4. Killed(link[c]) \notin {"reaped", "killed reaped"}
      <4>1. link[c] # "killed reaped"
        BY <1>3, Zenon DEF Living
      <4>. QED  BY <3>3, <4>1, Zenon DEF Killed
    <3>5. Living'
      BY <1>2, <1>3, <2>1, <3>2, <3>3, <3>4, Zenon DEF Living, Fresh
    <3>6. InMap'
      BY <1>1, <1>2, <1>3, <2>1, <3>2, <3>4, Zenon DEF InMap
    <3>7. Taken'
      BY <1>1, <1>3, <2>1, Zenon DEF Taken
    <3>. QED  BY <3>5, <3>6, <3>7, Zenon DEF Children
  <2>. QED  BY <2>2, <2>3, Zenon
<1>7. ASSUME NEW q \in Requests, HandleGenerate(q) \/ HandleAsk(q) \/ Answer(q) PROVE Children'
  <2>1. /\ \E at \in {"start", "ask", "gone"} : step' = [step EXCEPT ![q] = at]
        /\ step[q] \in Unstarted /\ UNCHANGED <<link, transport, taken>>
    BY <1>7, Zenon DEF HandleGenerate, HandleAsk, Answer, Advance, maps, Unstarted
  <2>. QED  BY <1>2, <1>x, <2>1, Zenon
<1>8. ASSUME NEW q \in Requests, Start(q) PROVE Children'
  <2>1. /\ step[q] = "start" /\ UNCHANGED <<transport, taken>>
        /\ \/ link' = link /\ \E at \in {"leave", "held"} : step' = [step EXCEPT ![q] = at]
           \/ link' = [link EXCEPT ![q] = "up"] /\ step' = [step EXCEPT ![q] = "register"]
    BY <1>8, Zenon DEF Start, Fail, Advance, maps
  <2>2. CASE link' = link /\ \E at \in {"leave", "held"} : step' = [step EXCEPT ![q] = at]
    BY <1>2, <1>x, <2>1, <2>2, Zenon DEF Unstarted
  <2>3. CASE link' = [link EXCEPT ![q] = "up"] /\ step' = [step EXCEPT ![q] = "register"]
    <3>1. /\ \A r \in Requests : r # q => link'[r] = link[r] /\ step'[r] = step[r]
          /\ link'[q] = "up" /\ step'[q] = "register" /\ step[q] \in Unstarted
      BY <1>2, <2>1, <2>3, Zenon DEF Unstarted
    <3>2. Living'
      BY <1>3, <3>1, Zenon DEF Living, Unstarted
    <3>3. InMap'
      BY <1>1, <1>3, <2>1, <3>1 DEF InMap, Fresh
    <3>4. Taken'
      BY <1>1, <1>3, <2>1, <3>1, Zenon DEF Taken, Fresh
    <3>. QED  BY <3>2, <3>3, <3>4, Zenon DEF Children
  <2>. QED  BY <2>1, <2>2, <2>3, Zenon
<1>9. ASSUME NEW q \in Requests, Register(q) PROVE Children'
  <2>1. /\ step[q] = "register" /\ \E at \in {"body", "headers"} : step' = [step EXCEPT ![q] = at]
        /\ UNCHANGED <<link, taken>> /\ transport' = [transport EXCEPT ![Id(q)] = q]
    BY <1>9, Zenon DEF Register, Advance
  <2>2. /\ \A i \in Ids : transport'[i] = transport[i] \/ transport'[i] = q
        /\ \A r \in Requests : r # q => step'[r] = step[r]
        /\ step'[q] \notin Fresh /\ step'[q] # "wait" /\ step[q] \in Fresh
    BY <1>1, <1>2, <2>1, Zenon DEF Fresh, Unstarted
  <2>3. Living'
    BY <1>3, <2>1, <2>2, Zenon DEF Living, Fresh
  <2>4. InMap'
    <3>1. link[q] # "reaped"
      BY <1>3, <2>1, Zenon DEF Living
    <3>. QED  BY <1>1, <1>3, <2>1, <2>2, <3>1 DEF InMap
  <2>5. Taken'
    BY <1>1, <1>3, <2>1, <2>2 DEF Taken
  <2>. QED  BY <2>3, <2>4, <2>5, Zenon DEF Children
<1>10. ASSUME NEW q \in Requests, Reap(q) PROVE Children'
  <2>1. /\ step[q] = "reap" /\ taken' = [taken EXCEPT ![q] = transport[Id(q)]] /\ link' = link
        /\ transport' = [transport EXCEPT ![Id(q)] = None]
        /\ \/ transport[Id(q)] = None /\ step' = [step EXCEPT ![q] = "flush"]
           \/ transport[Id(q)] # None /\ step' = [step EXCEPT ![q] = "wait"]
    BY <1>10, Zenon DEF Reap, Advance
  <2>2. \A i \in Ids : transport[i] \in Requests /\ transport[i] = transport[Id(q)] => i = Id(q)
    BY <1>1 DEF Entries
  <2>3. /\ \A i \in Ids : i # Id(q) => transport'[i] = transport[i]
        /\ \A r \in Requests : r # q => step'[r] = step[r] /\ taken'[r] = taken[r]
        /\ transport'[Id(q)] = None /\ taken'[q] = transport[Id(q)]
        /\ step'[q] \notin Fresh /\ step[q] \notin Fresh
        /\ step'[q] = "wait" => transport[Id(q)] \in Requests
    BY <1>1, <1>2, <2>1, Zenon DEF Fresh, Unstarted
  <2>4. Living'
    BY <1>3, <2>1, <2>3, Zenon DEF Living, Fresh
  <2>5. \A i \in Ids : transport'[i] \in {transport[i], None}
    BY <2>3, Zenon
  <2>6. InMap'
    BY <1>1, <1>3, <2>1, <2>3, <2>5 DEF InMap
  <2>7. Taken'
    <3>1. SUFFICES ASSUME NEW r \in Requests, step'[r] = "wait"
                   PROVE  /\ taken'[r] \in Requests /\ step'[taken'[r]] \notin Fresh
                          /\ \A i \in Ids : transport'[i] # taken'[r]
      BY <1>1, Zenon DEF Taken
    <3>2. CASE r = q
      <4>1. taken'[r] \in Requests /\ taken'[r] = transport[Id(q)]
        BY <2>3, <3>1, <3>2, Zenon
      <4>2. step[taken'[r]] \notin Fresh
        BY <1>1, <1>3, <4>1, Zenon DEF InMap
      <4>3. \A i \in Ids : transport'[i] # taken'[r]
        BY <1>1, <2>2, <2>3, <4>1, Zenon
      <4>. QED  BY <2>3, <4>1, <4>2, <4>3, Zenon
    <3>3. CASE r # q
      <4>1. /\ taken'[r] \in Requests /\ step[taken'[r]] \notin Fresh
            /\ \A i \in Ids : transport[i] # taken'[r]
        BY <1>3, <2>3, <3>1, <3>3 DEF Taken
      <4>. QED  BY <1>1, <2>3, <2>5, <4>1, Zenon
    <3>. QED  BY <3>2, <3>3, Zenon
  <2>. QED  BY <2>4, <2>6, <2>7, Zenon DEF Children
<1>11. ASSUME NEW q \in Requests, WaitChild(q) PROVE Children'
  <2>1. /\ step[q] = "wait" /\ UNCHANGED <<transport, taken>>
        /\ link' = [link EXCEPT ![taken[q]] = "reaped"]
        /\ \E at \in {"leave", "flush"} : step' = [step EXCEPT ![q] = at]
    BY <1>11, Zenon DEF WaitChild, Fail, Advance, maps
  <2>2. PICK c \in Requests : c = taken[q]
    BY <1>3, <2>1, Zenon DEF Taken
  <2>3. (\A i \in Ids : transport[i] # c) /\ step[c] \notin Fresh
    BY <1>3, <2>1, <2>2, Zenon DEF Taken
  <2>4. /\ \A r \in Requests : r # c => link'[r] = link[r]
        /\ \A r \in Requests : r # q => step'[r] = step[r]
        /\ link'[c] = "reaped" /\ step'[q] \notin Fresh /\ step[q] \notin Fresh /\ step'[q] # "wait"
    BY <1>2, <2>1, <2>2, Zenon DEF Fresh, Unstarted
  <2>5. Living'
    BY <1>3, <2>3, <2>4, Zenon DEF Living, Fresh
  <2>6. InMap'
    BY <1>1, <1>3, <2>1, <2>3, <2>4 DEF InMap
  <2>7. Taken'
    BY <1>1, <1>3, <2>1, <2>3, <2>4 DEF Taken
  <2>. QED  BY <2>5, <2>6, <2>7, Zenon DEF Children
<1>12. ASSUME NEW q \in Requests, CurlExits(q) PROVE Children'
  <2>1. link[q] = "up" /\ link' = [link EXCEPT ![q] = "closed"] /\ UNCHANGED <<step, transport, taken>>
    BY <1>12, Zenon DEF CurlExits, maps
  <2>2. /\ \A r \in Requests : r # q => link'[r] = link[r]
        /\ link'[q] = "closed"
    BY <1>2, <2>1, Zenon
  <2>. QED  BY <1>1, <1>3, <2>1, <2>2 DEF Children, Living, InMap, Taken
<1>13. ASSUME NEW q \in Requests, Leave(q) PROVE Children'
  <2>1. /\ step[q] = "leave" /\ step' = [step EXCEPT ![q] = "gone"]
        /\ transport' = [transport EXCEPT ![Id(q)] = None] /\ UNCHANGED <<link, taken>>
    BY <1>13, Zenon DEF Leave, Advance
  <2>2. /\ \A i \in Ids : transport'[i] \in {transport[i], None}
        /\ \A r \in Requests : r # q => step'[r] = step[r]
        /\ step'[q] \notin Fresh /\ step[q] \notin Fresh /\ step'[q] # "wait"
    BY <1>1, <1>2, <2>1, Zenon DEF Fresh, Unstarted
  <2>3. Living'
    BY <1>3, <2>1, <2>2, Zenon DEF Living, Fresh
  <2>4. InMap'
    BY <1>1, <1>3, <2>1, <2>2 DEF InMap
  <2>5. Taken'
    BY <1>1, <1>3, <2>1, <2>2 DEF Taken
  <2>. QED  BY <2>3, <2>4, <2>5, Zenon DEF Children
<1>14. ASSUME NEW q \in Requests, Headers(q) \/ Check(q) \/ Emit(q) \/ Flush(q) PROVE Children'
  <2>1. /\ \E at \in {"leave", "body", "emit", "reap", "flush", "held"} : step' = [step EXCEPT ![q] = at]
        /\ UNCHANGED <<link, transport, taken>>
    BY <1>14, Zenon DEF Headers, Fail, Check, Emit, Flush, Advance, maps
  <2>. QED  BY <1>2, <1>x, <2>1, Zenon DEF Fresh, Unstarted
<1>15. ASSUME NEW q \in Requests, NEW line \in Lines, Body(q, line) PROVE Children'
  <2>1. /\ \E at \in {"leave", "held", "reap", "flush"} : step' = [step EXCEPT ![q] = at]
        /\ step[q] = "body" /\ UNCHANGED <<transport, taken>>
        /\ link' = link \/ (link[q] = "up" /\ link' = [link EXCEPT ![q] = "closed"])
    BY <1>15, Zenon DEF Body, Fail, Advance, maps
  <2>2. /\ \A r \in Requests : link'[r] = link[r] \/ (r = q /\ link'[r] = "closed")
        /\ \A r \in Requests : r # q => step'[r] = step[r]
        /\ step'[q] \in {"leave", "held", "reap", "flush"}
    BY <1>2, <2>1, Zenon
  <2>. QED  BY <1>x, <2>1, <2>2, Zenon DEF Fresh, Unstarted
<1>. QED  BY <1>5, <1>6, <1>7, <1>8, <1>9, <1>10, <1>11, <1>12, <1>13, <1>14, <1>15, Zenon
          DEF GenerationNext
\* by the thread that started it,
LEMMA OwnChildKept ==
  ASSUME GenTyped, Entries, Children, OwnChild, GenerationNext
  PROVE  OwnChild'
<1>. SUFFICES ASSUME program = "remote" PROVE OwnChild'
  BY NamesStay, Zenon DEF OwnChild
<1>1. /\ remote /\ program' = "remote" /\ Ids = Requests /\ None \notin Requests
      /\ \A r \in Requests : Id(r) = r
  BY NamesStay, GenerationAssumption, Zenon DEF remote, Ids, Id
<1>2. /\ step \in [Requests -> Before \cup Speaking \cup Over] /\ link \in [Requests -> Links]
      /\ transport \in [Requests -> Requests \cup {None}] /\ taken \in [Requests -> Requests \cup {None}]
      /\ unread \in [Requests -> BOOLEAN]
  BY <1>1, Zenon DEF GenTyped
<1>3. \A r \in Requests : Owned(r)
  BY Zenon DEF OwnChild
<1>4. ASSUME NEW q \in Requests, Owned(q)',
             \A r \in Requests : r # q => /\ step'[r] = step[r] /\ unread'[r] = unread[r]
                                          /\ taken'[r] = taken[r] /\ transport'[r] = transport[r]
                                          /\ link'[r] = link[r]
      PROVE  OwnChild'
  <2>1. \A r \in Requests : r # q => Owned(r)'
    BY <1>3, <1>4 DEF Owned
  <2>. QED  BY <1>4, <2>1, Zenon DEF OwnChild
<1>u. UNCHANGED <<step, link, unread, transport, taken>> => OwnChild'
  BY <1>3, Zenon DEF OwnChild, Owned
<1>5. ASSUME NEW i \in Ids, HandleCancel(i) \/ HandlePause(i, TRUE) \/ HandlePause(i, FALSE) PROVE OwnChild'
  <2>1. UNCHANGED <<step, link, unread, transport, taken>>
    BY <1>5, Zenon DEF HandleCancel, HandlePause, maps
  <2>. QED  BY <1>u, <2>1, Zenon
<1>l. ASSUME NEW c \in Requests, UNCHANGED <<step, unread, transport, taken>>,
             \A r \in Requests : r # c => link'[r] = link[r],
             link[c] \notin {"none", "reaped"}
      PROVE  OwnChild'
  BY <1>3, <1>l, Zenon DEF OwnChild, Owned
<1>6. CASE HandleCut
  <2>1. canceller \in Ids /\ UNCHANGED <<step, unread, transport, taken>>
    BY <1>6, Zenon DEF HandleCut, GenTyped, maps, perRequest
  <2>2. CASE transport[canceller] = None
    BY <1>u, <1>6, <2>1, <2>2, Zenon DEF HandleCut
  <2>3. CASE transport[canceller] # None
    <3>1. PICK c \in Requests : c = transport[canceller]
      BY <1>1, <1>2, <2>1, <2>3, Zenon
    <3>2. link' = [link EXCEPT ![c] = Killed(link[c])]
      BY <1>6, <2>3, <3>1, Zenon DEF HandleCut
    <3>3. link[c] # "reaped"
      BY <2>1, <3>1, Zenon DEF Children, InMap
    <3>4. CASE link[c] = "none"
      <4>1. link' = link
        BY <1>2, <3>1, <3>2, <3>4, Zenon DEF Killed
      <4>. QED  BY <1>u, <2>1, <4>1, Zenon
    <3>5. CASE link[c] # "none"
      BY <1>2, <1>l, <2>1, <3>1, <3>2, <3>3, <3>5, Zenon
    <3>. QED  BY <3>4, <3>5, Zenon
  <2>. QED  BY <2>2, <2>3, Zenon
<1>7. ASSUME NEW q \in Requests, HandleGenerate(q) \/ HandleAsk(q) \/ Answer(q) PROVE OwnChild'
  <2>1. /\ \E at \in {"start", "ask", "gone"} : step' = [step EXCEPT ![q] = at]
        /\ step[q] \in Unstarted /\ UNCHANGED <<link, unread, transport, taken>>
    BY <1>7, Zenon DEF HandleGenerate, HandleAsk, Answer, Advance, maps, perRequest, Unstarted
  <2>2. link[q] = "none" /\ step'[q] \in {"start", "ask", "gone"}
    BY <1>2, <2>1, Zenon DEF Children, Living
  <2>3. Owned(q)'
    BY <2>1, <2>2, Zenon DEF Owned, Over
  <2>. QED  BY <1>2, <1>4, <2>1, <2>3, Zenon
<1>8. ASSUME NEW q \in Requests, Start(q) PROVE OwnChild'
  <2>1. /\ step[q] = "start" /\ UNCHANGED <<unread, transport, taken>>
        /\ \/ link' = link /\ step' = [step EXCEPT ![q] = "leave"]
           \/ link' = [link EXCEPT ![q] = "up"] /\ step' = [step EXCEPT ![q] = "register"]
    BY <1>1, <1>8, Zenon DEF Start, Fail, Advance, maps
  <2>2. link[q] = "none"
    BY <1>2, <2>1, Zenon DEF Children, Living, Unstarted
  <2>3. Owned(q)'
    BY <1>2, <2>1, <2>2, Zenon DEF Owned, Over
  <2>. QED  BY <1>2, <1>4, <2>1, <2>3, Zenon
<1>9. ASSUME NEW q \in Requests, Register(q) PROVE OwnChild'
  <2>1. /\ step[q] = "register" /\ step' = [step EXCEPT ![q] = "body"]
        /\ UNCHANGED <<link, unread, taken>> /\ transport' = [transport EXCEPT ![q] = q]
    BY <1>1, <1>9, Zenon DEF Register, Advance, perRequest
  <2>2. Owned(q)'
    BY <1>2, <2>1, Zenon DEF Owned, Over
  <2>. QED  BY <1>2, <1>4, <2>1, <2>2, Zenon
<1>10. ASSUME NEW q \in Requests, Reap(q) PROVE OwnChild'
  <2>1. /\ step[q] = "reap" /\ taken' = [taken EXCEPT ![q] = transport[q]] /\ UNCHANGED <<link, unread>>
        /\ transport' = [transport EXCEPT ![q] = None]
        /\ \/ transport[q] = None
           \/ step' = [step EXCEPT ![q] = "wait"]
    BY <1>1, <1>10, Zenon DEF Reap, Advance, perRequest
  <2>2. transport[q] = q
    BY <1>3, <2>1, Zenon DEF Owned
  <2>3. step' = [step EXCEPT ![q] = "wait"] /\ taken'[q] = q
    BY <1>1, <1>2, <2>1, <2>2, Zenon
  <2>4. Owned(q)'
    BY <1>2, <2>3, Zenon DEF Owned, Over
  <2>. QED  BY <1>2, <1>4, <2>1, <2>3, <2>4, Zenon
<1>11. ASSUME NEW q \in Requests, WaitChild(q) PROVE OwnChild'
  <2>1. /\ step[q] = "wait" /\ UNCHANGED <<unread, transport, taken>>
        /\ link' = [link EXCEPT ![taken[q]] = "reaped"]
        /\ \E at \in {"leave", "flush"} : step' = [step EXCEPT ![q] = at]
    BY <1>11, Zenon DEF WaitChild, Fail, Advance, maps
  <2>2. taken[q] = q
    BY <1>3, <2>1, Zenon DEF Owned
  <2>3. link'[q] = "reaped" /\ step'[q] \in {"leave", "flush"}
    BY <1>2, <2>1, <2>2, Zenon
  <2>4. Owned(q)'
    BY <2>3, Zenon DEF Owned, Over
  <2>. QED  BY <1>2, <1>4, <2>1, <2>2, <2>4, Zenon
<1>12. ASSUME NEW q \in Requests, CurlExits(q) PROVE OwnChild'
  <2>1. /\ link[q] = "up" /\ link' = [link EXCEPT ![q] = "closed"]
        /\ UNCHANGED <<step, unread, transport, taken>>
    BY <1>12, Zenon DEF CurlExits, maps, perRequest
  <2>. QED  BY <1>2, <1>l, <2>1, Zenon
<1>13. ASSUME NEW q \in Requests, Leave(q) PROVE OwnChild'
  <2>1. /\ step[q] = "leave" /\ step' = [step EXCEPT ![q] = "gone"]
        /\ transport' = [transport EXCEPT ![q] = None] /\ UNCHANGED <<link, unread, taken>>
    BY <1>1, <1>13, Zenon DEF Leave, Advance, perRequest
  <2>2. Owned(q)'
    BY <1>2, <1>3, <2>1, Zenon DEF Owned, Over
  <2>. QED  BY <1>2, <1>4, <2>1, <2>2, Zenon
<1>14. ASSUME NEW q \in Requests, Headers(q) \/ Flush(q) PROVE OwnChild'
  <2>1. step[q] # "headers"
    BY <1>3, Zenon DEF Owned
  <2>2. /\ step[q] = "flush" /\ step' = [step EXCEPT ![q] = "leave"]
        /\ UNCHANGED <<link, unread, transport, taken>>
    BY <1>14, <2>1, Zenon DEF Headers, Flush, Advance, maps
  <2>3. Owned(q)'
    BY <1>2, <1>3, <2>2, Zenon DEF Owned, Over
  <2>. QED  BY <1>2, <1>4, <2>2, <2>3, Zenon
<1>15. ASSUME NEW q \in Requests, Check(q) \/ Emit(q) PROVE OwnChild'
  <2>1. /\ step[q] \in {"held", "emit"} /\ UNCHANGED <<link, unread, transport, taken>>
        /\ \E at \in {"emit", "reap", "body"} : step' = [step EXCEPT ![q] = at]
    BY <1>1, <1>15, Zenon DEF Check, Emit, Advance, maps
  <2>2. Owned(q)'
    BY <1>2, <1>3, <2>1, Zenon DEF Owned, Over
  <2>. QED  BY <1>2, <1>4, <2>1, <2>2, Zenon
<1>16. ASSUME NEW q \in Requests, NEW line \in Lines, Body(q, line) PROVE OwnChild'
  <2>1. /\ step[q] = "body" /\ UNCHANGED <<transport, taken>>
        /\ link' = link \/ link' = [link EXCEPT ![q] = "closed"]
    BY <1>16, Zenon DEF Body, maps
  <2>2. \/ \E at \in {"held", "reap"} : step' = [step EXCEPT ![q] = at]
        \/ step' = [step EXCEPT ![q] = "leave"] /\ line = "unreadable"
    BY <1>1, <1>16, Zenon DEF Body, Fail, Advance
  <2>3. unread' = [unread EXCEPT ![q] = (line = "unreadable")]
    BY <1>16, Zenon DEF Body
  <2>4. Owned(q)'
    BY <1>2, <1>3, <2>1, <2>2, <2>3, Zenon DEF Owned, Over
  <2>5. \A r \in Requests : r # q => unread'[r] = unread[r]
    BY <1>2, <2>3, Zenon
  <2>6. \A r \in Requests : r # q => /\ step'[r] = step[r] /\ taken'[r] = taken[r] /\ transport'[r] = transport[r]
                                      /\ link'[r] = link[r]
    BY <1>2, <2>1, <2>2, Zenon
  <2>. QED  BY <1>4, <2>4, <2>5, <2>6, Zenon
<1>. QED  BY <1>5, <1>6, <1>7, <1>8, <1>9, <1>10, <1>11, <1>12, <1>13, <1>14, <1>15, <1>16, Zenon
          DEF GenerationNext
\* and what was sent is a sequence of events.
LEMMA SentKept ==
  ASSUME GenTyped, SentTyped, GenerationNext
  PROVE  SentTyped'
<1>1. \A r \in Requests, e \in Seq(Events) : Send(r, e) => SentTyped'
  <2>. SUFFICES ASSUME NEW r \in Requests, NEW e \in Seq(Events), Send(r, e) PROVE SentTyped'
    BY Zenon
  <2>1. sent[r] \o e \in Seq(Events)
    BY SeqConcat, Zenon DEF SentTyped
  <2>. QED  BY <2>1, Zenon DEF Send, SentTyped
<1>2. {<<"error">>, <<"token">>, <<"calls", "done">>, <<"value", "done">>} \subseteq Seq(Events)
  BY DEF Events
<1>3. sent' = sent => SentTyped'
  BY Zenon DEF SentTyped
<1>4. \A i : HandleCancel(i) \/ HandlePause(i, TRUE) \/ HandlePause(i, FALSE) \/ HandleCut => sent' = sent
  BY Zenon DEF HandleCancel, HandlePause, HandleCut, perRequest
<1>5. \A r : HandleGenerate(r) \/ HandleAsk(r) \/ Register(r) \/ Check(r) \/ Reap(r) \/ CurlExits(r)
              \/ Leave(r) => sent' = sent
  BY Zenon DEF HandleGenerate, HandleAsk, Register, Check, Reap, CurlExits, Leave, perRequest
<1>6. ASSUME NEW r \in Requests, Answer(r) \/ Start(r) \/ Headers(r) \/ Emit(r) \/ WaitChild(r)
      PROVE  SentTyped'
  <2>1. \/ sent' = sent
        \/ \E e \in {<<"error">>, <<"token">>, <<"calls", "done">>, <<"value", "done">>} : Send(r, e)
    BY <1>6, Zenon DEF Answer, Start, Headers, Emit, WaitChild, Fail
  <2>. QED  BY <1>1, <1>2, <1>3, <2>1, Zenon
<1>7. ASSUME NEW r \in Requests, NEW line \in Lines, Body(r, line) PROVE SentTyped'
  <2>1. sent' = sent \/ Send(r, <<"error">>)
    BY <1>7, Zenon DEF Body, Fail
  <2>. QED  BY <1>1, <1>2, <1>3, <2>1, Zenon
<1>8. ASSUME NEW r \in Requests, Flush(r) PROVE SentTyped'
  <2>1. PICK k \in Nat : Send(r, <<"calls", "done">>) \/ Send(r, [i \in 1..k |-> "token"] \o <<"done">>)
    <3>1. text \in [Requests -> Nat]
      BY Zenon DEF GenTyped
    <3>. QED  BY <1>8, <3>1, Zenon DEF Flush
  <2>2. [i \in 1..k |-> "token"] \o <<"done">> \in Seq(Events)
    <3>1. [i \in 1..k |-> "token"] \in Seq(Events) /\ <<"done">> \in Seq(Events)
      BY DEF Events
    <3>. QED  BY <3>1, SeqConcat, Zenon
  <2>. QED  BY <1>1, <1>2, <2>1, <2>2, Zenon
<1>. QED  BY <1>3, <1>4, <1>5, <1>6, <1>7, <1>8, Zenon DEF GenerationNext

\* Appending the closing events to a stream of tokens ends it.
LEMMA EndsIn ==
  ASSUME NEW s \in Seq(Events), NEW v \in Seq(Events), Len(v) >= 1,
         \A i \in 1..Len(s) : s[i] = "token",
         v[Len(v)] \in {"done", "error"}, \A i \in 1..(Len(v) - 1) : v[i] \notin {"done", "error"}
  PROVE  /\ Len(s \o v) = Len(s) + Len(v) /\ (s \o v)[Len(s) + Len(v)] = v[Len(v)] /\ Ended(s \o v)
         /\ (\A i \in 1..(Len(v) - 1) : v[i] = "token") =>
              \A i \in 1..(Len(s) + Len(v) - 1) : (s \o v)[i] = "token"
<1>. DEFINE t == s \o v
            n == Len(s)
            k == Len(v)
<1>1. n \in Nat /\ k \in Nat
  BY SeqLen, Zenon
<1>2. /\ Len(t) = n + k /\ \A i \in 1..(n + k) : t[i] = IF i <= n THEN s[i] ELSE v[i - n]
  BY SeqConcat
<1>. HIDE DEF t
<1>3. t[n + k] = v[k]
  <2>1. n + k \in 1..(n + k) /\ ~ (n + k <= n) /\ (n + k) - n = k
    BY <1>1
  <2>. QED  BY <1>2, <2>1, Zenon
<1>4. \A i \in 1..(n + k - 1) : t[i] = "token" \/ (i - n \in 1..(k - 1) /\ t[i] = v[i - n])
  <2>. TAKE i \in 1..(n + k - 1)
  <2>1. i \in 1..(n + k) /\ (i <= n => i \in 1..n) /\ (~ (i <= n) => i - n \in 1..(k - 1))
    BY <1>1
  <2>. QED  BY <1>2, <2>1, Zenon
<1>5. Ended(t)
  BY <1>1, <1>2, <1>3, <1>4 DEF Ended
<1>. QED  BY <1>2, <1>3, <1>4, <1>5, Zenon DEF t
\* The stream is tokens until its closing events, as many as were generated.
LEMMA SpeechKept ==
  ASSUME NEW r \in Requests, GenTyped, SentTyped, Speech(r), GenerationNext
  PROVE  Speech(r)'
<1>1. /\ step \in [Requests -> Before \cup Speaking \cup Over] /\ text \in [Requests -> Nat]
      /\ asked_for \in [Requests -> Nat] /\ program \in {"llamacpp", "remote", "remote again", "mock"}
      /\ reason \in [Requests -> {"stop", "cancelled", "tool_call"}]
      /\ sent \in [Requests -> Seq(Events)]
  BY Zenon DEF GenTyped, SentTyped
<1>2. program' = program /\ (remote' <=> remote)
  BY NamesStay, Zenon
<1>3. /\ step'[r] = step[r] /\ sent'[r] = sent[r] /\ text'[r] = text[r]
      /\ asked_for'[r] = asked_for[r] /\ reason'[r] = reason[r]
      => Speech(r)'
  BY <1>2, Zenon DEF Speech
\* Nothing is said and the thread goes on.
<1>4. /\ sent' = sent /\ text' = text /\ asked_for' = asked_for
      /\ \/ step[r] \in Before /\ step'[r] \in Before
         \/ step[r] \in Speaking /\ step'[r] \in Speaking
         \/ step[r] \in Before /\ step'[r] \in Speaking /\ (program = "mock" => r \notin WithTools)
         \/ step[r] \in Over /\ step'[r] \in Over /\ reason' = reason
      /\ step'[r] \in {"register", "headers"} => program # "mock"
      => Speech(r)'
  <2>1. \A at : /\ at \in Before => at \notin Speaking \cup Over
                /\ at \in Speaking => at \notin Before \cup Over
                /\ at \in Over => at \notin Before \cup Speaking
    BY Zenon DEF Before, Speaking, Over
  <2>2. Len(<< >>) = 0
    BY Zenon
  <2>3. \A at : at \in {"register", "headers"} => at \in Before
    BY Zenon DEF Before
  <2>. SUFFICES ASSUME sent' = sent, text' = text, asked_for' = asked_for,
                       step'[r] \in {"register", "headers"} => program # "mock"
                PROVE  /\ step[r] \in Before /\ step'[r] \in Before => Speech(r)'
                       /\ step[r] \in Speaking /\ step'[r] \in Speaking => Speech(r)'
                       /\ /\ step[r] \in Before /\ step'[r] \in Speaking
                          /\ program = "mock" => r \notin WithTools
                          => Speech(r)'
                       /\ step[r] \in Over /\ step'[r] \in Over /\ reason' = reason => Speech(r)'
    BY Zenon
  <2>4. step[r] \in Before /\ step'[r] \in Before => Speech(r)'
    BY <1>2, <2>1, Zenon DEF Speech
  <2>5. step[r] \in Speaking /\ step'[r] \in Speaking => Speech(r)'
    BY <1>2, <2>1, <2>3, Zenon DEF Speech
  <2>6. /\ step[r] \in Before /\ step'[r] \in Speaking
        /\ program = "mock" => r \notin WithTools
        => Speech(r)'
    BY <1>2, <2>1, <2>2, <2>3 DEF Speech
  <2>7. step[r] \in Over /\ step'[r] \in Over /\ reason' = reason => Speech(r)'
    BY <1>2, <2>1, <2>3, Zenon DEF Speech
  <2>. QED  BY <2>4, <2>5, <2>6, <2>7, Zenon
<1>5. ASSUME NEW i \in Ids, HandleCancel(i) \/ HandlePause(i, TRUE) \/ HandlePause(i, FALSE) PROVE Speech(r)'
  <2>1. UNCHANGED <<step, sent, text, asked_for, reason>>
    BY <1>5, Zenon DEF HandleCancel, HandlePause
  <2>. QED  BY <1>3, <2>1, Zenon
<1>6. CASE HandleCut
  BY <1>3, <1>6, Zenon DEF HandleCut, perRequest
\* The thread ends: v is what it says last.
<1>7. ASSUME NEW v \in Seq(Events), Send(r, v), step'[r] = "leave" \/ step'[r] = "gone",
             step[r] \in Before \cup Speaking, text' = text,
             Len(v) >= 1, v[Len(v)] \in {"done", "error"},
             \A i \in 1..(Len(v) - 1) : v[i] \notin {"done", "error"},
             \/ v[Len(v)] = "error" \/ reason'[r] = "tool_call" \/ (v[1] = "value" /\ step[r] \in Before)
             \/ /\ step[r] \in Speaking
                /\ \A i \in 1..(Len(v) - 1) : v[i] = "token"
                /\ r \in WithTools => remote \/ Len(v) - 1 = text[r]
                /\ r \notin WithTools => Len(v) = 1
      PROVE  Speech(r)'
  <2>. DEFINE n == Len(sent[r])
              k == Len(v)
              t == sent'[r]
  <2>1. /\ sent[r] \in Seq(Events) /\ t = sent[r] \o v
    BY <1>1, <1>7, Zenon DEF Send
  <2>2. n \in Nat /\ k \in Nat
    BY <2>1, SeqLen, Zenon
  <2>3. /\ \A i \in 1..n : sent[r][i] = "token"
        /\ step[r] \in Before => sent[r] = << >> /\ n = 0
        /\ step[r] \in Speaking => n = IF r \in WithTools THEN 0 ELSE text[r]
    <3>1. CASE step[r] \in Before
      BY <3>1 DEF Speech, Before, Speaking
    <3>2. CASE step[r] \in Speaking
      BY <3>2, Zenon DEF Speech, Before, Speaking
    <3>. QED  BY <1>7, <3>1, <3>2, Zenon
  <2>4. /\ Len(t) = n + k /\ t[n + k] = v[k] /\ Ended(t)
        /\ (\A i \in 1..(k - 1) : v[i] = "token") => \A i \in 1..(n + k - 1) : t[i] = "token"
    <3>1. /\ Len(sent[r] \o v) = n + k /\ (sent[r] \o v)[n + k] = v[k] /\ Ended(sent[r] \o v)
          /\ (\A i \in 1..(k - 1) : v[i] = "token") =>
               \A i \in 1..(n + k - 1) : (sent[r] \o v)[i] = "token"
      BY <1>7, <2>1, <2>3, EndsIn, Zenon
    <3>. QED  BY <2>1, <3>1, Zenon
  <2>5. step[r] \in Before => t[1] = v[1]
    BY <2>1, <2>3, SeqConcatEmpty, Zenon
  <2>6. step'[r] \notin Before \cup Speaking
    BY <1>7, Zenon DEF Before, Speaking
  <2>8. step'[r] \notin {"register", "headers"}
    BY <1>7, Zenon
  <2>. HIDE DEF n, k, t
  <2>7. /\ t[Len(t)] = "done" /\ t[1] # "value" /\ reason'[r] # "tool_call" /\ ~ (remote /\ r \in WithTools)
        => (\A i \in 1..(Len(t) - 1) : t[i] = "token") /\ Len(t) = text[r] + 1
    <3>. SUFFICES ASSUME t[Len(t)] = "done", t[1] # "value", reason'[r] # "tool_call",
                         ~ (remote /\ r \in WithTools)
                  PROVE  (\A i \in 1..(Len(t) - 1) : t[i] = "token") /\ Len(t) = text[r] + 1
      BY Zenon
    <3>1. v[k] = "done"
      BY <2>4, Zenon
    <3>2. /\ step[r] \in Speaking
          /\ \A i \in 1..(k - 1) : v[i] = "token"
          /\ r \in WithTools => k - 1 = text[r]
          /\ r \notin WithTools => k = 1
      BY <1>7, <2>5, <3>1, Zenon DEF k
    <3>3. n + k = text[r] + 1
      <4>1. text[r] \in Nat
        BY <1>1, Zenon
      <4>2. CASE r \in WithTools
        <5>1. n = 0 /\ k - 1 = text[r]
          BY <2>3, <3>2, <4>2, Zenon
        <5>. QED  BY <2>2, <4>1, <5>1
      <4>3. CASE r \notin WithTools
        <5>1. n = text[r] /\ k = 1
          BY <2>3, <3>2, <4>3, Zenon
        <5>. QED  BY <2>2, <4>1, <5>1, Zenon
      <4>. QED  BY <4>2, <4>3, Zenon
    <3>4. \A i \in 1..(n + k - 1) : t[i] = "token"
      BY <2>4, <3>2, Zenon
    <3>5. Len(t) = text[r] + 1 /\ Len(t) - 1 = n + k - 1
      BY <2>2, <2>4, <3>3
    <3>. QED  BY <3>4, <3>5, Zenon
  <2>. QED  BY <1>2, <1>7, <2>4, <2>6, <2>7, <2>8, Zenon DEF Speech, t
<1>. HIDE DEF Speech
\* An error, or values and done, or calls and done, end what the daemon hears.
<1>8. Send(r, <<"error">>) =>
        \E v \in Seq(Events) : /\ Send(r, v) /\ Len(v) >= 1 /\ v[Len(v)] = "error"
                              /\ \A i \in 1..(Len(v) - 1) : v[i] \notin {"done", "error"}
  <2>. DEFINE v == <<"error">>
  <2>1. v \in Seq(Events) /\ Len(v) = 1 /\ v[1] = "error"
    BY DEF Events
  <2>. HIDE DEF v
  <2>2. Len(v) >= 1 /\ v[Len(v)] = "error" /\ \A i \in 1..(Len(v) - 1) : v[i] \notin {"done", "error"}
    BY <2>1
  <2>. QED  BY <2>1, <2>2, Zenon DEF v
<1>9. ASSUME NEW w \in {"calls", "value"}
      PROVE  Send(r, <<w, "done">>) =>
               \E v \in Seq(Events) : /\ Send(r, v) /\ Len(v) >= 1 /\ v[Len(v)] = "done" /\ v[1] = w
                                     /\ \A i \in 1..(Len(v) - 1) : v[i] \notin {"done", "error"}
  <2>. DEFINE v == <<w, "done">>
  <2>1. v \in Seq(Events) /\ Len(v) = 2 /\ v[1] = w /\ v[2] = "done"
    BY DEF Events
  <2>. HIDE DEF v
  <2>2. /\ Len(v) >= 1 /\ v[Len(v)] = "done"
        /\ \A i \in 1..(Len(v) - 1) : v[i] \notin {"done", "error"}
    BY <2>1
  <2>. QED  BY <2>1, <2>2, Zenon DEF v
<1>f. ASSUME Fail(r), step[r] \in Before \cup Speaking, text' = text PROVE Speech(r)'
  <2>1. Send(r, <<"error">>) /\ step'[r] = "leave"
    BY <1>1, <1>f, Zenon DEF Fail, Advance
  <2>2. PICK v \in Seq(Events) : /\ Send(r, v) /\ Len(v) >= 1 /\ v[Len(v)] = "error"
                                 /\ \A i \in 1..(Len(v) - 1) : v[i] \notin {"done", "error"}
    BY <1>8, <2>1, Zenon
  <2>. QED  BY <1>f, <1>7, <2>1, <2>2, Zenon
<1>q. ASSUME NEW q \in Requests, q # r,
             step' = step \/ \E at : Advance(q, at),
             sent' = sent \/ \E v : Send(q, v),
             text' = text \/ \E v : text' = [text EXCEPT ![q] = v],
             asked_for' = asked_for \/ \E v : asked_for' = [asked_for EXCEPT ![q] = v],
             reason' = reason \/ \E why : Conclude(q, why)
      PROVE  Speech(r)'
  BY <1>1, <1>3, <1>q, Zenon DEF Advance, Send, Conclude
<1>10. ASSUME NEW q \in Requests, HandleGenerate(q) \/ HandleAsk(q) \/ Register(q) \/ Check(q) \/ Reap(q)
                                  \/ CurlExits(q) \/ Leave(q)
       PROVE  Speech(r)'
  <2>1. /\ UNCHANGED <<sent, text, asked_for>>
        /\ reason' = reason \/ (Conclude(q, "cancelled") /\ step[q] = "held")
    BY <1>10, Zenon DEF HandleGenerate, HandleAsk, Register, Check, Reap, CurlExits, Leave, perRequest
  <2>2. \/ step' = step /\ reason' = reason
        \/ step[q] = "none" /\ \E at \in {"start", "ask"} : step' = [step EXCEPT ![q] = at]
        \/ step[q] = "register" /\ ~ remote /\ step' = [step EXCEPT ![q] = "headers"]
        \/ step[q] = "register" /\ remote /\ step' = [step EXCEPT ![q] = "body"]
        \/ step[q] \in {"held", "reap"}
           /\ \E at \in {"emit", "reap", "flush", "wait"} : step' = [step EXCEPT ![q] = at]
        \/ step[q] = "leave" /\ step' = [step EXCEPT ![q] = "gone"]
    BY <1>10, Zenon DEF HandleGenerate, HandleAsk, Register, Check, Reap, CurlExits, Leave, Advance,
       perRequest
  <2>3. CASE q # r
    BY <1>q, <2>1, <2>2, <2>3, Zenon DEF Advance
  <2>4. CASE q = r
    <3>1. remote => program # "mock"
      BY Zenon DEF remote
    <3>2. step[r] = "register" => program # "mock"
      BY Zenon DEF Speech
    <3>. QED  BY <1>1, <1>3, <1>4, <2>1, <2>2, <2>4, <3>1, <3>2, Zenon DEF Before, Speaking, Over
  <2>. QED  BY <2>3, <2>4, Zenon
<1>11. ASSUME NEW q \in Requests, Answer(q) PROVE Speech(r)'
  <2>1. /\ step[q] = "ask" /\ Advance(q, "gone") /\ UNCHANGED <<text, asked_for, reason>>
        /\ Send(q, <<"value", "done">>) \/ Send(q, <<"error">>)
    BY <1>11, Zenon DEF Answer
  <2>2. CASE q # r
    BY <1>q, <2>1, <2>2, Zenon
  <2>3. CASE q = r
    <3>1. step'[r] = "gone" /\ step[r] \in Before
      BY <1>1, <2>1, <2>3, Zenon DEF Advance, Before
    <3>2. CASE Send(r, <<"error">>)
      <4>1. PICK v \in Seq(Events) : /\ Send(r, v) /\ Len(v) >= 1 /\ v[Len(v)] = "error"
                                     /\ \A i \in 1..(Len(v) - 1) : v[i] \notin {"done", "error"}
        BY <1>8, <3>2, Zenon
      <4>. QED  BY <1>7, <2>1, <3>1, <4>1, Zenon
    <3>3. CASE Send(r, <<"value", "done">>)
      <4>1. PICK v \in Seq(Events) : /\ Send(r, v) /\ Len(v) >= 1 /\ v[Len(v)] = "done" /\ v[1] = "value"
                                     /\ \A i \in 1..(Len(v) - 1) : v[i] \notin {"done", "error"}
        BY <1>9, <3>3, Zenon
      <4>. QED  BY <1>7, <2>1, <3>1, <4>1, Zenon
    <3>. QED  BY <2>1, <2>3, <3>2, <3>3, Zenon
  <2>. QED  BY <2>2, <2>3, Zenon
<1>c. ASSUME Send(r, <<"calls", "done">>), step'[r] = "leave", step[r] \in Before \cup Speaking,
             text' = text, reason'[r] = "tool_call"
      PROVE  Speech(r)'
  <2>1. PICK v \in Seq(Events) : /\ Send(r, v) /\ Len(v) >= 1 /\ v[Len(v)] = "done"
                                 /\ \A i \in 1..(Len(v) - 1) : v[i] \notin {"done", "error"}
    BY <1>9, <1>c, Zenon
  <2>. QED  BY <1>7, <1>c, <2>1, Zenon
<1>12. ASSUME NEW q \in Requests, Start(q) PROVE Speech(r)'
  <2>1. CASE q # r
    <3>1. /\ \E at : Advance(q, at)
          /\ sent' = sent \/ \E v : Send(q, v)
          /\ asked_for' = asked_for \/ \E v : asked_for' = [asked_for EXCEPT ![q] = v]
          /\ reason' = reason \/ \E why : Conclude(q, why)
          /\ text' = text
      BY <1>12, Zenon DEF Start, Fail
    <3>. QED  BY <1>q, <2>1, <3>1, Zenon
  <2>2. CASE q = r
    <3>1. /\ step[r] = "start" /\ text' = text
          /\ \/ Fail(r)
             \/ /\ program # "mock" /\ Advance(r, "register") /\ UNCHANGED <<reason, sent, asked_for>>
             \/ /\ r \in WithTools /\ Send(r, <<"calls", "done">>) /\ Conclude(r, "tool_call")
                /\ Advance(r, "leave")
             \/ /\ r \notin WithTools /\ Advance(r, "held") /\ UNCHANGED <<reason, sent, asked_for>>
      BY <1>12, <2>2, Zenon DEF Start
    <3>2. CASE Fail(r)
      BY <1>f, <3>1, <3>2, Zenon DEF Before
    <3>3. CASE program # "mock" /\ Advance(r, "register") /\ UNCHANGED <<reason, sent, asked_for>>
      BY <1>1, <1>4, <3>1, <3>3, Zenon DEF Advance, Before
    <3>4. CASE r \notin WithTools /\ Advance(r, "held") /\ UNCHANGED <<reason, sent, asked_for>>
      BY <1>1, <1>4, <3>1, <3>4, Zenon DEF Advance, Before, Speaking
    <3>5. CASE Send(r, <<"calls", "done">>) /\ Conclude(r, "tool_call") /\ Advance(r, "leave")
      BY <1>1, <1>c, <3>1, <3>5, Zenon DEF Advance, Conclude, Before
    <3>. QED  BY <3>1, <3>2, <3>3, <3>4, <3>5, Zenon
  <2>. QED  BY <2>1, <2>2, Zenon
<1>13. ASSUME NEW q \in Requests, Headers(q) \/ WaitChild(q) PROVE Speech(r)'
  <2>1. /\ step[q] \in {"headers", "wait"} /\ UNCHANGED <<text, asked_for, reason>>
        /\ \/ Fail(q)
           \/ step[q] = "headers" /\ Advance(q, "body") /\ sent' = sent
           \/ step[q] = "wait" /\ Advance(q, "flush") /\ sent' = sent
    BY <1>13, Zenon DEF Headers, WaitChild, Fail
  <2>2. CASE q # r
    BY <1>q, <2>1, <2>2, Zenon DEF Fail
  <2>3. CASE q = r
    <3>1. step[r] = "headers" => program # "mock"
      BY Zenon DEF Speech
    <3>. QED  BY <1>1, <1>4, <1>f, <2>1, <2>3, <3>1, Zenon DEF Advance, Before, Speaking
  <2>. QED  BY <2>2, <2>3, Zenon
<1>14. ASSUME NEW q \in Requests, NEW line \in Lines, Body(q, line) PROVE Speech(r)'
  <2>1. /\ step[q] = "body" /\ UNCHANGED <<text, asked_for>>
        /\ \/ Fail(q) /\ reason' = reason
           \/ /\ \E at \in {"held", "reap", "flush"} : Advance(q, at)
              /\ sent' = sent /\ (reason' = reason \/ Conclude(q, "cancelled"))
    BY <1>14, Zenon DEF Body, Fail
  <2>2. CASE q # r
    BY <1>q, <2>1, <2>2, Zenon DEF Fail
  <2>3. CASE q = r
    BY <1>1, <1>4, <1>f, <2>1, <2>3 DEF Advance, Before, Speaking
  <2>. QED  BY <2>2, <2>3, Zenon
<1>15. ASSUME NEW q \in Requests, Emit(q) PROVE Speech(r)'
  <2>1. /\ step[q] = "emit" /\ reason' = reason /\ (\E at \in {"flush", "held", "body"} : Advance(q, at))
        /\ \/ /\ text' = [text EXCEPT ![q] = text[q] + 1] /\ asked_for' = asked_for
              /\ \/ q \in WithTools /\ sent' = sent
                 \/ q \notin WithTools /\ Send(q, <<"token">>)
           \/ /\ remote /\ q \in WithTools /\ text' = text /\ sent' = sent
              /\ asked_for' = [asked_for EXCEPT ![q] = asked_for[q] + 1]
    BY <1>15, Zenon DEF Emit
  <2>2. CASE q # r
    BY <1>q, <2>1, <2>2, Zenon
  <2>3. CASE q = r
    <3>1. /\ step'[r] \in Speaking /\ step'[r] \notin Before \cup Over \cup {"register", "headers"}
      BY <1>1, <2>1, <2>3, Zenon DEF Advance, Before, Speaking, Over
    <3>2. /\ \A i \in 1..Len(sent[r]) : sent[r][i] = "token"
          /\ Len(sent[r]) = IF r \in WithTools THEN 0 ELSE text[r]
          /\ asked_for[r] > 0 => remote /\ r \in WithTools
          /\ program = "mock" => r \notin WithTools
      BY <2>1, <2>3, Zenon DEF Speech, Speaking
    <3>3. asked_for'[r] > 0 => remote /\ r \in WithTools
      BY <1>1, <2>1, <2>3, <3>2, Zenon
    <3>4. /\ \A i \in 1..Len(sent'[r]) : sent'[r][i] = "token"
          /\ Len(sent'[r]) = IF r \in WithTools THEN 0 ELSE text'[r]
      <4>1. CASE r \in WithTools
        <5>1. sent' = sent
          BY <2>1, <2>3, <4>1, Zenon
        <5>. QED  BY <3>2, <4>1, <5>1, Zenon
      <4>2. CASE r \notin WithTools
        <5>1. Send(r, <<"token">>) /\ text' = [text EXCEPT ![r] = text[r] + 1]
          BY <2>1, <2>3, <4>2, Zenon
        <5>2. /\ sent[r] \in Seq(Events) /\ sent'[r] = sent[r] \o <<"token">> /\ text'[r] = text[r] + 1
          BY <1>1, <5>1, Zenon DEF Send
        <5>3. <<"token">> \in Seq(Events) /\ Len(<<"token">>) = 1 /\ <<"token">>[1] = "token"
          BY DEF Events
        <5>4. /\ Len(sent'[r]) = Len(sent[r]) + 1
              /\ \A i \in 1..(Len(sent[r]) + 1) :
                   sent'[r][i] = IF i <= Len(sent[r]) THEN sent[r][i] ELSE <<"token">>[i - Len(sent[r])]
          BY <5>2, <5>3, SeqConcat
        <5>5. Len(sent[r]) \in Nat
          BY <5>2, SeqLen, Zenon
        <5>6. \A i \in 1..(Len(sent[r]) + 1) : sent'[r][i] = "token"
          <6>. TAKE i \in 1..(Len(sent[r]) + 1)
          <6>1. CASE i <= Len(sent[r])
            <7>1. i \in 1..Len(sent[r])
              BY <5>5, <6>1
            <7>2. sent'[r][i] = sent[r][i]
              BY <5>4, <6>1, Zenon
            <7>. QED  BY <3>2, <7>1, <7>2, Zenon
          <6>2. CASE ~ (i <= Len(sent[r]))
            <7>1. i - Len(sent[r]) = 1
              BY <5>5, <6>2
            <7>2. sent'[r][i] = <<"token">>[1]
              BY <5>4, <6>2, <7>1, Zenon
            <7>. QED  BY <5>3, <7>2, Zenon
          <6>. QED  BY <6>1, <6>2, Zenon
        <5>. QED  BY <3>2, <4>2, <5>2, <5>4, <5>6, Zenon
      <4>. QED  BY <4>1, <4>2, Zenon
    <3>. QED  BY <1>2, <3>1, <3>2, <3>3, <3>4, Zenon DEF Speech
  <2>. QED  BY <2>2, <2>3, Zenon
<1>16. ASSUME NEW q \in Requests, Flush(q) PROVE Speech(r)'
  <2>. DEFINE kept == IF program = "llamacpp" /\ q \in WithTools THEN text[q] ELSE 0
  <2>1. /\ step[q] = "flush" /\ Advance(q, "leave") /\ UNCHANGED <<text, asked_for>>
        /\ \/ Send(q, <<"calls", "done">>) /\ Conclude(q, "tool_call")
           \/ reason' = reason /\ Send(q, [i \in 1..kept |-> "token"] \o <<"done">>)
    BY <1>16, Zenon DEF Flush
  <2>2. CASE q # r
    BY <1>q, <2>1, <2>2, Zenon
  <2>3. CASE q = r
    <3>1. step'[r] = "leave" /\ step[r] \in Speaking
      BY <1>1, <2>1, <2>3, Zenon DEF Advance, Speaking
    <3>2. CASE Send(r, <<"calls", "done">>) /\ Conclude(r, "tool_call")
      BY <1>1, <1>c, <2>1, <3>1, <3>2, Zenon DEF Conclude
    <3>3. CASE Send(r, [i \in 1..kept |-> "token"] \o <<"done">>)
      <4>1. PICK v : /\ v \in Seq(Events) /\ Send(r, v) /\ Len(v) = kept + 1 /\ v[kept + 1] = "done"
                     /\ \A i \in 1..kept : v[i] = "token"
        <5>1. kept \in Nat
          BY <1>1, Zenon
        <5>. HIDE DEF kept
        <5>. DEFINE u == [i \in 1..kept |-> "token"]
        <5>2. u \in Seq(Events) /\ Len(u) = kept /\ \A i \in 1..kept : u[i] = "token"
          BY <5>1 DEF Events
        <5>3. <<"done">> \in Seq(Events) /\ Len(<<"done">>) = 1 /\ <<"done">>[1] = "done"
          BY DEF Events
        <5>. HIDE DEF u
        <5>4. /\ u \o <<"done">> \in Seq(Events) /\ Len(u \o <<"done">>) = kept + 1
              /\ \A i \in 1..(kept + 1) :
                   (u \o <<"done">>)[i] = IF i <= kept THEN u[i] ELSE <<"done">>[i - kept]
          BY <5>2, <5>3, SeqConcat
        <5>5. (u \o <<"done">>)[kept + 1] = "done" /\ \A i \in 1..kept : (u \o <<"done">>)[i] = "token"
          BY <5>1, <5>2, <5>3, <5>4
        <5>. QED  BY <3>3, <5>4, <5>5, Zenon DEF u
      <4>2. kept \in Nat /\ (r \in WithTools => remote \/ kept = text[r]) /\ (r \notin WithTools => kept = 0)
        <5>1. program = "mock" => r \notin WithTools
          BY <3>1, Zenon DEF Speech
        <5>. QED  BY <1>1, <2>3, <5>1, Zenon DEF remote
      <4>. HIDE DEF kept
      <4>3. /\ Len(v) >= 1 /\ v[Len(v)] = "done" /\ Len(v) - 1 = kept
            /\ \A i \in 1..(Len(v) - 1) : v[i] = "token"
            /\ \A i \in 1..(Len(v) - 1) : v[i] \notin {"done", "error"}
        BY <4>1, <4>2
      <4>4. r \notin WithTools => Len(v) = 1
        BY <4>1, <4>2
      <4>. QED  BY <1>7, <2>1, <3>1, <4>1, <4>2, <4>3, <4>4
    <3>. QED  BY <2>1, <2>3, <3>2, <3>3, Zenon
  <2>. QED  BY <2>2, <2>3, Zenon
<1>. QED  BY <1>5, <1>6, <1>10, <1>11, <1>12, <1>13, <1>14, <1>15, <1>16, Zenon DEF GenerationNext
\* The invariant holds before the first request,
LEMMA GenerationBegins ==
  ASSUME GenerationInit
  PROVE  GenInv
<1>1. PICK p \in Programs : /\ program = p[1]
                            /\ step = [r \in Requests |-> IF r \in p[2] THEN "none" ELSE "absent"]
  BY Zenon DEF GenerationInit
<1>2. /\ \A r \in Requests : step[r] \in {"none", "absent"} /\ Id(r) \in Ids
      /\ program \in {"llamacpp", "remote", "remote again", "mock"}
  BY <1>1, GenerationAssumption, Zenon DEF Ids
<1>3. GenTyped
  <2>1. step \in [Requests -> Before \cup Speaking \cup Over]
    BY <1>1, Zenon DEF Before
  <2>2. /\ hold \in [Requests -> BOOLEAN] /\ stop \in [Requests -> BOOLEAN] /\ unread \in [Requests -> BOOLEAN]
    BY Zenon DEF GenerationInit, Each
  <2>3. /\ text \in [Requests -> Nat] /\ asked_for \in [Requests -> Nat] /\ slack \in [Requests -> Nat]
        /\ link \in [Requests -> Links] /\ reason \in [Requests -> {"stop", "cancelled", "tool_call"}]
    BY Zenon DEF GenerationInit, Each, Links
  <2>4. /\ paused \in [Ids -> Requests \cup {None}] /\ cancelled \in [Ids -> Requests \cup {None}]
        /\ transport \in [Ids -> Requests \cup {None}] /\ taken \in [Requests -> Requests \cup {None}]
        /\ canceller \in Ids \cup {None}
    BY Zenon DEF GenerationInit, Each
  <2>. QED  BY <1>2, <2>1, <2>2, <2>3, <2>4, Zenon DEF GenTyped
<1>4. SentTyped
  BY SeqEmpty, Zenon DEF GenerationInit, Each, SentTyped
<1>5. Entries
  BY GenerationAssumption, Zenon DEF GenerationInit, Entries
<1>6. Children
  BY <1>2, GenerationAssumption, Zenon DEF GenerationInit, Each, Children, Living, InMap, Taken
<1>7. OwnChild
  BY <1>2, Zenon DEF OwnChild, Owned, Over
<1>8. ASSUME NEW r \in Requests PROVE Told(r) /\ Speech(r)
  BY <1>2, Zenon DEF GenerationInit, Each, Told, Speech, Speaking, Over
<1>. QED  BY <1>3, <1>4, <1>5, <1>6, <1>7, <1>8, Zenon DEF GenInv

\* and every step keeps it.
LEMMA GenerationKeeps ==
  ASSUME GenInv, [GenerationNext]_generationVars
  PROVE  GenInv'
<1>1. CASE GenerationNext
  BY <1>1, TypesKept, SentKept, EntriesKept, ChildrenKept, OwnChildKept, ToldKept,
     SpeechKept, Zenon DEF GenInv
<1>2. CASE UNCHANGED generationVars
  <2>1. /\ UNCHANGED <<program, step, hold, stop, paused, cancelled, transport, link, taken, canceller, text,
                       asked_for, unread, reason, sent, slack>>
        /\ Ids' = Ids /\ (remote' <=> remote) /\ \A r \in Requests : Id(r)' = Id(r)
    BY <1>2, NamesStay, Zenon DEF generationVars, flags, maps, perRequest
  <2>2. GenTyped' /\ SentTyped'
    BY <2>1, Zenon DEF GenInv, GenTyped, SentTyped
  <2>3. Entries' /\ Children'
    BY <2>1, Zenon DEF GenInv, Entries, Children, Living, InMap, Taken
  <2>4. OwnChild'
    BY <2>1, Zenon DEF GenInv, OwnChild, Owned
  <2>5. ASSUME NEW r \in Requests PROVE Told(r)' /\ Speech(r)'
    BY <2>1, Zenon DEF GenInv, Told, Speech
  <2>. QED  BY <2>2, <2>3, <2>4, <2>5, Zenon DEF GenInv
<1>. QED  BY <1>1, <1>2, Zenon

\* The generation threads of the backends (llamacpp, remote, mock): every
\* request ends in exactly one event, done or error, that is its last; all
\* maps are empty when no thread runs; and a reply of text arrives with all
\* its tokens; for any number of requests, pauses and cancels.
THEOREM AnswersAreWhole == GenerationSpec => []AnswerWhole
<1>1. ASSUME GenInv PROVE AnswerWhole
  <2>1. ASSUME NEW r \in Requests PROVE sent[r] \in Seq(Events) /\ Len(sent[r]) \in Nat /\ DOMAIN sent[r] = 1..Len(sent[r])
    BY <1>1, SeqLen, Zenon DEF GenInv, SentTyped
  <2>2. ASSUME NEW r \in Requests
        PROVE  /\ step[r] \notin Over => Ends(r) = {}
               /\ step[r] \in Over => Ended(sent[r]) /\ Ends(r) = {Len(sent[r])}
    <3>1. CASE step[r] \in Before
      <4>1. sent[r] = << >>
        BY <1>1, <3>1, Zenon DEF GenInv, Speech
      <4>2. step[r] \notin Over
        BY <3>1, Zenon DEF Before, Over
      <4>3. DOMAIN sent[r] = {}
        BY <2>1, <4>1
      <4>. QED  BY <4>2, <4>3, Zenon DEF Ends
    <3>2. CASE step[r] \in Speaking
      BY <1>1, <2>1, <3>2, Zenon DEF GenInv, Speech, Ends, Speaking, Over
    <3>3. CASE step[r] \in Over
      <4>1. Ended(sent[r])
        BY <1>1, <3>3, Zenon DEF GenInv, Speech
      <4>2. \A i \in 1..Len(sent[r]) : i = Len(sent[r]) \/ i \in 1..(Len(sent[r]) - 1)
        BY <2>1
      <4>3. Len(sent[r]) \in 1..Len(sent[r])
        BY <2>1, <4>1 DEF Ended
      <4>. QED  BY <2>1, <3>3, <4>1, <4>2, <4>3, Zenon DEF Ended, Ends
    <3>. QED  BY <1>1, <3>1, <3>2, <3>3, Zenon DEF GenInv, GenTyped
  <2>3. OneEnd
    <3>1. ASSUME NEW r \in Requests PROVE (\A i \in Ends(r) : i = Len(sent[r])) /\ (step[r] = "gone" => Ends(r) # {})
      <4>1. CASE step[r] \in Over
        <5>1. Ends(r) = {Len(sent[r])}
          BY <2>2, <4>1, Zenon
        <5>. QED  BY <5>1, Zenon
      <4>2. CASE step[r] \notin Over
        BY <2>2, <4>2, Zenon DEF Over
      <4>. QED  BY <4>1, <4>2, Zenon
    <3>2. ASSUME \A r \in Requests : step[r] \in {"none", "absent", "gone"}, NEW i \in Ids
          PROVE  paused[i] = None /\ cancelled[i] = None /\ transport[i] = None
      <4>1. {paused[i], cancelled[i], transport[i]} \subseteq Requests \cup {None}
        BY <1>1, Zenon DEF GenInv, GenTyped
      <4>. QED  BY <1>1, <3>2, <4>1, Zenon DEF GenInv, Entries
    <3>. QED  BY <3>1, <3>2, Zenon DEF OneEnd
  <2>4. ASSUME NEW r \in Requests, Spoke(r), ~ (remote /\ r \in WithTools)
        PROVE  Tokens(r) = text[r]
    <3>. DEFINE n == Len(sent[r])
    <3>1. /\ Ended(sent[r]) /\ n = text[r] + 1 /\ \A i \in 1..(n - 1) : sent[r][i] = "token"
          /\ sent[r][n] = "done"
      BY <1>1, <2>4, Zenon DEF GenInv, Spoke, Speech, Over
    <3>2. text[r] \in Nat
      BY <1>1, Zenon DEF GenInv, GenTyped
    <3>3. {i \in DOMAIN sent[r] : sent[r][i] = "token"} = 1..text[r]
      <4>1. \A i \in 1..n : i = n \/ i \in 1..(n - 1)
        BY <2>1
      <4>2. 1..text[r] = 1..(n - 1) /\ \A i \in 1..(n - 1) : i \in 1..n
        BY <3>1, <3>2
      <4>. QED  BY <2>1, <3>1, <4>1, <4>2, Zenon
    <3>4. Cardinality(1..text[r]) = text[r]
      BY <3>2, FS_Interval
    <3>. QED  BY <3>3, <3>4, Zenon DEF Tokens
  <2>. QED  BY <2>3, <2>4, Zenon DEF AnswerWhole, TextReaches
<1>. QED  BY <1>1, GenerationBegins, GenerationKeeps, PTL DEF GenerationSpec

\* Pause and Cancel of the same programs: a request that was told lets at
\* most the token go that was past the boundary, no process group is killed
\* whose leader was waited for, and a transfer whose lines could be read is
\* waited for.
THEOREM EachStopsItsOwn == GenerationSpec => []StopsItsOwn
<1>1. ASSUME GenInv PROVE StopsItsOwn
  <2>1. QuietWhenTold
    BY <1>1, Zenon DEF GenInv, Told, QuietWhenTold
  <2>2. KillsOwn
    BY <1>1, Zenon DEF GenInv, Children, Living, OwnChild, Owned, Over, KillsOwn
  <2>. QED  BY <2>1, <2>2, Zenon DEF StopsItsOwn
<1>. QED  BY <1>1, GenerationBegins, GenerationKeeps, PTL DEF GenerationSpec
=============================================================================
