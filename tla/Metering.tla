------------------------------ MODULE Metering ------------------------------
(***************************************************************************)
(* What one identity's sessions may consume: the token buckets, the spend  *)
(* ledger and the usage meter of policy.rs, with the lines of Worker::turn *)
(* that ask them before a generation and charge them after it.             *)
(*                                                                         *)
(* The sessions of an identity share a bucket and a ledger; a session      *)
(* opened at a lower rate also has a bucket of its own.  Time is counted   *)
(* in ticks, TicksPerMinute to the minute, and capacities are multiples of *)
(* TicksPerMinute so that a tick refills a whole number of tokens.  A      *)
(* priced model costs one micro per token.  An entry of a ledger is named  *)
(* by its place in the record of all there have been, bills or work.       *)
(***************************************************************************)
EXTENDS Integers, Sequences, FiniteSets, Functions, FiniteSetsExt

CONSTANTS Meters,         \* the identity's sessions
          Narrowed,       \* those opened with max_tokens_per_minute
          LocalModel,     \* those whose model has no price
          Rate,           \* the identity's tokens_per_minute
          NarrowRate,     \* the rate of the narrowed sessions
          Ceiling,        \* daily_spend_micros, zero for none
          Reserve,        \* prompt estimate plus max_tokens of a turn
          Actuals,        \* tokens a turn may turn out to have used
          SpendWindow,    \* the rolling day, in ticks
          TicksPerMinute, MaxTime, MaxTurns

\* A bucket is never smaller than one token.
Capacity(per_minute) == Max({per_minute, 1})

ASSUME MeteringAssumption ==
  /\ IsFiniteSet(Meters) /\ Narrowed \subseteq Meters /\ LocalModel \subseteq Meters
  /\ Rate \in Nat /\ NarrowRate \in Nat /\ NarrowRate < Rate
  /\ TicksPerMinute \in Nat \ {0}
  /\ Capacity(Rate) % TicksPerMinute = 0 /\ Capacity(NarrowRate) % TicksPerMinute = 0
  /\ Ceiling \in Nat /\ Reserve \in Nat /\ SpendWindow \in Nat
  /\ Actuals \subseteq Nat /\ \E most \in Actuals : \A n \in Actuals : most >= n

NoBucket == [tokens |-> -1, capacity |-> 0, per_tick |-> 0, last |-> 0]

VARIABLES clock,     \* Instant::now
          gate,      \* where each session's turn is
          bucket,    \* PolicyState.buckets of this identity
          budget,    \* the narrowed sessions' own SessionBudget
          spend,     \* PolicyState.spend: which of the bills
          usage,     \* PolicyState.usage: which of the work
          turns,     \* turns begun
          taken,     \* every charge the identity's bucket accepted
          own,       \* every charge a narrowed session's bucket accepted
          bills,     \* every charge ever entered in spend: <<when, micros>>
          work,      \* every entry ever made in usage: <<when, tokens>>
          excess     \* tokens beyond the reserve, yet to be charged

meterVars == <<clock, gate, bucket, budget, spend, usage, turns, taken, own,
               bills, work, excess>>

NewBucket(per_minute) ==
  [tokens |-> Capacity(per_minute), capacity |-> Capacity(per_minute),
   per_tick |-> Capacity(per_minute) \div TicksPerMinute, last |-> clock]

RateOf(s) == IF s \in Narrowed THEN NarrowRate ELSE Rate

MeterInit == /\ clock = 0
             /\ gate = [s \in Meters |-> "idle"]
             /\ bucket = NoBucket
             /\ budget = [s \in Narrowed |-> NewBucket(NarrowRate)]
             /\ spend = {} /\ usage = {} /\ turns = 0
             /\ taken = << >> /\ own = [s \in Narrowed |-> << >>]
             /\ bills = << >> /\ work = << >>
             /\ excess = [s \in Meters |-> 0]

\* What the entries of S in a record add up to.
Total(record, S) == SumFunctionOnSet([k \in DOMAIN record |-> record[k][2]], S)

-----------------------------------------------------------------------------
(* Bucket::take: refill, then all of n or nothing.                         *)

RefillUncapped(b) ==
  [b EXCEPT !.tokens = @ + (clock - b.last) * b.per_tick,
            !.last = clock]

Refill(b) ==
  [b EXCEPT !.tokens = Min({@ + (clock - b.last) * b.per_tick, b.capacity}),
            !.last = clock]

Covers(b, n) == Refill(b).tokens >= n

Taken(b, n) == IF Covers(b, n) THEN [Refill(b) EXCEPT !.tokens = @ - n]
                               ELSE Refill(b)

\* charge_tokens finds the identity's bucket, or makes it at the session's
\* rate.
Bucket(s) == IF bucket = NoBucket THEN NewBucket(RateOf(s)) ELSE bucket

\* The entries of a ledger younger than the window, as every reader and
\* writer of it keeps them.
RetainHalf(record, ledger) ==
  {k \in ledger : 2 * (clock - record[k][1]) < SpendWindow}

Retain(record, ledger) == {k \in ledger : clock - record[k][1] < SpendWindow}

Spent == Total(bills, Retain(bills, spend))

Price(s, tokens) == IF s \in LocalModel THEN 0 ELSE tokens

-----------------------------------------------------------------------------
Go(s, to) == gate' = [gate EXCEPT ![s] = to]

\* spend_permits.
PermitsAlways(s) ==
  /\ gate[s] = "idle" /\ turns < MaxTurns
  /\ turns' = turns + 1
  /\ Go(s, "session") /\ UNCHANGED spend
  /\ UNCHANGED <<clock, bucket, budget, usage, taken, own, bills, work, excess>>

SpendPermits(s) ==
  /\ gate[s] = "idle" /\ turns < MaxTurns
  /\ turns' = turns + 1
  /\ IF Ceiling = 0 \/ Price(s, 2) = 0
       THEN Go(s, "session") /\ UNCHANGED spend
       ELSE /\ spend' = Retain(bills, spend)
            /\ Go(s, IF Spent >= Ceiling THEN "idle" ELSE "session")
  /\ UNCHANGED <<clock, bucket, budget, usage, taken, own, bills, work, excess>>

\* The session's own allowance, where it has one.
TakeSession(s) ==
  /\ gate[s] = "session"
  /\ IF s \in Narrowed
       THEN /\ budget' = [budget EXCEPT ![s] = Taken(@, Reserve)]
            /\ Go(s, IF Covers(budget[s], Reserve) THEN "identity" ELSE "idle")
            /\ own' = IF Covers(budget[s], Reserve)
                        THEN [own EXCEPT ![s] = Append(@, <<clock, Reserve>>)]
                        ELSE own
       ELSE Go(s, "identity") /\ UNCHANGED <<budget, own>>
  /\ UNCHANGED <<clock, bucket, spend, usage, turns, taken, bills, work, excess>>

\* And the identity's.
TakeIdentity(s) ==
  /\ gate[s] = "identity"
  /\ LET ok == Covers(Bucket(s), Reserve)
     IN  /\ bucket' = Taken(Bucket(s), Reserve)
         /\ Go(s, IF ok THEN "running" ELSE "idle")
         /\ taken' = IF ok THEN Append(taken, <<clock, Reserve>>) ELSE taken
  /\ UNCHANGED <<clock, budget, spend, usage, turns, own, bills, work, excess>>

\* The backend is done: charge_for, with record_usage and charge_spend.
ChargeFor(s, n) ==
  /\ IF n = 0
       THEN UNCHANGED <<usage, work>>
       ELSE /\ usage' = Retain(work, usage) \cup {Len(work) + 1}
            /\ work' = Append(work, <<clock, n>>)
  /\ IF Price(s, n) = 0
       THEN /\ spend' = IF Ceiling = 0 THEN spend ELSE Retain(bills, spend)
            /\ UNCHANGED bills
       ELSE /\ spend' = Retain(bills, spend) \cup {Len(bills) + 1}
            /\ bills' = Append(bills, <<clock, Price(s, n)>>)

Over(n) == IF n > Reserve THEN n - Reserve ELSE 0

\* With its attachments, which are not priced, the turn used more.
TurnDone(s) ==
  /\ gate[s] = "running"
  /\ \E n \in Actuals :
       /\ ChargeFor(s, n)
       /\ \E all \in Actuals : all >= n /\ excess' = [excess EXCEPT ![s] = Over(all)]
  /\ Go(s, "settle")
  /\ UNCHANGED <<clock, bucket, budget, turns, taken, own>>

\* An error, a stalled backend or a client that left: nothing is billed.
TurnFailed(s) ==
  /\ gate[s] = "running"
  /\ \E all \in Actuals : excess' = [excess EXCEPT ![s] = Over(all)]
  /\ Go(s, "settle")
  /\ UNCHANGED <<clock, bucket, budget, spend, usage, turns, taken, own, bills,
                 work>>

\* What the turn used beyond its reserve; a refusal is ignored.
Settle(s) ==
  /\ gate[s] = "settle"
  /\ IF excess[s] > 0
       THEN /\ bucket' = Taken(Bucket(s), excess[s])
            /\ taken' = IF Covers(Bucket(s), excess[s])
                          THEN Append(taken, <<clock, excess[s]>>) ELSE taken
       ELSE UNCHANGED <<bucket, taken>>
  /\ excess' = [excess EXCEPT ![s] = 0]
  /\ Go(s, "idle")
  /\ UNCHANGED <<clock, budget, spend, usage, turns, own, bills, work>>

\* revoke forgets the bucket, so that the next charge makes a full one.
RevokeBucket ==
  /\ bucket # NoBucket
  /\ bucket' = NoBucket
  /\ taken' = << >>
  /\ UNCHANGED <<clock, gate, budget, spend, usage, turns, own, bills, work,
                 excess>>

MeterTick ==
  /\ clock < MaxTime
  /\ clock' = clock + 1
  /\ UNCHANGED <<gate, bucket, budget, spend, usage, turns, taken, own, bills,
                 work, excess>>

MeterNext ==
  \/ \E s \in Meters :
       \/ SpendPermits(s) \/ TakeSession(s) \/ TakeIdentity(s)
       \/ TurnDone(s) \/ TurnFailed(s) \/ Settle(s)
  \/ RevokeBucket \/ MeterTick

MeterSpec == MeterInit /\ [][MeterNext]_meterVars

-----------------------------------------------------------------------------
\* In no stretch of time were more tokens taken than a full bucket and what
\* a bucket of that rate gains in it.
Between(record, from, to) == {k \in DOMAIN record : record[k][1] \in from..to}

WithinRate(record, per_minute) ==
  \A from \in 0..clock : \A to \in from..clock :
    Total(record, Between(record, from, to))
      <= Capacity(per_minute) + (to - from) * (Capacity(per_minute) \div TicksPerMinute)

(* Whatever its sessions do at once, an identity never takes more from its *)
(* bucket than its rate allows, over any stretch since the bucket was made,*)
(* and a narrowed session never more than its own rate (Bucket::take).     *)
RateRespected == /\ WithinRate(taken, Rate)
                 /\ \A s \in Narrowed : WithinRate(own[s], NarrowRate)

LastWindow(record) ==
  Total(record, {k \in DOMAIN record : record[k][1] + SpendWindow > clock})

(* The ledgers are pruned on every touch and never lose or keep an entry   *)
(* too many: what spent_by and usage_report would answer now is what was   *)
(* billed and used in the last window.                                     *)
LedgersExact == /\ Spent = LastWindow(bills)
                /\ Total(work, Retain(work, usage)) = LastWindow(work)

(* The total passes the ceiling by no more than one turn of every session  *)
(* that was already running: once it is reached, spend_permits refuses     *)
(* every further priced turn until entries age out.                        *)
OvershootBounded ==
  Ceiling > 0 =>
    Spent < Ceiling + Cardinality(Meters \ LocalModel) * Max(Actuals)

\* What an identity may spend: the ledgers are right and the ceiling holds but
\* for the turns that were running (charge_spend, spend_permits).
SpendBounded == LedgersExact /\ OvershootBounded
=============================================================================
