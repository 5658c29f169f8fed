------------------------------ MODULE RateQuota -------------------------------
(***************************************************************************)
(* The request-rate limit of one tenant: Enforcer.AllowRequest             *)
(* (internal/quota/quota.go), a token bucket under the enforcer's lock.    *)
(* Tokens are counted in fractions of a token, Unit of them to a token,    *)
(* and the rate in fractions per tick.                                     *)
(***************************************************************************)
EXTENDS Integers, Sequences, FiniteSets

CONSTANTS Unit,       \* fractions in one token
          Configs,    \* records rate, burst an administrator may set
          MaxTime,    \* bound: ticks explored
          MaxCalls,   \* bound: requests explored
          Nil

RateAssumption ==
  /\ Unit \in Nat \ {0}
  /\ Configs \subseteq [rate : Nat, burst : Int]
  /\ MaxTime \in Nat /\ MaxCalls \in Nat

VARIABLES clock, cfg,
          bucket,    \* Nil before the first limited request, else tokens, last
          calls,     \* requests so far
          grants,    \* history: times of the granted requests
          promise    \* history: when the last refusal said to retry

vars == <<clock, cfg, bucket, calls, grants, promise>>

Maximum(a, b) == IF a < b THEN b ELSE a
Minimum(a, b) == IF a < b THEN a ELSE b

capacityFor(c) == IF c.burst > 0 THEN c.burst * Unit ELSE Maximum(Unit, c.rate)

Init ==
  /\ clock = 0 /\ calls = 0
  /\ cfg \in Configs
  /\ bucket = Nil
  /\ grants = << >>
  /\ promise = Nil

Tick ==
  /\ clock < MaxTime
  /\ clock' = clock + 1
  /\ UNCHANGED <<cfg, bucket, calls, grants, promise>>

\* The bucket keeps its tokens; the next request re-reads the rate.
SetOverride(c) ==
  /\ c # cfg
  /\ cfg' = c
  /\ promise' = Nil
  /\ UNCHANGED <<clock, bucket, calls, grants>>

RefillUnclamped(b) ==   \* mutant: no clamp to the capacity
  [tokens |-> b.tokens + (clock - b.last) * cfg.rate, last |-> clock]

\* Refill since the last check, clamped; nothing happens within one tick.
Refill(b) ==
  IF clock > b.last
  THEN [tokens |-> Minimum(capacityFor(cfg), b.tokens + (clock - b.last) * cfg.rate),
        last   |-> clock]
  ELSE b

Opened == IF bucket = Nil THEN [tokens |-> capacityFor(cfg), last |-> clock] ELSE bucket

retryAfterFullToken(b) == Unit \div cfg.rate   \* mutant: ignores the tokens left

\* The wait for the missing fraction, truncated to the clock's unit.
retryAfter(b) == (Unit - b.tokens) \div cfg.rate

AllowRequest ==
  /\ calls < MaxCalls
  /\ calls' = calls + 1
  /\ LET b == Refill(Opened)
     IN  IF cfg.rate = 0
         THEN UNCHANGED <<bucket, grants, promise>>
         ELSE IF b.tokens >= Unit
         THEN /\ bucket' = [b EXCEPT !.tokens = @ - Unit]
              /\ grants' = Append(grants, clock)
              /\ promise' = Nil
         ELSE /\ bucket' = b
              /\ promise' = clock + retryAfter(b)
              /\ UNCHANGED grants
  /\ UNCHANGED <<clock, cfg>>

Next == Tick \/ AllowRequest \/ \E c \in Configs : SetOverride(c)

Spec == Init /\ [][Next]_vars

-----------------------------------------------------------------------------
(* Properties.                                                              *)

Best(f(_)) == CHOOSE x \in {f(c) : c \in Configs} : \A c \in Configs : f(c) <= x
Rate(c) == c.rate

\* The limit, in every window and not only since the start: requests i to j
\* are granted only if the burst and the refill between them pay for all of
\* them, whatever overrides were set meanwhile.
WindowBound ==
  \A i \in 1..Len(grants), j \in 1..Len(grants) : i <= j =>
    (j - i + 1) * Unit <= Best(capacityFor) + Best(Rate) * (grants[j] - grants[i])

\* The retry time returned with a refusal is exact up to its truncation
\* (quota.go:176): with no other request in between, a retry before it is
\* refused again and a retry one unit of the clock after it is served.
RetryAfterExact ==
  [][AllowRequest /\ promise # Nil /\ cfg.rate > 0 =>
       /\ clock < promise => grants' = grants
       /\ clock > promise => Len(grants') = Len(grants) + 1]_vars
=============================================================================
