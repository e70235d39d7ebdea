--------------------------- MODULE StepExecProofs ---------------------------
(***************************************************************************)
(* execute_step_with_handler, for every StepDef, every width of the        *)
(* integers and both kinds of build: IInv is inductive, and what a step    *)
(* promises of its attempts, its events and its delays follows.            *)
(***************************************************************************)
EXTENDS StepStream, SequenceTheorems, TLAPS

EventRec == [type : {"step_started", "step_completed", "step_failed", "step_retry"},
             attempt : 0 .. U32_MAX]

(***************************************************************************)
(* Integers.                                                               *)
(***************************************************************************)

\* max_retries + 1 in 32 bits.
LEMMA WrappedIncrement ==
  ASSUME NEW n \in 0 .. U32_MAX
  PROVE  (n + 1) % (U32_MAX + 1) = IF n = U32_MAX THEN 0 ELSE n + 1
<1>1. U32_MAX \in Nat
  BY WidthAssumption
<1>2. CASE n = U32_MAX
  BY <1>1, <1>2
<1>3. CASE n # U32_MAX
  BY <1>1, <1>3
<1> QED
  BY <1>2, <1>3

\* A larger factor does not give a smaller product, saturated or not.
LEMMA SaturatingGrows ==
  ASSUME NEW a \in 0 .. U64_MAX, NEW b \in Nat, NEW c \in Nat, b <= c
  PROVE  /\ saturating_mul(a, b) \in 0 .. U64_MAX
         /\ saturating_mul(a, b) <= saturating_mul(a, c)
<1>1. U64_MAX \in Nat /\ a \in Nat
  BY WidthAssumption
<1>2. a * b \in Nat /\ a * c \in Nat
  BY <1>1
<1>3. a * b <= a * c
  BY <1>1
<1> QED
  BY <1>1, <1>2, <1>3 DEF saturating_mul

LEMMA ShiftGrows ==
  ASSUME NEW n \in Nat
  PROVE  shl_or_max(n) \in Nat /\ shl_or_max(n) <= shl_or_max(n + 1)
<1>0. U64_BITS \in Nat /\ U64_MAX \in Nat /\ U64_MAX = 2 ^ U64_BITS - 1
  BY WidthAssumption
<1>1. CASE n + 1 < U64_BITS
  <2>1. n \in 0 .. U64_BITS /\ n + 1 \in 0 .. U64_BITS /\ n + 1 > 0 /\ (n + 1) - 1 = n
        /\ n < U64_BITS
    BY <1>0, <1>1
  <2>2. 2 ^ n \in Nat /\ 2 ^ (n + 1) \in Nat /\ 2 ^ n < 2 ^ (n + 1)
    BY <2>1, ShiftAssumption
  <2> QED
    BY <1>1, <2>1, <2>2 DEF shl_or_max
<1>2. CASE n + 1 = U64_BITS
  <2>1. n \in 0 .. U64_BITS /\ U64_BITS \in 0 .. U64_BITS /\ U64_BITS > 0 /\ U64_BITS - 1 = n
        /\ n < U64_BITS /\ ~(n + 1 < U64_BITS)
    BY <1>0, <1>2
  <2>2. 2 ^ n \in Nat /\ 2 ^ U64_BITS \in Nat /\ 2 ^ n < 2 ^ U64_BITS
    BY <2>1, ShiftAssumption
  <2>3. shl_or_max(n) = 2 ^ n /\ shl_or_max(n + 1) = U64_MAX
    BY <2>1 DEF shl_or_max
  <2> QED
    BY <1>0, <2>2, <2>3
<1>3. CASE n >= U64_BITS
  <2>1. ~(n < U64_BITS) /\ ~(n + 1 < U64_BITS)
    BY <1>0, <1>3
  <2> QED
    BY <1>0, <2>1 DEF shl_or_max
<1> QED
  BY <1>0, <1>1, <1>2, <1>3

\* delay_ms stays in a u64 and does not shrink with the attempt.
LEMMA DelayGrows ==
  ASSUME NEW strategy \in Strategy, NEW base \in 0 .. U64_MAX, NEW a \in Nat \ {0}
  PROVE  /\ delay_ms(strategy, base, a) \in 0 .. U64_MAX
         /\ delay_ms(strategy, base, a) <= delay_ms(strategy, base, a + 1)
<1>0. base \in Nat /\ U64_MAX \in Nat
  BY WidthAssumption
<1>1. CASE strategy = "Fixed"
  BY <1>0, <1>1 DEF delay_ms
<1>2. CASE strategy = "Linear"
  <2>1. a \in Nat /\ a + 1 \in Nat /\ a <= a + 1
    OBVIOUS
  <2> QED
    BY <1>2, <2>1, SaturatingGrows DEF delay_ms
<1>3. CASE strategy = "Exponential"
  <2>1. a - 1 \in Nat /\ (a - 1) + 1 = (a + 1) - 1 /\ (a + 1) - 1 \in Nat
    OBVIOUS
  <2>2. /\ shl_or_max(a - 1) \in Nat /\ shl_or_max((a + 1) - 1) \in Nat
        /\ shl_or_max(a - 1) <= shl_or_max((a + 1) - 1)
    BY <2>1, ShiftGrows
  <2>3. /\ saturating_mul(base, shl_or_max(a - 1)) \in 0 .. U64_MAX
        /\ saturating_mul(base, shl_or_max(a - 1))
             <= saturating_mul(base, shl_or_max((a + 1) - 1))
    BY <2>2, SaturatingGrows
  <2> QED
    BY <1>3, <2>3 DEF delay_ms
<1> QED
  BY <1>1, <1>2, <1>3 DEF Strategy

(***************************************************************************)
(* Events.                                                                 *)
(***************************************************************************)

LEMMA AppendShape ==
  ASSUME NEW S, NEW q \in Seq(S), NEW r \in S
  PROVE  /\ Append(q, r) \in Seq(S)
         /\ Len(q) \in Nat /\ Len(Append(q, r)) = Len(q) + 1
         /\ DOMAIN q = 1 .. Len(q) /\ DOMAIN Append(q, r) = 1 .. Len(q) + 1
         /\ \A a \in 1 .. Len(q) : Append(q, r)[a] = q[a]
         /\ Append(q, r)[Len(q) + 1] = r
OBVIOUS

\* What one more event adds.
LEMMA Emitted ==
  ASSUME NEW q \in Seq(EventRec), NEW e \in EventRec
  PROVE  /\ Append(q, e) \in Seq(EventRec) /\ Append(q, e) # <<>>
         /\ \A t : Of(Append(q, e), t) =
                     Of(q, t) \cup (IF e.type = t THEN {Len(q) + 1} ELSE {})
         /\ \A t : AttemptsOf(Append(q, e), t) =
                     AttemptsOf(q, t) \cup (IF e.type = t THEN {e.attempt} ELSE {})
         /\ SubSeq(Append(q, e), 1, Len(Append(q, e)) - 1) = q
         /\ Append(q, e)[Len(Append(q, e))] = e
<1> DEFINE p == Append(q, e)
           n == Len(q)
<1>1. /\ p \in Seq(EventRec) /\ n \in Nat /\ Len(p) = n + 1
      /\ DOMAIN q = 1 .. n /\ DOMAIN p = 1 .. n + 1
      /\ \A a \in 1 .. n : p[a] = q[a]
      /\ p[n + 1] = e
  BY AppendShape
<1>2. p # <<>>
  BY <1>1
<1>3. SubSeq(p, 1, Len(p) - 1) = q
  <2> HIDE DEF p
  <2>1. Len(p) - 1 = n /\ 1 \in Int /\ n \in Int
    BY <1>1
  <2>2. \A a \in 1 .. n : p[a] \in EventRec
    BY <1>1
  <2>3. /\ SubSeq(p, 1, n) \in Seq(EventRec)
        /\ Len(SubSeq(p, 1, n)) = IF 1 <= n THEN n - 1 + 1 ELSE 0
        /\ \A a \in 1 .. n - 1 + 1 : SubSeq(p, 1, n)[a] = p[1 + a - 1]
    BY <2>1, <2>2, SubSeqProperties
  <2>4. Len(SubSeq(p, 1, n)) = n /\ \A a \in 1 .. n : SubSeq(p, 1, n)[a] = q[a]
    BY <1>1, <2>3
  <2>5. SubSeq(p, 1, n) = q
    BY <1>1, <2>3, <2>4, SeqEqual
  <2> QED
    BY <2>1, <2>5
<1> HIDE DEF p, n
<1>4. \A a \in 1 .. n + 1 : a \in 1 .. n \/ a = n + 1
  BY <1>1
<1>5. ASSUME NEW t
      PROVE  Of(p, t) = Of(q, t) \cup (IF e.type = t THEN {n + 1} ELSE {})
  <2>1. 1 .. n \subseteq 1 .. n + 1 /\ n + 1 \in 1 .. n + 1
    BY <1>1
  <2> QED
    BY <1>1, <1>4, <2>1 DEF Of
<1>6. ASSUME NEW t
      PROVE  AttemptsOf(p, t) = AttemptsOf(q, t) \cup (IF e.type = t THEN {e.attempt} ELSE {})
  <2>1. \A a \in Of(q, t) : p[a] = q[a]
    BY <1>1 DEF Of
  <2> QED
    BY <1>1, <1>5, <2>1 DEF AttemptsOf
<1> QED
  BY <1>1, <1>2, <1>3, <1>5, <1>6 DEF p, n

(***************************************************************************)
(* The executor's steps keep IInv.                                         *)
(***************************************************************************)

\* The types as the proofs use them.
LEMMA Typed ==
  ASSUME TypeOK
  PROVE  /\ step.max_retries \in 0 .. U32_MAX /\ step.backoff \in Strategy
         /\ step.retry_delay_ms \in 0 .. U64_MAX /\ step.has_timeout \in BOOLEAN
         /\ U32_MAX \in Nat \ {0} /\ max_attempts \in Nat /\ attempt \in Nat
         /\ max_attempts <= U32_MAX /\ attempt <= max_attempts
         /\ events \in Seq(EventRec) /\ delays \in Seq(Nat)
         /\ handler \in [Attempt -> {"none", "running", "Ok", "Err", "timeout", "panicked", "dropped"}]
<1>1. step \in StepDef /\ max_attempts \in 0 .. U32_MAX /\ attempt \in 0 .. max_attempts
  BY DEF TypeOK
<1> QED
  BY <1>1, WidthAssumption DEF TypeOK, StepDef, EventRec, AttemptEnd

LEMMA EventTyped ==
  ASSUME NEW t \in {"step_started", "step_completed", "step_failed", "step_retry"},
         NEW a \in 0 .. U32_MAX
  PROVE  Event(t, a) \in EventRec /\ Event(t, a).type = t /\ Event(t, a).attempt = a
BY DEF Event, EventRec

LEMMA KeepStartOverflow == ASSUME IInv, StartOverflow PROVE IInv'
<1>0. /\ pc = "start" /\ pc' = "panicked" /\ step' = step /\ overflow_checks' = overflow_checks
      /\ max_attempts' = max_attempts /\ attempt' = attempt /\ handler' = handler
      /\ delays' = delays /\ events' = events /\ result' = result
  BY DEF StartOverflow
<1>1. max_attempts = 0 /\ attempt = 0
  BY <1>0, Typed DEF IInv, Stages
<1>2. TypeOK' /\ DelaysFit'
  BY <1>0 DEF IInv, TypeOK, DelaysFit
<1>3. Stages' /\ ResultFits'
  BY <1>0 DEF IInv, Stages, ResultFits, Overflows
<1>4. Attempts'
  BY <1>0, <1>1 DEF IInv, Attempts
<1>5. StoryFits'
  BY <1>0 DEF IInv, StoryFits, Story
<1> QED
  BY <1>2, <1>3, <1>4, <1>5 DEF IInv

LEMMA KeepStart == ASSUME IInv, Start PROVE IInv'
<1> DEFINE e == Event("step_started", 0)
<1>0. /\ pc = "start" /\ max_attempts' = (step.max_retries + 1) % (U32_MAX + 1)
      /\ attempt' = IF max_attempts' = 0 THEN 0 ELSE 1
      /\ events' = Append(events, e)
      /\ pc' = IF max_attempts' = 0 THEN "exhausted" ELSE "attempt"
      /\ step' = step /\ overflow_checks' = overflow_checks /\ handler' = handler
      /\ delays' = delays /\ result' = result
  BY DEF Start
<1>1. /\ step.max_retries \in 0 .. U32_MAX /\ U32_MAX \in Nat \ {0} /\ attempt = 0
      /\ events = <<>> /\ delays = <<>> /\ events \in Seq(EventRec)
      /\ handler \in [Attempt -> {"none", "running", "Ok", "Err", "timeout", "panicked", "dropped"}]
      /\ result = NoResult
  BY <1>0, Typed DEF IInv, Stages
<1>2. /\ max_attempts' = IF Overflows THEN 0 ELSE step.max_retries + 1
      /\ max_attempts' \in 0 .. U32_MAX
  <2>1. max_attempts' = IF step.max_retries = U32_MAX THEN 0 ELSE step.max_retries + 1
    BY <1>0, <1>1, WrappedIncrement
  <2> QED
    BY <1>1, <2>1 DEF Overflows
<1>3. e \in EventRec /\ e.type = "step_started"
  BY <1>1, EventTyped
<1> HIDE DEF e
<1>4. /\ events' \in Seq(EventRec) /\ events' # <<>>
      /\ \A t : Of(events', t) = Of(events, t) \cup (IF e.type = t THEN {Len(events) + 1} ELSE {})
      /\ \A t : AttemptsOf(events', t) =
                  AttemptsOf(events, t) \cup (IF e.type = t THEN {e.attempt} ELSE {})
  <2>1. events \in Seq(EventRec)
    BY <1>1
  <2>2. /\ Append(events, e) \in Seq(EventRec) /\ Append(events, e) # <<>>
        /\ \A t : Of(Append(events, e), t) =
                    Of(events, t) \cup (IF e.type = t THEN {Len(events) + 1} ELSE {})
        /\ \A t : AttemptsOf(Append(events, e), t) =
                    AttemptsOf(events, t) \cup (IF e.type = t THEN {e.attempt} ELSE {})
    BY <1>3, <2>1, Emitted
  <2> QED
    BY <1>0, <2>2
<1>5. \A t : Of(events, t) = {} /\ AttemptsOf(events, t) = {}
  BY <1>1 DEF Of, AttemptsOf
<1>6. attempt' \in 0 .. max_attempts'
  BY <1>0, <1>2
<1>7. TypeOK'
  BY <1>0, <1>2, <1>4, <1>6 DEF IInv, TypeOK, EventRec
<1>8. Stages' /\ ResultFits'
  BY <1>0, <1>1, <1>2 DEF Stages, ResultFits, Overflows
<1>9. \A a \in Attempt : a > 0 /\ handler[a] = "none"
  <2>1. \A a \in Attempt : a > 0
    BY <1>1 DEF Attempt
  <2> QED
    BY <1>1, <2>1 DEF IInv, Attempts
<1>10. Attempts'
  <2>1. attempt' > 0 => attempt' \in Attempt /\ attempt' = 1 /\ pc' = "attempt"
    BY <1>0, <1>1 DEF Attempt
  <2>2. \A a \in Attempt : ~(a < attempt')
    BY <1>0, <1>1 DEF Attempt
  <2> QED
    BY <1>0, <1>9, <2>1, <2>2 DEF Attempts
<1>11. StoryFits'
  <2>1. Story' = events' /\ pc' \in {"exhausted", "attempt"}
    BY <1>0 DEF Story
  <2>2. Of(events', "step_started") = {1} /\ Of(events', "step_completed") = {}
    <3>1. Len(events) + 1 = 1
      BY <1>1
    <3> QED
      BY <1>3, <1>4, <1>5, <3>1
  <2>3. AttemptsOf(events', "step_failed") = {} /\ AttemptsOf(events', "step_retry") = {}
    BY <1>3, <1>4, <1>5
  <2>4. {a \in Attempt : handler'[a] = "timeout"} = {} /\ 1 .. attempt' - 1 = {}
    BY <1>0, <1>9
  <2> QED
    BY <1>4, <2>1, <2>2, <2>3, <2>4 DEF StoryFits
<1>12. DelaysFit'
  BY <1>0, <1>1 DEF DelaysFit
<1> QED
  BY <1>7, <1>8, <1>10, <1>11, <1>12 DEF IInv

LEMMA KeepCall == ASSUME IInv, Call PROVE IInv'
<1>0. /\ pc = "attempt" /\ pc' = "await" /\ handler' = [handler EXCEPT ![attempt] = "running"]
      /\ step' = step /\ overflow_checks' = overflow_checks
      /\ max_attempts' = max_attempts /\ attempt' = attempt
      /\ delays' = delays /\ events' = events /\ result' = result
  BY DEF Call
<1>1. /\ attempt \in Attempt /\ attempt > 0
      /\ handler \in [Attempt -> {"none", "running", "Ok", "Err", "timeout", "panicked", "dropped"}]
      /\ handler[attempt] = "none"
  BY <1>0, Typed DEF IInv, Stages, Attempts, Attempt
<1>2. /\ handler' \in [Attempt -> {"none", "running"} \cup AttemptEnd]
      /\ handler'[attempt] = "running"
      /\ \A a \in Attempt : a # attempt => handler'[a] = handler[a]
  BY <1>0, <1>1 DEF AttemptEnd
<1>3. TypeOK' /\ DelaysFit' /\ Stages' /\ ResultFits'
  BY <1>0, <1>2 DEF IInv, TypeOK, DelaysFit, Stages, ResultFits, Overflows
<1>4. Attempts'
  <2>1. \A a \in Attempt : (a < attempt \/ a > attempt) => a # attempt
    BY <1>1 DEF Attempt
  <2> QED
    BY <1>0, <1>2, <2>1 DEF IInv, Attempts
<1>5. StoryFits'
  <2>1. {a \in Attempt : handler'[a] = "timeout"} = {a \in Attempt : handler[a] = "timeout"}
    BY <1>1, <1>2
  <2>2. Story' = Story
    BY <1>0 DEF Story
  <2> QED
    BY <1>0, <2>1, <2>2 DEF IInv, StoryFits
<1> QED
  BY <1>3, <1>4, <1>5 DEF IInv

LEMMA KeepWake == ASSUME IInv, Wake PROVE IInv'
<1>0. /\ pc = "sleep" /\ pc' = "attempt" /\ attempt' = attempt + 1 /\ handler' = handler
      /\ step' = step /\ overflow_checks' = overflow_checks /\ max_attempts' = max_attempts
      /\ delays' = delays /\ events' = events /\ result' = result
  BY DEF Wake
<1>1. /\ attempt \in Nat /\ max_attempts \in Nat /\ attempt < max_attempts /\ attempt > 0
      /\ attempt + 1 \in Attempt /\ attempt \in Attempt
  BY <1>0, Typed DEF IInv, Stages, Attempt
<1>2. TypeOK' /\ Stages' /\ ResultFits'
  BY <1>0, <1>1 DEF IInv, TypeOK, Stages, ResultFits, Overflows
<1>3. Attempts'
  <2>1. \A a \in Attempt : /\ a < attempt + 1 => a < attempt \/ a = attempt
                           /\ a > attempt + 1 => a > attempt
    BY <1>1 DEF Attempt
  <2>2. attempt + 1 > attempt
    BY <1>1
  <2>3. handler[attempt] \in Failure /\ handler[attempt + 1] = "none"
    BY <1>0, <1>1, <2>2 DEF IInv, Attempts
  <2> QED
    BY <1>0, <2>1, <2>3 DEF IInv, Attempts
<1>4. StoryFits'
  <2>1. Story' = Story /\ attempt' - 1 = attempt
    BY <1>0, <1>1 DEF Story
  <2> QED
    BY <1>0, <2>1 DEF IInv, StoryFits
<1>5. DelaysFit'
  <2>1. attempt' - 1 = attempt
    BY <1>0, <1>1
  <2> QED
    BY <1>0, <2>1 DEF IInv, DelaysFit
<1> QED
  BY <1>2, <1>3, <1>4, <1>5 DEF IInv

\* The executor is unwound or dropped: only the attempt at work is marked.
LEMMA KeepEnd == ASSUME IInv, HandlerPanics \/ Abort PROVE IInv'
<1>0. /\ pc \in {"await", "sleep"} /\ pc' \in {"panicked", "dropped"}
      /\ step' = step /\ overflow_checks' = overflow_checks
      /\ max_attempts' = max_attempts /\ attempt' = attempt
      /\ delays' = delays /\ events' = events /\ result' = result
      /\ \/ /\ pc = "await" /\ pc' = "panicked"
            /\ handler' = [handler EXCEPT ![attempt] = "panicked"]
         \/ /\ pc = "await" /\ pc' = "dropped"
            /\ handler' = [handler EXCEPT ![attempt] = "dropped"]
         \/ pc = "sleep" /\ pc' = "dropped" /\ handler' = handler
  BY DEF HandlerPanics, Abort
<1>1. /\ attempt \in Attempt /\ attempt > 0
      /\ handler \in [Attempt -> {"none", "running", "Ok", "Err", "timeout", "panicked", "dropped"}]
      /\ pc = "await" => handler[attempt] = "running"
      /\ pc = "sleep" => handler[attempt] \in Failure
  BY <1>0, Typed DEF IInv, Stages, Attempts, Attempt
<1>2. /\ handler' \in [Attempt -> {"none", "running"} \cup AttemptEnd]
      /\ pc' = "panicked" => handler'[attempt] = "panicked"
      /\ pc' = "dropped" => handler'[attempt] \in Failure \cup {"dropped"}
      /\ \A a \in Attempt : a # attempt => handler'[a] = handler[a]
      /\ handler'[attempt] = "timeout" <=> handler[attempt] = "timeout"
  BY <1>0, <1>1 DEF AttemptEnd, Failure
<1>3. TypeOK' /\ DelaysFit' /\ Stages' /\ ResultFits'
  BY <1>0, <1>2 DEF IInv, TypeOK, DelaysFit, Stages, ResultFits, Overflows
<1>4. Attempts'
  <2>1. \A a \in Attempt : (a < attempt \/ a > attempt) => a # attempt
    BY <1>1 DEF Attempt
  <2> QED
    BY <1>0, <1>2, <2>1 DEF IInv, Attempts
<1>5. StoryFits'
  <2>1. {a \in Attempt : handler'[a] = "timeout"} = {a \in Attempt : handler[a] = "timeout"}
    BY <1>1, <1>2
  <2>2. Story' = Story
    BY <1>0 DEF Story
  <2> QED
    BY <1>0, <2>1, <2>2 DEF IInv, StoryFits
<1> QED
  BY <1>3, <1>4, <1>5 DEF IInv

\* The attempt at work ends as h with an error, after mid was emitted.
LEMMA KeepFailure ==
  ASSUME IInv, NEW h \in Failure, pc = "await",
         handler' = [handler EXCEPT ![attempt] = h],
         NEW mid,
         mid = IF h = "timeout" THEN Append(events, Event("step_failed", attempt)) ELSE events,
         IF attempt < max_attempts
         THEN /\ events' = Append(mid, Event("step_retry", attempt))
              /\ delays' = Append(delays, delay_ms(step.backoff, step.retry_delay_ms, attempt))
              /\ pc' = "sleep"
         ELSE events' = mid /\ delays' = delays /\ pc' = "exhausted",
         UNCHANGED <<step, overflow_checks, max_attempts, attempt, result>>
  PROVE  IInv'
<1>0. /\ step' = step /\ overflow_checks' = overflow_checks
      /\ max_attempts' = max_attempts /\ attempt' = attempt /\ result' = result
      /\ pc' \in {"sleep", "exhausted"}
  OBVIOUS
<1>1. /\ attempt \in Attempt /\ attempt > 0 /\ attempt \in Nat /\ max_attempts \in Nat
      /\ attempt <= max_attempts /\ attempt \in 0 .. U32_MAX
      /\ events \in Seq(EventRec) /\ delays \in Seq(Nat)
      /\ step.backoff \in Strategy /\ step.retry_delay_ms \in 0 .. U64_MAX
      /\ handler \in [Attempt -> {"none", "running", "Ok", "Err", "timeout", "panicked", "dropped"}]
      /\ handler[attempt] = "running"
  BY Typed DEF IInv, Stages, Attempts, Attempt
<1>2. /\ handler' \in [Attempt -> {"none", "running"} \cup AttemptEnd]
      /\ handler'[attempt] = h
      /\ \A a \in Attempt : a # attempt => handler'[a] = handler[a]
  BY <1>1 DEF AttemptEnd, Failure
<1>e. /\ Event("step_failed", attempt) \in EventRec
      /\ Event("step_failed", attempt).type = "step_failed"
      /\ Event("step_failed", attempt).attempt = attempt
      /\ Event("step_retry", attempt) \in EventRec
      /\ Event("step_retry", attempt).type = "step_retry"
      /\ Event("step_retry", attempt).attempt = attempt
  BY <1>1, EventTyped
<1>b. /\ Of(events, "step_started") = {1} /\ Of(events, "step_completed") = {}
      /\ AttemptsOf(events, "step_failed") = {a \in Attempt : handler[a] = "timeout"}
      /\ AttemptsOf(events, "step_retry") = 1 .. attempt - 1
      /\ events # <<>>
  BY DEF IInv, StoryFits, Story
<1>m. /\ mid \in Seq(EventRec) /\ mid # <<>>
      /\ Of(mid, "step_started") = {1} /\ Of(mid, "step_completed") = {}
      /\ AttemptsOf(mid, "step_failed") = {a \in Attempt : handler'[a] = "timeout"}
      /\ AttemptsOf(mid, "step_retry") = 1 .. attempt - 1
  <2>1. CASE h = "timeout"
    <3> DEFINE e == Event("step_failed", attempt)
    <3>1. mid = Append(events, e)
      BY <2>1
    <3>2. e \in EventRec /\ e.type = "step_failed" /\ e.attempt = attempt
      BY <1>e
    <3> HIDE DEF e
    <3>3. /\ mid \in Seq(EventRec) /\ mid # <<>>
          /\ \A t : Of(mid, t) = Of(events, t) \cup (IF e.type = t THEN {Len(events) + 1} ELSE {})
          /\ \A t : AttemptsOf(mid, t) =
                      AttemptsOf(events, t) \cup (IF e.type = t THEN {e.attempt} ELSE {})
      BY <1>1, <3>1, <3>2, Emitted
    <3>4. /\ Of(mid, "step_started") = {1} /\ Of(mid, "step_completed") = {}
          /\ AttemptsOf(mid, "step_retry") = 1 .. attempt - 1
          /\ AttemptsOf(mid, "step_failed") = {a \in Attempt : handler[a] = "timeout"} \cup {attempt}
      BY <1>b, <3>2, <3>3
    <3>5. {a \in Attempt : handler'[a] = "timeout"} =
          {a \in Attempt : handler[a] = "timeout"} \cup {attempt}
      BY <1>1, <1>2, <2>1
    <3> QED
      BY <3>3, <3>4, <3>5
  <2>2. CASE h # "timeout"
    <3>1. {a \in Attempt : handler'[a] = "timeout"} = {a \in Attempt : handler[a] = "timeout"}
      BY <1>1, <1>2, <2>2
    <3> QED
      BY <1>1, <1>b, <2>2, <3>1
  <2> QED
    BY <2>1, <2>2
<1>3. /\ events' \in Seq(EventRec) /\ StoryFits'
  <2>0. Story' = events'
    BY <1>0 DEF Story
  <2>1. CASE attempt < max_attempts
    <3> DEFINE e == Event("step_retry", attempt)
    <3>1. events' = Append(mid, e) /\ pc' = "sleep"
      BY <2>1
    <3>2. e \in EventRec /\ e.type = "step_retry" /\ e.attempt = attempt
      BY <1>e
    <3> HIDE DEF e
    <3>3. /\ events' \in Seq(EventRec) /\ events' # <<>>
          /\ \A t : Of(events', t) = Of(mid, t) \cup (IF e.type = t THEN {Len(mid) + 1} ELSE {})
          /\ \A t : AttemptsOf(events', t) =
                      AttemptsOf(mid, t) \cup (IF e.type = t THEN {e.attempt} ELSE {})
      <4>1. mid \in Seq(EventRec)
        BY <1>m
      <4>2. /\ Append(mid, e) \in Seq(EventRec) /\ Append(mid, e) # <<>>
            /\ \A t : Of(Append(mid, e), t) =
                        Of(mid, t) \cup (IF e.type = t THEN {Len(mid) + 1} ELSE {})
            /\ \A t : AttemptsOf(Append(mid, e), t) =
                        AttemptsOf(mid, t) \cup (IF e.type = t THEN {e.attempt} ELSE {})
        <5> DEFINE q == mid
        <5>1. q \in Seq(EventRec)
          BY <4>1
        <5> HIDE DEF q
        <5>2. /\ Append(q, e) \in Seq(EventRec) /\ Append(q, e) # <<>>
              /\ \A t : Of(Append(q, e), t) =
                          Of(q, t) \cup (IF e.type = t THEN {Len(q) + 1} ELSE {})
              /\ \A t : AttemptsOf(Append(q, e), t) =
                          AttemptsOf(q, t) \cup (IF e.type = t THEN {e.attempt} ELSE {})
          BY <3>2, <5>1, Emitted
        <5> QED
          BY <5>2 DEF q
      <4> QED
        BY <3>1, <4>2
    <3>4. /\ Of(events', "step_started") = {1} /\ Of(events', "step_completed") = {}
          /\ AttemptsOf(events', "step_failed") = {a \in Attempt : handler'[a] = "timeout"}
          /\ AttemptsOf(events', "step_retry") = 1 .. attempt - 1 \cup {attempt}
      <4>1. ASSUME NEW t, t # "step_retry"
            PROVE  Of(events', t) = Of(mid, t) /\ AttemptsOf(events', t) = AttemptsOf(mid, t)
        <5>1. /\ Of(events', t) = Of(mid, t) \cup (IF e.type = t THEN {Len(mid) + 1} ELSE {})
              /\ AttemptsOf(events', t) =
                   AttemptsOf(mid, t) \cup (IF e.type = t THEN {e.attempt} ELSE {})
          BY <3>3
        <5>2. e.type # t
          BY <3>2, <4>1
        <5> QED
          BY <5>1, <5>2
      <4>2. /\ Of(events', "step_started") = Of(mid, "step_started")
            /\ Of(events', "step_completed") = Of(mid, "step_completed")
            /\ AttemptsOf(events', "step_failed") = AttemptsOf(mid, "step_failed")
        BY <4>1
      <4>3. AttemptsOf(events', "step_retry") = AttemptsOf(mid, "step_retry") \cup {attempt}
        BY <3>2, <3>3
      <4>4. /\ Of(mid, "step_started") = {1} /\ Of(mid, "step_completed") = {}
            /\ AttemptsOf(mid, "step_failed") = {a \in Attempt : handler'[a] = "timeout"}
            /\ AttemptsOf(mid, "step_retry") = 1 .. attempt - 1
        BY <1>m
      <4> QED
        BY <4>2, <4>3, <4>4
    <3>5. 1 .. attempt - 1 \cup {attempt} = 1 .. attempt
      BY <1>1
    <3> QED
      BY <1>0, <2>0, <3>1, <3>3, <3>4, <3>5 DEF StoryFits
  <2>2. CASE ~(attempt < max_attempts)
    <3>1. events' = mid /\ pc' = "exhausted"
      BY <2>2
    <3> QED
      BY <1>0, <1>m, <2>0, <3>1 DEF StoryFits
  <2> QED
    BY <2>1, <2>2
<1>4. delays' \in Seq(Nat) /\ DelaysFit'
  <2>0. Len(delays) = attempt - 1 /\ Len(delays) + 1 = attempt
        /\ \A i \in DOMAIN delays : delays[i] = delay_ms(step.backoff, step.retry_delay_ms, i)
    BY <1>1 DEF IInv, DelaysFit
  <2>1. CASE attempt < max_attempts
    <3> DEFINE d == delay_ms(step.backoff, step.retry_delay_ms, attempt)
    <3>1. d \in Nat
      <4>1. attempt \in Nat \ {0} /\ step.backoff \in Strategy /\ step.retry_delay_ms \in 0 .. U64_MAX
        BY <1>1
      <4>2. d \in 0 .. U64_MAX
        BY <4>1, DelayGrows
      <4> HIDE DEF d
      <4> QED
        BY <4>2, WidthAssumption
    <3>2. delays' = Append(delays, d) /\ pc' = "sleep"
      BY <2>1
    <3> HIDE DEF d
    <3>3. /\ delays' \in Seq(Nat) /\ Len(delays') = Len(delays) + 1
          /\ DOMAIN delays = 1 .. Len(delays) /\ DOMAIN delays' = 1 .. Len(delays) + 1
          /\ \A i \in 1 .. Len(delays) : delays'[i] = delays[i]
          /\ delays'[Len(delays) + 1] = d
          /\ Len(delays) \in Nat
      BY <1>1, <3>1, <3>2, AppendShape
    <3>4. \A i \in 1 .. Len(delays) + 1 : i \in 1 .. Len(delays) \/ i = attempt
      BY <2>0, <3>3
    <3>5. \A i \in DOMAIN delays' : delays'[i] = delay_ms(step.backoff, step.retry_delay_ms, i)
      BY <2>0, <3>3, <3>4 DEF d
    <3> QED
      BY <1>0, <2>0, <3>2, <3>3, <3>5 DEF DelaysFit
  <2>2. CASE ~(attempt < max_attempts)
    BY <1>0, <1>1, <2>0, <2>2 DEF DelaysFit
  <2> QED
    BY <2>1, <2>2
<1>5. TypeOK'
  BY <1>0, <1>2, <1>3, <1>4 DEF IInv, TypeOK, EventRec
<1>6. Stages' /\ ResultFits'
  <2>1. /\ pc' = "sleep" => attempt < max_attempts
        /\ pc' = "exhausted" => attempt = max_attempts
    BY <1>1
  <2> QED
    BY <1>0, <1>1, <2>1 DEF IInv, Stages, ResultFits, Overflows
<1>7. Attempts'
  <2>1. \A a \in Attempt : (a < attempt \/ a > attempt) => a # attempt
    BY <1>1 DEF Attempt
  <2> QED
    BY <1>0, <1>2, <2>1 DEF IInv, Attempts
<1> QED
  BY <1>3, <1>4, <1>5, <1>6, <1>7 DEF IInv

LEMMA KeepAttemptFailed == ASSUME IInv, HandlerErr \/ TimesOut PROVE IInv'
<1>0. events \in Seq(EventRec) /\ attempt \in 0 .. U32_MAX
  BY Typed DEF IInv
<1> DEFINE f == Event("step_failed", attempt)
           r == Event("step_retry", attempt)
<1>1. f \in EventRec /\ r \in EventRec
  BY <1>0, EventTyped
<1> HIDE DEF f, r
<1>2. /\ events \o <<>> = events /\ events \o <<f>> = Append(events, f)
      /\ events \o <<r>> = Append(events, r)
      /\ (events \o <<f>>) \o <<r>> = Append(Append(events, f), r)
  <2>1. Append(events, f) \in Seq(EventRec)
    BY <1>0, <1>1, AppendShape
  <2>2. events \o <<>> = events
    BY <1>0, ConcatEmptySeq
  <2>3. events \o <<f>> = Append(events, f) /\ events \o <<r>> = Append(events, r)
    BY <1>0, <1>1
  <2>4. Append(events, f) \o <<r>> = Append(Append(events, f), r)
    BY <1>1, <2>1
  <2> QED
    BY <2>2, <2>3, <2>4
<1>3. CASE HandlerErr
  <2>1. /\ pc = "await" /\ handler' = [handler EXCEPT ![attempt] = "Err"]
        /\ IF attempt < max_attempts
           THEN /\ events' = Append(events, r)
                /\ delays' = Append(delays, delay_ms(step.backoff, step.retry_delay_ms, attempt))
                /\ pc' = "sleep"
           ELSE events' = events /\ delays' = delays /\ pc' = "exhausted"
        /\ UNCHANGED <<step, overflow_checks, max_attempts, attempt, result>>
    BY <1>2, <1>3 DEF HandlerErr, AttemptFailed, r
  <2> QED
    BY <2>1, KeepFailure DEF Failure, r
<1>4. CASE TimesOut
  <2>1. /\ pc = "await" /\ handler' = [handler EXCEPT ![attempt] = "timeout"]
        /\ IF attempt < max_attempts
           THEN /\ events' = Append(Append(events, f), r)
                /\ delays' = Append(delays, delay_ms(step.backoff, step.retry_delay_ms, attempt))
                /\ pc' = "sleep"
           ELSE events' = Append(events, f) /\ delays' = delays /\ pc' = "exhausted"
        /\ UNCHANGED <<step, overflow_checks, max_attempts, attempt, result>>
    BY <1>2, <1>4 DEF TimesOut, AttemptFailed, f, r
  <2> QED
    BY <2>1, KeepFailure DEF Failure, f, r
<1> QED
  BY <1>3, <1>4

LEMMA KeepHandlerOk == ASSUME IInv, HandlerOk PROVE IInv'
<1> DEFINE e == Event("step_completed", attempt)
<1>0. /\ pc = "await" /\ pc' = "done" /\ handler' = [handler EXCEPT ![attempt] = "Ok"]
      /\ events' = Append(events, e)
      /\ result' = [status |-> "Completed", attempts |-> attempt, error |-> "none"]
      /\ step' = step /\ overflow_checks' = overflow_checks
      /\ max_attempts' = max_attempts /\ attempt' = attempt /\ delays' = delays
  BY DEF HandlerOk
<1>1. /\ attempt \in Attempt /\ attempt > 0 /\ attempt \in 0 .. U32_MAX
      /\ events \in Seq(EventRec)
      /\ handler \in [Attempt -> {"none", "running", "Ok", "Err", "timeout", "panicked", "dropped"}]
      /\ handler[attempt] = "running"
  BY <1>0, Typed DEF IInv, Stages, Attempts, Attempt
<1>2. /\ handler' \in [Attempt -> {"none", "running"} \cup AttemptEnd]
      /\ handler'[attempt] = "Ok"
      /\ \A a \in Attempt : a # attempt => handler'[a] = handler[a]
  BY <1>0, <1>1 DEF AttemptEnd
<1>3. /\ events' \in Seq(EventRec) /\ events' # <<>>
      /\ SubSeq(events', 1, Len(events') - 1) = events
      /\ events'[Len(events')] = e
  <2>1. events \in Seq(EventRec) /\ e \in EventRec
    BY <1>1, EventTyped
  <2> HIDE DEF e
  <2>2. /\ Append(events, e) \in Seq(EventRec) /\ Append(events, e) # <<>>
        /\ SubSeq(Append(events, e), 1, Len(Append(events, e)) - 1) = events
        /\ Append(events, e)[Len(Append(events, e))] = e
    BY <2>1, Emitted
  <2> QED
    BY <1>0, <2>2
<1>4. result' \in [status : {"none", "Completed", "Failed"}, attempts : 0 .. U32_MAX,
                   error : {"none", "RetryExhausted", "Err", "timeout"}]
      /\ result' # NoResult /\ result'.status = "Completed"
  BY <1>0, <1>1 DEF NoResult
<1>5. TypeOK' /\ DelaysFit'
  BY <1>0, <1>2, <1>3, <1>4 DEF IInv, TypeOK, DelaysFit, EventRec
<1>6. Stages'
  BY <1>0, <1>4 DEF IInv, Stages, Overflows
<1>7. ResultFits'
  BY <1>0, <1>1, <1>2 DEF ResultFits
<1>8. Attempts'
  <2>1. \A a \in Attempt : (a < attempt \/ a > attempt) => a # attempt
    BY <1>1 DEF Attempt
  <2> QED
    BY <1>0, <1>2, <2>1 DEF IInv, Attempts
<1>9. StoryFits'
  <2>1. {a \in Attempt : handler'[a] = "timeout"} = {a \in Attempt : handler[a] = "timeout"}
    BY <1>1, <1>2
  <2>2. Story' = Story /\ Story = events
    BY <1>0, <1>3 DEF Story
  <2>3. /\ Of(Story, "step_started") = IF Story = <<>> THEN {} ELSE {1}
        /\ Of(Story, "step_completed") = {} /\ Story # <<>>
        /\ AttemptsOf(Story, "step_failed") = {a \in Attempt : handler[a] = "timeout"}
        /\ AttemptsOf(Story, "step_retry") = 1 .. attempt - 1
    BY <1>0 DEF IInv, StoryFits
  <2> HIDE DEF e
  <2>4. events'[Len(events')] = Event("step_completed", attempt)
    BY <1>3 DEF e
  <2> QED
    BY <1>0, <1>3, <1>4, <2>1, <2>2, <2>3, <2>4 DEF StoryFits
<1> QED
  BY <1>5, <1>6, <1>7, <1>8, <1>9 DEF IInv

LEMMA KeepExhaust == ASSUME IInv, Exhaust PROVE IInv'
<1> DEFINE e == Event("step_failed", max_attempts)
<1>0. /\ pc = "exhausted" /\ pc' = "done" /\ handler' = handler
      /\ events' = Append(events, e)
      /\ result' = [status |-> "Failed", attempts |-> max_attempts,
                    error |-> IF max_attempts > 1 THEN "RetryExhausted" ELSE last_error]
      /\ step' = step /\ overflow_checks' = overflow_checks
      /\ max_attempts' = max_attempts /\ attempt' = attempt /\ delays' = delays
  BY DEF Exhaust
<1>1. /\ attempt = max_attempts /\ attempt \in 0 .. U32_MAX
      /\ events \in Seq(EventRec)
      /\ attempt > 0 => handler[attempt] \in Failure
  BY <1>0, Typed DEF IInv, Stages, Attempts
<1>3. /\ events' \in Seq(EventRec) /\ events' # <<>>
      /\ SubSeq(events', 1, Len(events') - 1) = events
      /\ events'[Len(events')] = e
  <2>1. events \in Seq(EventRec) /\ e \in EventRec
    BY <1>1, EventTyped
  <2> HIDE DEF e
  <2>2. /\ Append(events, e) \in Seq(EventRec) /\ Append(events, e) # <<>>
        /\ SubSeq(Append(events, e), 1, Len(Append(events, e)) - 1) = events
        /\ Append(events, e)[Len(Append(events, e))] = e
    BY <2>1, Emitted
  <2> QED
    BY <1>0, <2>2
<1>4. result' \in [status : {"none", "Completed", "Failed"}, attempts : 0 .. U32_MAX,
                   error : {"none", "RetryExhausted", "Err", "timeout"}]
      /\ result' # NoResult /\ result'.status = "Failed" /\ result'.attempts = attempt
  <2>1. last_error \in {"none", "Err", "timeout"}
    BY <1>1 DEF last_error, Failure
  <2> QED
    BY <1>0, <1>1, <2>1 DEF NoResult
<1>5. TypeOK' /\ DelaysFit'
  BY <1>0, <1>3, <1>4 DEF IInv, TypeOK, DelaysFit, EventRec
<1>6. Stages'
  BY <1>0, <1>4 DEF IInv, Stages, Overflows
<1>7. ResultFits'
  BY <1>0, <1>1, <1>4 DEF ResultFits
<1>8. Attempts'
  BY <1>0, <1>1 DEF IInv, Attempts
<1>9. StoryFits'
  <2>2. Story' = Story /\ Story = events
    BY <1>0, <1>3 DEF Story
  <2>3. /\ Of(Story, "step_started") = IF Story = <<>> THEN {} ELSE {1}
        /\ Of(Story, "step_completed") = {} /\ Story # <<>>
        /\ AttemptsOf(Story, "step_failed") = {a \in Attempt : handler[a] = "timeout"}
        /\ AttemptsOf(Story, "step_retry") = 1 .. attempt - 1
    BY <1>0 DEF IInv, StoryFits
  <2> HIDE DEF e
  <2>4. events'[Len(events')] = Event("step_failed", attempt)
    BY <1>1, <1>3 DEF e
  <2> QED
    BY <1>0, <1>3, <1>4, <2>2, <2>3, <2>4 DEF StoryFits
<1> QED
  BY <1>5, <1>6, <1>7, <1>8, <1>9 DEF IInv

LEMMA InitIInv == Init => IInv
<1> SUFFICES ASSUME Init PROVE IInv
  OBVIOUS
<1>0. /\ step \in StepDef /\ overflow_checks \in BOOLEAN /\ pc = "start" /\ max_attempts = 0
      /\ attempt = 0 /\ handler = [a \in Attempt |-> "none"] /\ delays = <<>> /\ events = <<>>
      /\ result = NoResult
  BY DEF Init, InitWith
<1>1. U32_MAX \in Nat \ {0} /\ 0 \in 0 .. U32_MAX
  BY WidthAssumption
<1>2. TypeOK
  BY <1>0, <1>1 DEF TypeOK, NoResult
<1>3. Stages /\ ResultFits
  BY <1>0 DEF Stages, ResultFits
<1>4. Attempts
  <2>1. \A a \in Attempt : ~(a < 0)
    BY <1>1 DEF Attempt
  <2> QED
    BY <1>0, <2>1 DEF Attempts
<1>5. StoryFits
  <2>1. Story = <<>> /\ DOMAIN Story = {} /\ 1 .. attempt - 1 = {}
    BY <1>0 DEF Story
  <2>2. \A t : Of(Story, t) = {} /\ AttemptsOf(Story, t) = {}
    BY <2>1 DEF Of, AttemptsOf
  <2>3. {a \in Attempt : handler[a] = "timeout"} = {}
    BY <1>0
  <2> QED
    BY <1>0, <2>1, <2>2, <2>3 DEF StoryFits
<1>6. DelaysFit
  BY <1>0 DEF DelaysFit
<1> QED
  BY <1>2, <1>3, <1>4, <1>5, <1>6 DEF IInv

LEMMA NextIInv == IInv /\ [Next]_vars => IInv'
<1> SUFFICES ASSUME IInv, [Next]_vars PROVE IInv'
  OBVIOUS
<1>1. CASE Executor
  BY <1>1, KeepStartOverflow, KeepStart, KeepCall, KeepWake, KeepExhaust DEF Executor
<1>2. CASE HandlerReturns
  BY <1>2, KeepHandlerOk, KeepAttemptFailed DEF HandlerReturns
<1>3. CASE TimesOut
  BY <1>3, KeepAttemptFailed
<1>4. CASE HandlerPanics \/ Abort
  BY <1>4, KeepEnd
<1>5. CASE UNCHANGED vars
  BY <1>5 DEF vars, IInv, TypeOK, Stages, Attempts, ResultFits, StoryFits, Story, DelaysFit, Overflows
<1> QED
  BY <1>1, <1>2, <1>3, <1>4, <1>5 DEF Next

\* execute_step_with_handler keeps IInv, for every StepDef and every width of the
\* integers: where it is decides what its attempts, events and delays look like.
THEOREM Invariance == Spec => []IInv
BY InitIInv, NextIInv, PTL DEF Spec

(***************************************************************************)
(* What follows from IInv.                                                 *)
(***************************************************************************)

\* A story that is not empty is its beginning and its last event.
LEMMA LastEvent ==
  ASSUME NEW q \in Seq(EventRec), q # <<>>
  PROVE  /\ Len(q) \in Nat /\ Len(q) > 0
         /\ SubSeq(q, 1, Len(q) - 1) \in Seq(EventRec) /\ q[Len(q)] \in EventRec
         /\ Len(SubSeq(q, 1, Len(q) - 1)) = Len(q) - 1
         /\ q = Append(SubSeq(q, 1, Len(q) - 1), q[Len(q)])
<1> DEFINE m == Len(q) - 1
           p == SubSeq(q, 1, m)
<1>1. Len(q) \in Nat /\ Len(q) > 0 /\ DOMAIN q = 1 .. Len(q)
      /\ \A a \in 1 .. Len(q) : q[a] \in EventRec
  BY EmptySeq, LenProperties
<1>2. m \in Nat /\ 1 \in Int /\ m \in Int /\ Len(q) = m + 1
  BY <1>1
<1>3. \A a \in 1 .. m : q[a] \in EventRec
  BY <1>1, <1>2
<1> HIDE DEF m
<1>4. /\ SubSeq(q, 1, m) \in Seq(EventRec)
      /\ Len(SubSeq(q, 1, m)) = IF 1 <= m THEN m - 1 + 1 ELSE 0
      /\ \A a \in 1 .. m - 1 + 1 : SubSeq(q, 1, m)[a] = q[1 + a - 1]
  BY <1>2, <1>3, SubSeqProperties
<1>5. p \in Seq(EventRec) /\ Len(p) = m /\ \A a \in 1 .. m : p[a] = q[a]
  BY <1>2, <1>4
<1> DEFINE x == q[Len(q)]
<1>6. x \in EventRec
  BY <1>1
<1>x. x = q[m + 1]
  BY <1>2
<1> HIDE DEF p, x
<1>7. /\ Append(p, x) \in Seq(EventRec) /\ Len(Append(p, x)) = m + 1
      /\ \A a \in 1 .. m : Append(p, x)[a] = p[a]
      /\ Append(p, x)[m + 1] = x
  BY <1>5, <1>6, AppendShape
<1>8. \A a \in 1 .. m + 1 : a \in 1 .. m \/ a = m + 1
  BY <1>2
<1>9. \A a \in 1 .. m + 1 : q[a] = Append(p, x)[a]
  BY <1>5, <1>7, <1>8, <1>x
<1>10. q = Append(p, x)
  BY <1>2, <1>7, <1>9, SeqEqual
<1> QED
  BY <1>1, <1>2, <1>5, <1>6, <1>10 DEF p, x, m

LEMMA ImpliesInv == IInv => Inv
<1> SUFFICES ASSUME IInv PROVE Inv
  OBVIOUS
<1>1. /\ attempt \in Nat /\ max_attempts \in Nat /\ U32_MAX \in Nat /\ attempt <= U32_MAX
      /\ handler \in [Attempt -> {"none", "running", "Ok", "Err", "timeout", "panicked", "dropped"}]
      /\ step.max_retries \in 0 .. U32_MAX
  BY Typed DEF IInv
<1>2. /\ \A a \in Attempt : a < attempt => handler[a] \in Failure
      /\ \A a \in Attempt : a > attempt => handler[a] = "none"
  BY DEF IInv, Attempts
<1>3. \A a \in Attempt : a \in Nat /\ a > 0 /\ (a < attempt \/ a = attempt \/ a > attempt)
  BY <1>1 DEF Attempt
<1>4. NoOrphan
  <2>1. ASSUME NEW a \in Attempt PROVE handler[a] = "running" <=> pc = "await" /\ a = attempt
    <3>1. CASE a = attempt
      <4>1. attempt > 0
        BY <1>3, <3>1
      <4>2. handler[attempt] = "running" <=> pc = "await"
        BY <4>1 DEF IInv, Attempts, Failure, TypeOK
      <4> QED
        BY <3>1, <4>2
    <3>2. CASE a # attempt
      BY <1>2, <1>3, <3>2 DEF Failure
    <3> QED
      BY <3>1, <3>2
  <2> QED
    BY <2>1 DEF NoOrphan
<1>5. ResultOfItsAttempt
  <2>1. CASE result.status = "Completed"
    <3>1. result.attempts = attempt /\ attempt > 0 /\ handler[attempt] = "Ok"
      BY <2>1 DEF IInv, Stages, ResultFits, NoResult
    <3> QED
      BY <1>2, <2>1, <3>1 DEF ResultOfItsAttempt, Failure
  <2>2. CASE result.status = "Failed"
    <3>0. pc = "done"
      BY <2>2 DEF IInv, Stages, NoResult
    <3>1. result.attempts = attempt /\ attempt = max_attempts /\ (attempt > 0 => handler[attempt] \in Failure)
      BY <2>2, <3>0 DEF IInv, ResultFits
    <3>2. max_attempts = IF Overflows THEN 0 ELSE step.max_retries + 1
      BY <3>0 DEF IInv, Stages
    <3>3. \A a \in Attempt : IF a <= attempt THEN handler[a] \in Failure ELSE handler[a] = "none"
      BY <1>1, <1>2, <1>3, <3>1
    <3> QED
      BY <2>2, <3>1, <3>2, <3>3 DEF ResultOfItsAttempt, Failure
  <2> QED
    BY <2>1, <2>2 DEF ResultOfItsAttempt
<1> QED
  BY <1>4, <1>5 DEF IInv, Inv

LEMMA ImpliesEvents == IInv => EventsMatchResult
<1> SUFFICES ASSUME IInv PROVE EventsMatchResult
  OBVIOUS
<1>0. events \in Seq(EventRec) /\ attempt \in Nat /\ U32_MAX \in Nat /\ attempt <= U32_MAX
  BY Typed DEF IInv
<1>1. CASE pc # "done"
  <2>1. Story = events /\ result = NoResult
    BY <1>1 DEF Story, IInv, Stages
  <2>2. Of(events, "step_started") \subseteq {1} /\ Of(events, "step_completed") = {}
    BY <2>1 DEF IInv, StoryFits
  <2> QED
    BY <2>1, <2>2 DEF EventsMatchResult, Of, NoResult
<1>2. CASE pc = "done"
  <2> DEFINE n == Len(events)
             last == events[n]
             kind == IF result.status = "Completed" THEN "step_completed" ELSE "step_failed"
  <2>1. /\ events # <<>> /\ last = Event(kind, attempt)
        /\ Story = SubSeq(events, 1, n - 1) /\ Story # <<>>
        /\ Of(Story, "step_started") = {1} /\ Of(Story, "step_completed") = {}
        /\ AttemptsOf(Story, "step_failed") = {a \in Attempt : handler[a] = "timeout"}
        /\ AttemptsOf(Story, "step_retry") = 1 .. attempt - 1
    BY <1>2 DEF IInv, StoryFits, Story
  <2>2. /\ n \in Nat /\ n > 0 /\ Story \in Seq(EventRec) /\ last \in EventRec
        /\ Len(Story) = n - 1 /\ events = Append(Story, last)
    BY <1>0, <2>1, LastEvent
  <2>3. last.type = kind /\ last.attempt = attempt
    BY <2>1 DEF Event
  <2>4. result.attempts = attempt /\ result # NoResult /\ result.status \in {"Completed", "Failed"}
    BY <1>2 DEF IInv, Stages, ResultFits
  <2> HIDE DEF n, last, kind
  <2>5. /\ \A t : Of(Append(Story, last), t) =
                    Of(Story, t) \cup (IF last.type = t THEN {Len(Story) + 1} ELSE {})
        /\ \A t : AttemptsOf(Append(Story, last), t) =
                    AttemptsOf(Story, t) \cup (IF last.type = t THEN {last.attempt} ELSE {})
    <3>1. Story \in Seq(EventRec) /\ last \in EventRec
      BY <2>2
    <3> QED
      BY <3>1, Emitted
  <2>6. /\ \A t : Of(events, t) = Of(Story, t) \cup (IF kind = t THEN {n} ELSE {})
        /\ \A t : AttemptsOf(events, t) = AttemptsOf(Story, t) \cup (IF kind = t THEN {attempt} ELSE {})
    <3>1. Len(Story) + 1 = n
      BY <2>2
    <3>2. events = Append(Story, last)
      BY <2>2
    <3> QED
      BY <2>3, <2>5, <3>1, <3>2
  <2>7. kind \in {"step_completed", "step_failed"} /\ (kind = "step_completed" <=> result.status = "Completed")
    BY DEF kind
  <2>8. /\ Of(events, "step_started") = {1}
        /\ Of(events, "step_completed") # {} <=> result.status = "Completed"
        /\ AttemptsOf(events, "step_retry") = 1 .. attempt - 1
        /\ Of(events, "step_failed") \ {n} = Of(Story, "step_failed") \ {n}
    BY <2>1, <2>6, <2>7
  <2>9. Of(Story, "step_failed") \ {n} = Of(Story, "step_failed")
        /\ \A i \in Of(Story, "step_failed") : events[i] = Story[i]
    <3>1. /\ DOMAIN Story = 1 .. n - 1
          /\ \A i \in 1 .. n - 1 : events[i] = Story[i]
      <4>1. Story \in Seq(EventRec) /\ last \in EventRec
        BY <2>2
      <4>2. DOMAIN Story = 1 .. Len(Story) /\ \A i \in 1 .. Len(Story) : Append(Story, last)[i] = Story[i]
        BY <4>1, AppendShape
      <4>3. Len(Story) = n - 1 /\ events = Append(Story, last)
        BY <2>2
      <4> QED
        BY <4>2, <4>3
    <3>2. \A i \in 1 .. n - 1 : i # n
      BY <2>2
    <3> QED
      BY <3>1, <3>2 DEF Of
  <2>10. {events[i].attempt : i \in Of(events, "step_failed") \ {n}} = AttemptsOf(Story, "step_failed")
    BY <2>8, <2>9 DEF AttemptsOf
  <2>11. {a \in Attempt : handler[a] = "timeout"} = {a \in 1 .. attempt : handler[a] = "timeout"}
    <3>1. \A a \in Attempt : a > attempt => handler[a] = "none"
      BY DEF IInv, Attempts
    <3>2. \A a : a \in Attempt <=> a \in 1 .. attempt \/ (a \in Attempt /\ a > attempt)
      BY <1>0 DEF Attempt
    <3> QED
      BY <3>1, <3>2
  <2>12. last = Event(kind, attempt)
    BY <2>1 DEF last
  <2>13. /\ Of(events, "step_started") = {1}
         /\ Of(events, "step_completed") # {} <=> result.status = "Completed"
         /\ AttemptsOf(events, "step_retry") = 1 .. result.attempts - 1
         /\ {events[i].attempt : i \in Of(events, "step_failed") \ {Len(events)}}
              = {a \in 1 .. result.attempts : handler[a] = "timeout"}
         /\ events[Len(events)] = Event(IF result.status = "Completed" THEN "step_completed"
                                                                      ELSE "step_failed",
                                        result.attempts)
    BY <2>1, <2>4, <2>8, <2>10, <2>11, <2>12 DEF n, last, kind
  <2> QED
    BY <2>13 DEF EventsMatchResult, Of, AttemptsOf
<1> QED
  BY <1>1, <1>2

LEMMA ImpliesDelays == IInv => DelaysGrow
<1> SUFFICES ASSUME IInv, NEW i \in DOMAIN delays
             PROVE  delays[i] <= U64_MAX /\ (i > 1 => delays[i] >= delays[i - 1])
  BY DEF DelaysGrow
<1>1. /\ delays \in Seq(Nat) /\ step.backoff \in Strategy /\ step.retry_delay_ms \in 0 .. U64_MAX
      /\ U64_MAX \in Nat
  BY Typed, WidthAssumption DEF IInv
<1>2. DOMAIN delays = 1 .. Len(delays) /\ Len(delays) \in Nat
  BY <1>1
<1>3. \A k \in DOMAIN delays : delays[k] = delay_ms(step.backoff, step.retry_delay_ms, k)
  BY DEF IInv, DelaysFit
<1>4. i \in Nat \ {0}
  BY <1>2
<1>5. delay_ms(step.backoff, step.retry_delay_ms, i) \in 0 .. U64_MAX
  BY <1>1, <1>4, DelayGrows
<1>6. delays[i] <= U64_MAX
  BY <1>1, <1>3, <1>5
<1>7. ASSUME i > 1 PROVE delays[i] >= delays[i - 1]
  <2>1. i - 1 \in Nat \ {0} /\ i - 1 \in DOMAIN delays /\ (i - 1) + 1 = i
    BY <1>2, <1>4, <1>7
  <2>2. /\ delay_ms(step.backoff, step.retry_delay_ms, i - 1) \in 0 .. U64_MAX
        /\ delay_ms(step.backoff, step.retry_delay_ms, i - 1)
             <= delay_ms(step.backoff, step.retry_delay_ms, (i - 1) + 1)
    BY <1>1, <2>1, DelayGrows
  <2>3. /\ delays[i] = delay_ms(step.backoff, step.retry_delay_ms, (i - 1) + 1)
        /\ delays[i - 1] = delay_ms(step.backoff, step.retry_delay_ms, i - 1)
    BY <1>3, <2>1
  <2>4. delays[i - 1] <= delays[i] /\ delays[i] \in 0 .. U64_MAX /\ delays[i - 1] \in 0 .. U64_MAX
    BY <1>3, <1>5, <2>2, <2>3
  <2> QED
    BY <1>1, <2>4
<1> QED
  BY <1>6, <1>7

\* However its attempts fail, time out, panic or are dropped, a step leaves no
\* handler running behind it, and its StepResult is that of the attempt it names.
THEOREM StepSafe == Spec => []Inv
BY Invariance, ImpliesInv, PTL

\* The events of a step tell its story: started once and first, one retry for every
\* attempt but the last, one failure for every timeout, the terminal event last.
THEOREM StepEventsTrue == Spec => []EventsMatchResult
BY Invariance, ImpliesEvents, PTL

\* The backoff delays never shrink and never pass the largest u64, for every
\* strategy, base and width of the integers.
THEOREM BackoffGrows == Spec => []DelaysGrow
BY Invariance, ImpliesDelays, PTL

\* Progress streaming never changes what the step executor does: every behaviour
\* of a step with its reporter and clients is a behaviour of the step alone.
THEOREM StreamingIsInvisible == StreamSpec => Spec
<1>1. StreamInit => Init
  <2>1. MCSteps \subseteq StepDef
    <3>1. {0, U32_MAX - 1, U32_MAX} \subseteq 0 .. U32_MAX
      BY WidthAssumption
    <3>2. (U64_MAX + 1) \div 2 \in 0 .. U64_MAX
      BY WidthAssumption
    <3> HIDE DEF Strategy
    <3> QED
      BY <3>1, <3>2 DEF MCSteps, StepDef
  <2> QED
    BY <2>1 DEF StreamInit, Init, InitWith
<1>2. [StreamNext]_StreamVars => [Next]_vars
  BY DEF StreamNext, Streaming, Report, StreamVars, vars
<1> QED
  BY <1>1, <1>2, PTL DEF StreamSpec, Spec

(***************************************************************************)
(* The stream of progress events.                                          *)
(***************************************************************************)

\* later is earlier with events added at its end.
Continues(earlier, later) ==
    /\ later \in Seq(EventRec)
    /\ Len(earlier) <= Len(later)
    /\ \A i \in 1 .. Len(earlier) : later[i] = earlier[i]

LEMMA ContinuesByOne ==
  ASSUME NEW q \in Seq(EventRec), NEW e \in EventRec
  PROVE  Continues(q, Append(q, e))
BY AppendShape DEF Continues

LEMMA ContinuesByTwo ==
  ASSUME NEW q \in Seq(EventRec), NEW e \in EventRec, NEW f \in EventRec
  PROVE  Continues(q, Append(Append(q, e), f))
<1> DEFINE p == Append(q, e)
<1>1. /\ p \in Seq(EventRec) /\ Len(q) \in Nat /\ Len(p) = Len(q) + 1
      /\ \A i \in 1 .. Len(q) : p[i] = q[i]
  BY AppendShape
<1> HIDE DEF p
<1>2. /\ Append(p, f) \in Seq(EventRec) /\ Len(Append(p, f)) = Len(p) + 1
      /\ \A i \in 1 .. Len(p) : Append(p, f)[i] = p[i]
  BY <1>1, AppendShape
<1>3. 1 .. Len(q) \subseteq 1 .. Len(p)
  BY <1>1
<1> QED
  BY <1>1, <1>2, <1>3 DEF Continues, p

\* No step takes back an event.
LEMMA EventsContinue == ASSUME IInv, Next PROVE Continues(events, events')
<1>0. /\ events \in Seq(EventRec) /\ attempt \in 0 .. U32_MAX /\ max_attempts \in 0 .. U32_MAX
      /\ 0 \in 0 .. U32_MAX
  BY Typed DEF IInv, TypeOK
<1> DEFINE f == Event("step_failed", attempt)
           r == Event("step_retry", attempt)
<1>1. /\ f \in EventRec /\ r \in EventRec
      /\ Event("step_started", 0) \in EventRec /\ Event("step_completed", attempt) \in EventRec
      /\ Event("step_failed", max_attempts) \in EventRec
  BY <1>0, EventTyped
<1>2. CASE events' = events
  BY <1>0, <1>2 DEF Continues
<1>3. CASE Start \/ HandlerOk \/ Exhaust
  BY <1>0, <1>1, <1>3, ContinuesByOne DEF Start, HandlerOk, Exhaust
<1>4. CASE HandlerErr \/ TimesOut
  <2> HIDE DEF f, r
  <2>1. events \o <<>> = events
    BY <1>0, ConcatEmptySeq
  <2>2. events \o <<f>> = Append(events, f) /\ events \o <<r>> = Append(events, r)
    BY <1>0, <1>1
  <2>3. Append(events, f) \in Seq(EventRec)
    BY <1>0, <1>1, AppendShape
  <2>4. Append(events, f) \o <<r>> = Append(Append(events, f), r)
    BY <1>1, <2>3
  <2>5. events' \in {events, Append(events, r), Append(events, f), Append(Append(events, f), r)}
    BY <1>4, <2>1, <2>2, <2>4 DEF HandlerErr, TimesOut, AttemptFailed, f, r
  <2> QED
    BY <1>0, <1>1, <1>2, <2>5, ContinuesByOne, ContinuesByTwo
<1>5. CASE StartOverflow \/ Call \/ Wake \/ HandlerPanics \/ Abort
  BY <1>2, <1>5 DEF StartOverflow, Call, Wake, HandlerPanics, Abort
<1> QED
  BY <1>3, <1>4, <1>5 DEF Next, Executor, HandlerReturns

\* What a report must be, given the events so far.
Placed(report) ==
    /\ report.at \in 1 .. Len(events)
    /\ Named(report.at, "step_retry") = 1 .. report.attempt - 1
    /\ report.attempt \notin Named(report.at, "step_failed")
    /\ Named(report.at, "step_completed") = {}

Inboxes ==
    /\ inbox \in [Client -> Seq([attempt : Attempt, at : Nat])]
    /\ \A c \in Client : \A i \in 1 .. Len(inbox[c]) : Placed(inbox[c][i])

\* Later events leave the place of a report as it is.
LEMMA StaysPlaced ==
  ASSUME events \in Seq(EventRec), Continues(events, events'), NEW report, Placed(report),
         report' = report
  PROVE  Placed(report)'
<1>1. /\ Len(events) \in Nat /\ Len(events') \in Nat /\ Len(events) <= Len(events')
      /\ \A i \in 1 .. Len(events) : events'[i] = events[i]
  BY DEF Continues
<1>2. report.at \in 1 .. Len(events) /\ report.at \in 1 .. Len(events')
  BY <1>1 DEF Placed
<1>3. \A i \in 1 .. report.at : i \in 1 .. Len(events) /\ events'[i] = events[i]
  BY <1>1, <1>2
<1>4. ASSUME NEW t PROVE Named(report.at, t)' = Named(report.at, t)
  <2>1. {j \in 1 .. report.at : events'[j].type = t} = {j \in 1 .. report.at : events[j].type = t}
    BY <1>3
  <2> QED
    BY <1>3, <2>1 DEF Named
<1> QED
  BY <1>2, <1>4 DEF Placed

\* A handler that runs reports where its attempt belongs.
LEMMA ReportIsPlaced ==
  ASSUME IInv, NEW a \in Attempt, handler[a] = "running"
  PROVE  Placed([attempt |-> a, at |-> Len(events)])
<1>1. pc = "await" /\ a = attempt
  BY ImpliesInv DEF Inv, NoOrphan
<1>2. events \in Seq(EventRec) /\ Len(events) \in Nat /\ DOMAIN events = 1 .. Len(events)
  BY Typed DEF IInv
<1>3. /\ events # <<>> /\ Of(events, "step_completed") = {}
      /\ AttemptsOf(events, "step_failed") = {b \in Attempt : handler[b] = "timeout"}
      /\ AttemptsOf(events, "step_retry") = 1 .. attempt - 1
  BY <1>1 DEF IInv, StoryFits, Story
<1>4. \A t : Named(Len(events), t) = AttemptsOf(events, t)
  BY <1>2 DEF Named, AttemptsOf, Of
<1>5. Named(Len(events), "step_completed") = {}
  BY <1>3, <1>4 DEF AttemptsOf
<1>6. Len(events) \in 1 .. Len(events)
  BY <1>2, <1>3, EmptySeq
<1> QED
  BY <1>1, <1>3, <1>4, <1>5, <1>6 DEF Placed

LEMMA NextInboxes ==
  ASSUME IInv, Inboxes, [StreamNext]_StreamVars
  PROVE  Inboxes'
<1>0. events \in Seq(EventRec)
  BY Typed DEF IInv
<1>1. CASE UNCHANGED inbox /\ (Next \/ UNCHANGED events)
  <2>1. Continues(events, events')
    BY <1>0, <1>1, EventsContinue DEF Continues
  <2> QED
    BY <1>0, <1>1, <2>1, StaysPlaced DEF Inboxes
<1>2. ASSUME NEW a \in Attempt, Report(a) PROVE Inboxes'
  <2> DEFINE report == [attempt |-> a, at |-> Len(events)]
  <2>1. Placed(report) /\ report \in [attempt : Attempt, at : Nat]
    BY <1>0, <1>2, ReportIsPlaced DEF Report
  <2>2. events' = events
    BY <1>2 DEF Report, vars
  <2>3. inbox' = [c \in Client |-> IF state[c] = "live" THEN Append(inbox[c], report) ELSE inbox[c]]
    BY <1>2 DEF Report, sink
  <2>4. \A r : Placed(r) => Placed(r)'
    BY <2>2 DEF Placed, Named
  <2> HIDE DEF report
  <2>5. ASSUME NEW c \in Client
        PROVE  /\ inbox'[c] \in Seq([attempt : Attempt, at : Nat])
               /\ \A i \in 1 .. Len(inbox'[c]) : Placed(inbox'[c][i])
    <3>1. /\ inbox[c] \in Seq([attempt : Attempt, at : Nat])
          /\ \A i \in 1 .. Len(inbox[c]) : Placed(inbox[c][i])
      BY DEF Inboxes
    <3>2. CASE state[c] = "live"
      <4>1. inbox'[c] = Append(inbox[c], report)
        BY <2>3, <3>2
      <4>2. /\ inbox'[c] \in Seq([attempt : Attempt, at : Nat])
            /\ Len(inbox[c]) \in Nat /\ Len(inbox'[c]) = Len(inbox[c]) + 1
            /\ \A i \in 1 .. Len(inbox[c]) : inbox'[c][i] = inbox[c][i]
            /\ inbox'[c][Len(inbox[c]) + 1] = report
        BY <2>1, <3>1, <4>1, AppendShape
      <4>3. \A i \in 1 .. Len(inbox[c]) + 1 : i \in 1 .. Len(inbox[c]) \/ i = Len(inbox[c]) + 1
        BY <4>2
      <4> QED
        BY <2>1, <3>1, <4>2, <4>3
    <3>3. CASE state[c] # "live"
      BY <2>3, <3>1, <3>3
    <3> QED
      BY <3>2, <3>3
  <2>6. inbox' \in [Client -> Seq([attempt : Attempt, at : Nat])]
    <3>1. \A c \in Client : inbox'[c] \in Seq([attempt : Attempt, at : Nat])
      BY <2>5
    <3> QED
      BY <2>3, <3>1
  <2> QED
    BY <2>4, <2>5, <2>6 DEF Inboxes
<1> QED
  BY <1>1, <1>2 DEF StreamNext, Streaming, ClientStep, subscribe, disconnect, hub, StreamVars, vars

\* A report of progress always falls between the events of its own attempt, for
\* any clients, StepDefs of the run and number of reports: no listener takes the
\* progress of an attempt that timed out for that of the next one.
THEOREM ProgressInPlace == StreamSpec => []ProgressBetweenEvents
<1>1. StreamInit => Inboxes
  <2> SUFFICES ASSUME HubInit PROVE Inboxes
    BY DEF StreamInit
  <2>1. inbox = [c \in Client |-> <<>>]
    BY DEF HubInit
  <2> QED
    BY <2>1 DEF Inboxes
<1>2. IInv /\ Inboxes /\ [StreamNext]_StreamVars => Inboxes'
  BY NextInboxes
<1>3. Inboxes => ProgressBetweenEvents
  <2> SUFFICES ASSUME Inboxes, NEW c \in Client, NEW i \in DOMAIN inbox[c]
               PROVE  Placed(inbox[c][i])
    BY Zenon DEF ProgressBetweenEvents, Placed
  <2>1. inbox[c] \in Seq([attempt : Attempt, at : Nat])
    BY DEF Inboxes
  <2>2. i \in 1 .. Len(inbox[c])
    BY <2>1
  <2> QED
    BY <2>2 DEF Inboxes
<1> QED
  BY <1>1, <1>2, <1>3, StreamingIsInvisible, Invariance, PTL DEF StreamSpec

=============================================================================
