-------------------------- MODULE ModelCallProofs ---------------------------
(* Proofs that a model call spends no more than it may and books no more     *)
(* than it was billed, for any number of attempts and rounds.                *)
EXTENDS ModelCall, TLAPS

\* The attempts at earlier requests, at most, and those at the present one.
Rounds == IF withTools THEN MaxToolRounds ELSE 0
Before == IF phase = "lookup" THEN MaxAttempts * round
          ELSE MaxAttempts * Rounds + MaxAttempts * (room - 1)
Present == IF stage = "waiting" THEN attempt ELSE attempt - 1

\* The positions of the nested loops bound the number of requests.
PositionInv ==
    /\ phase = "lookup" => withTools /\ round < MaxToolRounds /\ room = 1
    /\ IF stage = "returned" THEN requests <= MaxAttempts * (Rounds + 2)
                             ELSE requests <= Before + Present

\* A request on an ended context is the last, and not answered.
ContextInv ==
    /\ late \in {0, 1}
    /\ ctx = "live" => late = 0
    /\ stage = "ready" => late = 0
    /\ stage = "waiting" /\ ~doomed => late = 0
    /\ stage = "waiting" /\ doomed => ctx = "ended"

\* Usage that was reported in the answer phase waits to be booked.
BookingInv ==
    /\ BookedIsBilled
    /\ stage = "waiting" /\ phase = "answer" /\ reported => booked < billed

\* Failures are counted by the attempts, and only the return has an outcome.
FailureInv ==
    /\ GivesUpLate
    /\ stage # "returned" => failures = attempt - 1 /\ outcome = "none" /\ reply = "none"

\* The inductive invariant.
IInv == TypeOK /\ PositionInv /\ ContextInv /\ BookingInv /\ FailureInv

-----------------------------------------------------------------------------
\* Multiplication by the number of attempts, as the bounds need it.
LEMMA Products ==
    ASSUME NEW m \in Nat \ {0}, NEW a \in Nat
    PROVE  /\ m * (a + 1) = m * a + m /\ m * (a + 2) = m * a + m + m
           /\ m * 0 = 0 /\ m * 1 = m /\ m * a \in Nat
           /\ \A b \in Nat : a < b => m * a + m <= m * b
<1>1. m * (a + 1) = m * a + m /\ m * (a + 2) = m * a + m + m /\ m * 0 = 0 /\ m * 1 = m /\ m * a \in Nat
    OBVIOUS
<1>2. ASSUME NEW b \in Nat, a < b PROVE m * a + m <= m * b
  <2>1. PICK d \in Nat : b = a + 1 + d
      BY <1>2
  <2>2. m * b = m * a + m + m * d /\ m * d \in Nat
      BY <2>1
  <2> QED
      BY <1>1, <2>2
<1> QED
    BY <1>1, <1>2

\* The call has sent, billed and booked nothing at the start.
THEOREM InitIInv == Init => IInv
<1> SUFFICES ASSUME Init PROVE IInv
    OBVIOUS
<1> USE ModelCallAssumption DEF Init
<1>1. TypeOK
  <2>1. phase \in {"lookup", "answer"}
      OBVIOUS
  <2>2. round \in 0..MaxToolRounds /\ attempt \in 1..MaxAttempts
      OBVIOUS
  <2> QED
      BY <2>1, <2>2 DEF TypeOK
<1>2. PositionInv
    BY Products DEF PositionInv, Before, Present, Rounds
<1>3. ContextInv /\ BookingInv /\ FailureInv
    BY DEF ContextInv, BookingInv, BookedIsBilled, FailureInv, GivesUpLate
<1> QED
    BY <1>1, <1>2, <1>3 DEF IInv

-----------------------------------------------------------------------------
(* The invariant is preserved, one operation after the other.              *)

\* A request is one more, at the present attempt.
LEMMA SendStep == ASSUME IInv, Send PROVE IInv'
<1> USE ModelCallAssumption DEF Send, position
<1>1. TypeOK'
  <2>1. doomed' \in BOOLEAN /\ reported' \in BOOLEAN /\ withTools' \in BOOLEAN
      BY Zenon DEF IInv, TypeOK
  <2>2. /\ requests' = requests + 1 /\ late' = IF ctx = "ended" THEN late + 1 ELSE late
        /\ stage' = "waiting"
        /\ UNCHANGED <<phase, round, attempt, room, ctx, outcome, failures, reply, billed, booked>>
      OBVIOUS
  <2>3. requests' \in Nat /\ late' \in Nat
      BY <2>2 DEF IInv, TypeOK
  <2> HIDE DEF Send
  <2> QED
      BY <2>1, <2>2, <2>3 DEF IInv, TypeOK
<1>2. PositionInv'
    BY DEF IInv, TypeOK, PositionInv, Before, Present, Rounds
<1>3. ContextInv'
  <2>1. doomed' <=> ctx = "ended"
      BY Zenon
  <2>2. stage = "ready" /\ stage' = "waiting" /\ ctx' = ctx /\ late' = IF ctx = "ended" THEN late + 1 ELSE late
      OBVIOUS
  <2>3. late = 0 /\ ctx \in {"live", "ended"}
      BY <2>2 DEF IInv, TypeOK, ContextInv
  <2> HIDE DEF Send
  <2> QED
      BY <2>1, <2>2, <2>3 DEF ContextInv
<1>4. BookingInv' /\ FailureInv'
    BY DEF IInv, TypeOK, BookingInv, BookedIsBilled, FailureInv, GivesUpLate
<1> QED
    BY <1>1, <1>2, <1>3, <1>4 DEF IInv

\* Usage is billed, and booked at once in a tool round.
LEMMA ReportUsageStep == ASSUME IInv, ReportUsage PROVE IInv'
<1> USE ModelCallAssumption DEF ReportUsage, position
<1>1. TypeOK'
    BY DEF IInv, TypeOK
<1>2. PositionInv'
    BY DEF IInv, TypeOK, PositionInv, Before, Present, Rounds
<1>3. ContextInv' /\ FailureInv'
    BY DEF IInv, TypeOK, ContextInv, FailureInv, GivesUpLate
<1>4. BookingInv'
    BY DEF IInv, TypeOK, BookingInv, BookedIsBilled
<1> QED
    BY <1>1, <1>2, <1>3, <1>4 DEF IInv

\* The bound of a call that returns covers that of every position.
LEMMA CeilingCovers ==
    ASSUME TypeOK, phase = "lookup" => withTools /\ round < MaxToolRounds /\ room = 1
    PROVE  Before + MaxAttempts <= MaxAttempts * (Rounds + 2) /\ Before \in Nat
<1> USE ModelCallAssumption DEF TypeOK
<1>1. Rounds \in Nat /\ MaxAttempts * (Rounds + 2) = MaxAttempts * Rounds + MaxAttempts + MaxAttempts
      /\ MaxAttempts * Rounds \in Nat
    BY Products DEF Rounds
<1>2. CASE phase = "lookup"
  <2>1. round \in Nat /\ round < Rounds /\ Before = MaxAttempts * round /\ MaxAttempts * round \in Nat
      BY <1>2, Products DEF Rounds, Before
  <2>2. MaxAttempts * round + MaxAttempts <= MaxAttempts * Rounds
      BY <1>1, <2>1, Products
  <2> QED
      BY <1>1, <2>1, <2>2
<1>3. CASE phase = "answer" /\ room = 1
    BY <1>1, <1>3, Products DEF Before
<1>4. CASE phase = "answer" /\ room = 2
    BY <1>1, <1>4, Products DEF Before
<1> QED
    BY <1>2, <1>3, <1>4

\* A failed attempt is followed by a pause, or ends the call.
LEMMA FailStep == ASSUME IInv, Fail PROVE IInv'
<1> USE ModelCallAssumption DEF Fail, flight
<1>1. CASE Return("error") /\ (ctx = "ended" \/ attempt = MaxAttempts)
  <2>1. TypeOK'
      BY <1>1 DEF IInv, TypeOK, Return, position
  <2>2. requests <= MaxAttempts * (Rounds + 2)
    <3>1. requests <= Before + attempt /\ attempt <= MaxAttempts
        BY DEF IInv, TypeOK, PositionInv, Present
    <3>2. MaxAttempts * (Rounds + 2) \in Nat
        BY Products DEF Rounds, IInv, TypeOK
    <3> QED
        BY <3>1, <3>2, CeilingCovers DEF IInv, PositionInv, TypeOK
  <2>3. PositionInv'
      BY <1>1, <2>2 DEF IInv, PositionInv, Return, position, Rounds
  <2>4. ContextInv' /\ BookingInv'
      BY <1>1 DEF IInv, TypeOK, ContextInv, BookingInv, BookedIsBilled, Return, position
  <2>5. FailureInv'
      BY <1>1 DEF IInv, TypeOK, FailureInv, GivesUpLate, Return, position
  <2> QED
      BY <2>1, <2>3, <2>4, <2>5 DEF IInv
<1>2. CASE /\ attempt < MaxAttempts /\ attempt' = attempt + 1 /\ stage' = "backoff"
           /\ UNCHANGED <<phase, round, room, outcome>>
  <2>1. TypeOK'
      BY <1>2 DEF IInv, TypeOK
  <2>2. PositionInv'
      BY <1>2 DEF IInv, TypeOK, PositionInv, Before, Present, Rounds
  <2>3. ContextInv' /\ BookingInv'
      BY <1>2 DEF IInv, TypeOK, ContextInv, BookingInv, BookedIsBilled
  <2>4. FailureInv'
      BY <1>2 DEF IInv, TypeOK, FailureInv, GivesUpLate
  <2> QED
      BY <2>1, <2>2, <2>3, <2>4 DEF IInv
<1> QED
    BY <1>1, <1>2

\* The pause ends, or the context has ended it.
LEMMA SleepBackoffStep == ASSUME IInv, SleepBackoff PROVE IInv'
<1> USE ModelCallAssumption DEF SleepBackoff, flight, history
<1>1. CASE ctx = "live"
    BY <1>1 DEF IInv, TypeOK, PositionInv, Before, Present, Rounds, ContextInv, BookingInv,
                BookedIsBilled, FailureInv, GivesUpLate, position
<1>2. CASE ctx # "live" /\ Return("error")
  <2>1. TypeOK'
      BY <1>2 DEF IInv, TypeOK, Return, position
  <2>2. requests <= MaxAttempts * (Rounds + 2)
    <3>1. requests <= Before + attempt - 1 /\ attempt <= MaxAttempts
        BY DEF IInv, TypeOK, PositionInv, Present
    <3>2. MaxAttempts * (Rounds + 2) \in Nat
        BY Products DEF Rounds, IInv, TypeOK
    <3> QED
        BY <3>1, <3>2, CeilingCovers DEF IInv, PositionInv, TypeOK
  <2>3. PositionInv'
      BY <1>2, <2>2 DEF IInv, PositionInv, Return, position, Rounds
  <2>4. ContextInv' /\ BookingInv' /\ FailureInv'
      BY <1>2 DEF IInv, TypeOK, ContextInv, BookingInv, BookedIsBilled, FailureInv, GivesUpLate,
                  Return, position
  <2> QED
      BY <2>1, <2>3, <2>4 DEF IInv
<1> QED
    BY <1>1, <1>2

\* A tool round is over: the next one starts with all attempts, or the answer does.
LEMMA LookupStep == ASSUME IInv, Lookup PROVE IInv'
<1> USE ModelCallAssumption DEF Lookup, NextRequest, flight
<1>1. TypeOK'
    BY DEF IInv, TypeOK, PositionInv
<1>2. PositionInv'
  <2>1. /\ phase = "lookup" /\ withTools /\ round \in Nat /\ round < MaxToolRounds /\ room = 1
        /\ requests <= MaxAttempts * round + attempt /\ attempt <= MaxAttempts
      BY DEF IInv, TypeOK, PositionInv, Before, Present
  <2>2. requests <= MaxAttempts * round + MaxAttempts /\ MaxAttempts * round \in Nat
      BY <2>1, Products DEF IInv, TypeOK
  <2>3. Rounds' = MaxToolRounds /\ Rounds' \in Nat /\ Present' = 0 /\ requests' = requests /\ room' = 1
      BY <2>1 DEF Rounds, Present
  <2>4. CASE phase' = "lookup"
    <3>1. round' = round + 1 /\ round' < MaxToolRounds
        BY <2>1, <2>4 DEF IInv, TypeOK
    <3>2. Before' = MaxAttempts * (round + 1) /\ MaxAttempts * (round + 1) = MaxAttempts * round + MaxAttempts
        BY <2>1, <2>4, <3>1, Products DEF Before
    <3> QED
        BY <2>1, <2>2, <2>3, <2>4, <3>1, <3>2 DEF PositionInv
  <2>5. CASE phase' = "answer"
    <3>1. MaxAttempts * round + MaxAttempts <= MaxAttempts * MaxToolRounds
        BY <2>1, Products
    <3>2. Before' = MaxAttempts * MaxToolRounds /\ MaxAttempts * MaxToolRounds \in Nat
        BY <2>3, <2>5, Products DEF Before
    <3> QED
        BY <2>2, <2>3, <2>5, <3>1, <3>2 DEF PositionInv, IInv, TypeOK
  <2> QED
      BY <2>4, <2>5
<1>3. ContextInv' /\ FailureInv'
    BY DEF IInv, TypeOK, ContextInv, FailureInv, GivesUpLate
<1>4. BookingInv'
    BY DEF IInv, TypeOK, BookingInv, BookedIsBilled
<1> QED
    BY <1>1, <1>2, <1>3, <1>4 DEF IInv

\* A reply in the answer phase ends the call, or is asked for once more.
LEMMA AnswerStep == ASSUME IInv, Answer PROVE IInv'
<1> USE ModelCallAssumption DEF Answer, flight
<1>1. TypeOK'
    BY DEF IInv, TypeOK, Return, NextRequest, position
<1>2. PositionInv'
  <2>1. requests <= Before + attempt /\ attempt <= MaxAttempts /\ attempt \in Nat /\ phase = "answer"
      BY DEF IInv, TypeOK, PositionInv, Present
  <2>2. MaxAttempts * (Rounds + 2) \in Nat
      BY Products DEF Rounds, IInv, TypeOK
  <2>3. CASE stage' = "returned" /\ UNCHANGED position
    <3>1. requests <= MaxAttempts * (Rounds + 2)
        BY <2>1, <2>2, CeilingCovers DEF IInv, PositionInv, TypeOK
    <3> QED
        BY <2>1, <2>3, <3>1 DEF PositionInv, position, Rounds
  <2>4. CASE room = 1 /\ room' = 2 /\ NextRequest /\ UNCHANGED <<phase, round>>
    <3>1. Before = MaxAttempts * Rounds + 0 /\ MaxAttempts * Rounds \in Nat
        BY <2>1, <2>4, Products DEF Before, Rounds
    <3>2. Before' = MaxAttempts * Rounds + MaxAttempts /\ Present' = 0
        BY <2>1, <2>4, Products DEF Before, Present, Rounds, NextRequest
    <3>3. requests <= MaxAttempts * Rounds + MaxAttempts
        BY <2>1, <3>1 DEF IInv, TypeOK
    <3> QED
        BY <2>1, <2>4, <3>1, <3>2, <3>3 DEF PositionInv, NextRequest
  <2> QED
      BY <2>3, <2>4 DEF Return
<1>3. ContextInv'
    BY DEF IInv, TypeOK, ContextInv, Return, NextRequest, position
<1>4. BookingInv'
    BY DEF IInv, TypeOK, BookingInv, BookedIsBilled, Return, NextRequest, position
<1>5. FailureInv'
    BY DEF IInv, TypeOK, FailureInv, GivesUpLate, Return, NextRequest, position
<1> QED
    BY <1>1, <1>2, <1>3, <1>4, <1>5 DEF IInv

\* Every step of a call keeps the invariant.
THEOREM IInvStep == IInv /\ [Next]_vars => IInv'
<1> SUFFICES ASSUME IInv, [Next]_vars PROVE IInv'
    OBVIOUS
<1>1. CASE EndContext
    BY <1>1 DEF EndContext, IInv, TypeOK, PositionInv, Before, Present, Rounds, ContextInv, BookingInv,
                BookedIsBilled, FailureInv, GivesUpLate, position, flight, history
<1>2. CASE UNCHANGED vars
    BY <1>2 DEF vars, IInv, TypeOK, PositionInv, Before, Present, Rounds, ContextInv, BookingInv,
                BookedIsBilled, FailureInv, GivesUpLate, position, flight, history
<1> QED
    BY <1>1, <1>2, SendStep, ReportUsageStep, FailStep, SleepBackoffStep, LookupStep, AnswerStep
    DEF Next, Step

-----------------------------------------------------------------------------
(* The theorems.                                                           *)

\* The strengthened invariant holds in every reachable state.
THEOREM Invariance == Spec => []IInv
<1> QED
    BY InitIInv, IInvStep, PTL DEF Spec

\* Every variable of the call keeps its type.
THEOREM TypeCorrect == Spec => []TypeOK
<1>1. IInv => TypeOK
    BY DEF IInv
<1> QED
    BY <1>1, Invariance, PTL

\* A model call sends no more requests than its nested loops add up to, and none but one
\* after its context has ended, however often the provider fails, asks for tools or cuts
\* off its reply (completeJSONWithTools, completeStructured, complete, completeRaw).
THEOREM SpendingStaysBounded == Spec => []SpendingIsBounded
<1>1. IInv => SpendingIsBounded
  <2> SUFFICES ASSUME IInv PROVE SpendingIsBounded
      OBVIOUS
  <2> USE ModelCallAssumption
  <2>1. requests <= MaxAttempts * (Rounds + 2)
    <3>1. MaxAttempts * (Rounds + 2) \in Nat
        BY Products DEF Rounds, IInv, TypeOK
    <3>2. CASE stage = "returned"
        BY <3>2 DEF IInv, PositionInv
    <3>3. CASE stage # "returned"
      <4>1. requests <= Before + Present /\ Present \in Nat /\ Present <= MaxAttempts
          BY <3>3 DEF IInv, TypeOK, PositionInv, Present
      <4> QED
          BY <3>1, <4>1, CeilingCovers DEF IInv, PositionInv, TypeOK
    <3> QED
        BY <3>2, <3>3
  <2> QED
      BY <2>1 DEF SpendingIsBounded, RequestsAreBounded, Ceiling, Rounds, NoRetryOnDeadContext,
                  IInv, ContextInv
<1> QED
    BY <1>1, Invariance, PTL

\* While its context lives, a call gives up only when its attempts are used up or the
\* reply is of no use (complete, completeStructured).
THEOREM CallsGiveUpLate == Spec => []GivesUpLate
<1>1. IInv => GivesUpLate
    BY DEF IInv, FailureInv
<1> QED
    BY <1>1, Invariance, PTL

\* No usage is booked twice, and a tool round books what its failures cost (attemptRaw).
THEOREM NothingIsBookedTwice == Spec => []BookedIsBilled
<1>1. IInv => BookedIsBilled
    BY DEF IInv, BookingInv
<1> QED
    BY <1>1, Invariance, PTL
=============================================================================
