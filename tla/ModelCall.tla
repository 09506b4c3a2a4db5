------------------------------ MODULE ModelCall -----------------------------
(***************************************************************************)
(* One structured answer asked of a model by a node: optionally a bounded  *)
(* loop of tool rounds (completeJSONWithTools), then the answer            *)
(* (completeStructured), asked once more with twice the room if it was cut *)
(* off.  Every single request is retried with a pause when it fails        *)
(* (complete, completeRaw), and its tokens are booked.                     *)
(*                                                                         *)
(* The provider is a library.  What is assumed of it: a request that was   *)
(* sent on an ended context is not answered; any other may be answered,    *)
(* may report its usage first, and may fail, at the latest when the time   *)
(* of the call (callTimeout) is over.                                      *)
(***************************************************************************)
EXTENDS Naturals

CONSTANTS
    MaxAttempts,   \* maxAttempts: requests until one is given up
    MaxToolRounds  \* maxToolRounds: rounds until an answer is forced

ASSUME ModelCallAssumption == MaxAttempts \in Nat \ {0} /\ MaxToolRounds \in Nat \ {0}

VARIABLES
    withTools, \* completeJSONWithTools, or completeJSON
    phase,     \* "lookup" in the tool rounds, "answer" after them
    round,     \* tool rounds that are over
    attempt,   \* the attempt at the present request
    stage,     \* "ready", "waiting", "backoff" or "returned"
    room,      \* the output budget, in units of the configured one
    ctx,       \* the context of the node: "live" or "ended"
    doomed,    \* the request in flight was sent on an ended context
    reported,  \* the request in flight has reported its usage
    outcome,   \* "none", "answer" or "error"
    requests,  \* history: requests sent
    late,      \* history: those sent after the context had ended
    failures,  \* history: failed requests since the last reply
    reply,     \* history: the reply in the answer phase that ended the call
    billed,    \* history: requests that reported their usage
    booked     \* those of them in the node's Usage

position == <<phase, round, attempt, room>>
flight == <<doomed, reported>>
history == <<requests, late, failures, reply, billed, booked>>
vars == <<withTools, position, stage, ctx, flight, outcome, history>>

Init ==
    /\ withTools \in BOOLEAN
    /\ phase = IF withTools THEN "lookup" ELSE "answer"
    /\ round = 0 /\ attempt = 1 /\ room = 1
    /\ stage = "ready"
    /\ ctx = "live"
    /\ doomed = FALSE /\ reported = FALSE
    /\ outcome = "none"
    /\ requests = 0 /\ late = 0 /\ failures = 0 /\ reply = "none"
    /\ billed = 0 /\ booked = 0

Return(what) ==
    /\ stage' = "returned"
    /\ outcome' = what
    /\ UNCHANGED position

\* GenerateContent(), in attempt() and attemptRaw(): nothing looks at the
\* context before.
Send ==
    /\ stage = "ready"
    /\ stage' = "waiting"
    /\ doomed' = (ctx = "ended") /\ reported' = FALSE
    /\ requests' = requests + 1
    /\ late' = IF ctx = "ended" THEN late + 1 ELSE late
    /\ UNCHANGED <<withTools, position, ctx, outcome, failures, reply, billed, booked>>

\* Mutant: a tool round books its usage with its reply only.
ReportUsageOnly ==
    /\ stage = "waiting" /\ ~doomed /\ ~reported
    /\ reported' = TRUE
    /\ billed' = billed + 1
    /\ UNCHANGED <<withTools, position, stage, ctx, doomed, outcome,
                   requests, late, failures, reply, booked>>

\* attemptRaw() books the usage as it comes, attempt() keeps it.
ReportUsage ==
    /\ stage = "waiting" /\ ~doomed /\ ~reported
    /\ reported' = TRUE
    /\ billed' = billed + 1
    /\ booked' = IF phase = "lookup" THEN booked + 1 ELSE booked
    /\ UNCHANGED <<withTools, position, stage, ctx, doomed, outcome,
                   requests, late, failures, reply>>

\* An error, a timeout of the call, or an empty reply.  An ended context is
\* found at once in completeRaw(), and in complete() if it is the error; else
\* by the pause.
Fail ==
    /\ stage = "waiting"
    /\ failures' = failures + 1
    /\ \/ ctx = "ended" /\ Return("error")
       \/ attempt = MaxAttempts /\ Return("error")
       \/ /\ attempt < MaxAttempts
          /\ ctx = "live" \/ phase = "answer"
          /\ attempt' = attempt + 1
          /\ stage' = "backoff"
          /\ UNCHANGED <<phase, round, room, outcome>>
    /\ UNCHANGED <<withTools, ctx, flight, requests, late, reply, billed, booked>>

\* Mutant: the timer stops with the context, and nobody wakes the call.
SleepStopped ==
    /\ stage = "backoff" /\ ctx = "live"
    /\ stage' = "ready"
    /\ UNCHANGED <<withTools, position, ctx, flight, outcome, history>>

\* sleepBackoff(): the time is over, or the context is.
SleepBackoff ==
    /\ stage = "backoff"
    /\ IF ctx = "live"
       THEN stage' = "ready" /\ UNCHANGED <<position, outcome>>
       ELSE Return("error")
    /\ UNCHANGED <<withTools, ctx, flight, history>>

\* The next request starts with a full set of attempts.
NextRequest == stage' = "ready" /\ attempt' = 1 /\ UNCHANGED outcome

\* Mutant: rounds without an answer are not counted.
LookupForever ==
    /\ stage = "waiting" /\ ~doomed /\ phase = "lookup"
    /\ \E wantsTools \in BOOLEAN : phase' = IF wantsTools THEN "lookup" ELSE "answer"
    /\ failures' = 0
    /\ NextRequest
    /\ UNCHANGED <<withTools, round, room, ctx, flight, requests, late, reply, billed, booked>>

\* A tool round: the tools are run and the next round comes, unless the model
\* wants none or the rounds are used up.
Lookup ==
    /\ stage = "waiting" /\ ~doomed /\ phase = "lookup"
    /\ \E wantsTools \in BOOLEAN :
         IF wantsTools
         THEN /\ round' = round + 1
              /\ phase' = IF round' = MaxToolRounds THEN "answer" ELSE "lookup"
         ELSE phase' = "answer" /\ UNCHANGED round
    /\ failures' = 0
    /\ NextRequest
    /\ UNCHANGED <<withTools, room, ctx, flight, requests, late, reply, billed, booked>>

\* Mutant: the attempts are one budget for both requests.
AnswerSharedBudget ==
    /\ stage = "waiting" /\ ~doomed /\ phase = "answer"
    /\ failures' = 0
    /\ booked' = IF reported THEN booked + 1 ELSE booked
    /\ \/ reply' = "usable" /\ Return("answer")
       \/ reply' = "malformed" /\ Return("error")
       \/ reply' = "truncated" /\ room = 2 /\ Return("error")
       \/ /\ room = 1 /\ room' = 2 * room
          /\ stage' = "ready" /\ UNCHANGED <<phase, round, attempt, outcome, reply>>
    /\ UNCHANGED <<withTools, ctx, flight, requests, late, billed>>

\* completeStructured(): the reply is booked; one that cannot be decoded is an
\* error, unless it was cut off, when it is asked for once more with twice the
\* room.
Answer ==
    /\ stage = "waiting" /\ ~doomed /\ phase = "answer"
    /\ failures' = 0
    /\ booked' = IF reported THEN booked + 1 ELSE booked
    /\ \/ reply' = "usable" /\ Return("answer")
       \/ reply' = "malformed" /\ Return("error")
       \/ reply' = "truncated" /\ room = 2 /\ Return("error")
       \/ /\ room = 1 /\ room' = 2 * room
          /\ NextRequest /\ UNCHANGED <<phase, round, reply>>
    /\ UNCHANGED <<withTools, ctx, flight, requests, late, billed>>

\* The job's timeout, the server's cancellation, or an error elsewhere in the
\* graph.
EndContext ==
    /\ ctx = "live"
    /\ ctx' = "ended"
    /\ UNCHANGED <<withTools, position, stage, flight, outcome, history>>

-----------------------------------------------------------------------------
Step == Send \/ Fail \/ SleepBackoff \/ Lookup \/ Answer

Next == Step \/ ReportUsage \/ EndContext

Spec == Init /\ [][Next]_vars

\* The timeout of the call ends every attempt, and a pause is a timer.
FairSpec == Spec /\ WF_vars(Step)

-----------------------------------------------------------------------------
(* Properties.                                                             *)

\* The most a node spends: every request of every round, and twice those of
\* the answer.
Ceiling == MaxAttempts * ((IF withTools THEN MaxToolRounds ELSE 0) + 2)

\* Every variable has its type.
TypeOK ==
    /\ withTools \in BOOLEAN
    /\ phase \in {"lookup", "answer"}
    /\ round \in 0..MaxToolRounds
    /\ attempt \in 1..MaxAttempts
    /\ stage \in {"ready", "waiting", "backoff", "returned"}
    /\ room \in {1, 2}
    /\ ctx \in {"live", "ended"}
    /\ doomed \in BOOLEAN /\ reported \in BOOLEAN
    /\ outcome \in {"none", "answer", "error"}
    /\ requests \in Nat /\ late \in Nat /\ failures \in Nat
    /\ reply \in {"none", "usable", "malformed", "truncated"}
    /\ billed \in Nat /\ booked \in Nat

\* The loops, one in another, have a common bound: a model that wants tools
\* for ever, fails for ever or is cut off for ever costs a known number of
\* requests.
RequestsAreBounded == requests <= Ceiling

\* Once the context has ended, one more request is sent at most, by a loop
\* that has just got its reply; no retry is.
NoRetryOnDeadContext == late <= 1

\* Both: what a model call can cost is known beforehand.
SpendingIsBounded == RequestsAreBounded /\ NoRetryOnDeadContext

\* While the context lives, the call gives up only after the full number of
\* attempts at one request, or on a reply that is no use: complete and
\* malformed, or cut off with the larger budget as well.
GivesUpLate ==
    outcome = "error" /\ ctx = "live" =>
        \/ failures = MaxAttempts
        \/ reply = "malformed"
        \/ reply = "truncated" /\ room = 2

\* Nothing is booked twice, and the tool rounds book what a failed attempt
\* has cost, too.
BookedIsBilled == booked <= billed /\ (phase = "lookup" => booked = billed)

\* The call returns, whatever the model does.
CallReturns == <>(stage = "returned")
=============================================================================
