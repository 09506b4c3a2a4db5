----------------------------- MODULE EventStream ----------------------------
(***************************************************************************)
(* How a browser follows one job: the store publishes job snapshots and    *)
(* reasoning lines to buffered channels that it never blocks on, a handler *)
(* per connection subscribes and forwards, and the page applies what it    *)
(* receives and reconnects when the connection breaks.                     *)
(*                                                                         *)
(* A job is its version, the number of updates made to it; the last one is *)
(* terminal.  A reasoning line is its length, since every event carries    *)
(* the whole line and a page keeps the latest it was sent.                 *)
(***************************************************************************)
EXTENDS Naturals, Sequences, FiniteSets

CONSTANTS
    Browsers,   \* the pages that watch the job
    Last,       \* the version the terminal update produces
    BufCap,     \* capacity of a subscriber's channel
    MaxLines,   \* bound: lines the run records
    MaxLen,     \* bound: chunks in a line
    MaxDrops    \* bound: connections that break

ASSUME EventStreamAssumption ==
    /\ IsFiniteSet(Browsers)
    /\ Last \in Nat \ {0}
    /\ BufCap \in Nat \ {0}
    /\ MaxLines \in Nat
    /\ MaxLen \in Nat \ {0}
    /\ MaxDrops \in Nat

VARIABLES
    ver,      \* version of the job in the store
    outcome,  \* "none", "done", "failed", or "cutoff": failed while a node still runs
    pending,  \* update() has mutated the job and not yet published it
    lines,    \* the trace buffer: the length of each recorded line
    outbox,   \* the line being emitted, <<>> if none
    subs,     \* the browsers whose channel is registered
    chan,     \* the channels
    pc,       \* the handler of each browser's connection
    snap,     \* the snapshot Subscribe() took
    backlog,  \* the lines Subscribe() read
    page,     \* what the browser shows, and whether it has closed the stream
    drops,    \* counter bounded by MaxDrops
    raced,    \* history: registered after the terminal event, with an older snapshot
    lossy,    \* history: lost an event to a full channel on this connection
    gapped    \* history: registered after a line its backlog does not have

producer == <<ver, outcome, pending, lines, outbox>>
history == <<raced, lossy, gapped>>
vars == <<producer, subs, chan, pc, snap, backlog, page, drops, history>>

JobEvent == [type : {"job"}, ver : 0..Last, done : BOOLEAN]
TraceEvent == [type : {"trace"}, seq : 1..MaxLines, len : 1..MaxLen]
NoLines == [k \in 1..MaxLines |-> 0]

JobFailed == outcome \in {"failed", "cutoff"}
Recorded == [k \in 1..MaxLines |-> IF k <= Len(lines) THEN lines[k] ELSE 0]

Init ==
    /\ ver = 0 /\ outcome = "none" /\ pending = FALSE
    /\ lines = <<>> /\ outbox = <<>>
    /\ subs = {}
    /\ chan = [b \in Browsers |-> <<>>]
    /\ pc = [b \in Browsers |-> "off"]
    /\ snap = [b \in Browsers |-> 0]
    /\ backlog = [b \in Browsers |-> NoLines]
    /\ page = [b \in Browsers |-> [ver |-> 0, lines |-> NoLines, over |-> FALSE]]
    /\ drops = 0
    /\ raced = {} /\ lossy = {} /\ gapped = {}

-----------------------------------------------------------------------------
(* The producer: the run goroutine and the node that records its reasoning. *)

\* update() changes the job under the lock.  The run ends when its nodes have
\* returned, except that an expired or cancelled context ends it at once.
Mutate ==
    /\ ~pending
    /\ ver < Last
    /\ ver' = ver + 1
    /\ pending' = TRUE
    /\ \/ ver' < Last /\ UNCHANGED outcome
       \/ ver' = Last /\ outbox = <<>> /\ outcome' \in {"done", "failed"}
       \/ ver' = Last /\ outcome' = "cutoff"
    /\ UNCHANGED <<lines, outbox, subs, chan, pc, snap, backlog, page, drops, history>>

\* fanout(): a non-blocking send to every registered channel.  A full channel
\* loses the event.
Fanout(ev) ==
    /\ chan' = [b \in Browsers |-> IF b \in subs /\ Len(chan[b]) < BufCap
                                   THEN Append(chan[b], ev) ELSE chan[b]]
    /\ lossy' = lossy \cup {b \in subs : Len(chan[b]) >= BufCap}

\* Mutant: a failure is not marked as terminal.
PublishSuccess ==
    /\ pending
    /\ pending' = FALSE
    /\ Fanout([type |-> "job", ver |-> ver, done |-> ver = Last /\ outcome = "done"])
    /\ UNCHANGED <<ver, outcome, lines, outbox, subs, pc, snap, backlog, page, drops, raced, gapped>>

\* publish() reads the job again and sends it.
Publish ==
    /\ pending
    /\ pending' = FALSE
    /\ Fanout([type |-> "job", ver |-> ver, done |-> ver = Last])
    /\ UNCHANGED <<ver, outcome, lines, outbox, subs, pc, snap, backlog, page, drops, raced, gapped>>

\* A node records while it runs: until the run ends, and beyond if it was cut
\* off.
Recording == outbox = <<>> /\ (ver < Last \/ outcome = "cutoff")

\* Mutant: the line is recorded and not emitted.
NewLineUnsent ==
    /\ Recording
    /\ Len(lines) < MaxLines
    /\ lines' = Append(lines, 1)
    /\ UNCHANGED <<ver, outcome, pending, outbox, subs, chan, pc, snap, backlog, page, drops, history>>

\* Note(), or the first Stream() of a line, appends a line to the buffer.
NewLine ==
    /\ Recording
    /\ Len(lines) < MaxLines
    /\ lines' = Append(lines, 1)
    /\ outbox' = <<Len(lines) + 1, 1>>
    /\ UNCHANGED <<ver, outcome, pending, subs, chan, pc, snap, backlog, page, drops, history>>

\* Mutant: the chunk is emitted in place of the line.
ExtendByChunk ==
    /\ Recording
    /\ lines # <<>>
    /\ LET k == Len(lines) IN
         /\ lines[k] < MaxLen
         /\ lines' = [lines EXCEPT ![k] = @ + 1]
         /\ outbox' = <<k, 1>>
    /\ UNCHANGED <<ver, outcome, pending, subs, chan, pc, snap, backlog, page, drops, history>>

\* Stream() extends the open line and emits the whole of it.
Extend ==
    /\ Recording
    /\ lines # <<>>
    /\ LET k == Len(lines) IN
         /\ lines[k] < MaxLen
         /\ lines' = [lines EXCEPT ![k] = @ + 1]
         /\ outbox' = <<k, lines[k] + 1>>
    /\ UNCHANGED <<ver, outcome, pending, subs, chan, pc, snap, backlog, page, drops, history>>

\* Mutant: the sequence number is read after it was advanced.
EmitNextSeq ==
    /\ outbox # <<>>
    /\ Fanout([type |-> "trace", seq |-> outbox[1] + 1, len |-> outbox[2]])
    /\ outbox' = <<>>
    /\ UNCHANGED <<ver, outcome, pending, lines, subs, pc, snap, backlog, page, drops, raced, gapped>>

\* emit() runs outside the buffer's lock and ends in publishTrace().
Emit ==
    /\ outbox # <<>>
    /\ Fanout([type |-> "trace", seq |-> outbox[1], len |-> outbox[2]])
    /\ outbox' = <<>>
    /\ UNCHANGED <<ver, outcome, pending, lines, subs, pc, snap, backlog, page, drops, raced, gapped>>

-----------------------------------------------------------------------------
(* Subscribe(): three critical sections, one after the other.              *)

Goto(b, place) == pc' = [pc EXCEPT ![b] = place]

\* EventSource connects, and again when the connection has broken; the
\* handler's Subscribe() first takes a snapshot with Get().
Connect(b) ==
    /\ pc[b] = "off"
    /\ ~page[b].over
    /\ snap' = [snap EXCEPT ![b] = ver]
    /\ Goto(b, "snapped")
    /\ UNCHANGED <<producer, subs, chan, backlog, page, drops, history>>

\* Then it reads the lines recorded so far.
ReadBacklog(b) ==
    /\ pc[b] = "snapped"
    /\ backlog' = [backlog EXCEPT ![b] = Recorded]
    /\ Goto(b, "read")
    /\ UNCHANGED <<producer, subs, chan, snap, page, drops, history>>

\* Only then does subscribe() register a new channel.
Register(b) ==
    /\ pc[b] = "read"
    /\ subs' = subs \cup {b}
    /\ chan' = [chan EXCEPT ![b] = <<>>]
    /\ Goto(b, "registered")
    /\ lossy' = lossy \ {b}
    /\ raced' = IF snap[b] < Last /\ ver = Last /\ ~pending THEN raced \cup {b} ELSE raced \ {b}
    /\ gapped' = IF \E k \in 1..Len(lines) :
                      backlog[b][k] < lines[k] /\ outbox # <<k, lines[k]>>
                 THEN gapped \cup {b} ELSE gapped \ {b}
    /\ UNCHANGED <<producer, snap, backlog, page, drops>>

-----------------------------------------------------------------------------
(* handleEvents() and the page.                                            *)

\* The page applies a job event: a failure closes the stream at once, success
\* only with the terminal event.  A page that has closed applies nothing.
ApplyJob(p, v, done) ==
    IF p.over THEN p
    ELSE [p EXCEPT !.ver = v, !.over = (v = Last /\ JobFailed) \/ done]

ApplyLine(p, k, n) == IF p.over THEN p ELSE [p EXCEPT !.lines[k] = n]

\* A replayed backlog replaces the lines it has.
ApplyBacklog(p, known) ==
    IF p.over THEN p
    ELSE [p EXCEPT !.lines = [k \in 1..MaxLines |-> IF known[k] > 0 THEN known[k] ELSE p.lines[k]]]

\* The deferred cancel() unregisters the channel when the handler returns.
Return(b) ==
    /\ subs' = subs \ {b}
    /\ chan' = [chan EXCEPT ![b] = <<>>]
    /\ Goto(b, "off")

\* The current state goes out first.
SendSnapshot(b) ==
    /\ pc[b] = "registered"
    /\ page' = [page EXCEPT ![b] = ApplyJob(@, snap[b], FALSE)]
    /\ Goto(b, "replaying")
    /\ UNCHANGED <<producer, subs, chan, snap, backlog, drops, history>>

\* Mutant: a terminal snapshot is not told apart.
SendBacklogAndWait(b) ==
    /\ pc[b] = "replaying"
    /\ page' = [page EXCEPT ![b] = ApplyBacklog(@, backlog[b])]
    /\ Goto(b, "streaming")
    /\ UNCHANGED <<producer, subs, chan, snap, backlog, drops, history>>

\* Then the recorded reasoning; a handler whose snapshot is terminal adds the
\* terminal event and returns.
SendBacklog(b) ==
    /\ pc[b] = "replaying"
    /\ LET shown == ApplyBacklog(page[b], backlog[b]) IN
         IF snap[b] = Last
         THEN /\ page' = [page EXCEPT ![b] = ApplyJob(shown, Last, TRUE)]
              /\ Return(b)
         ELSE /\ page' = [page EXCEPT ![b] = shown]
              /\ Goto(b, "streaming")
              /\ UNCHANGED <<subs, chan>>
    /\ UNCHANGED <<producer, snap, backlog, drops, history>>

\* The loop forwards what the channel holds, until the terminal event.
Forward(b) ==
    /\ pc[b] = "streaming"
    /\ chan[b] # <<>>
    /\ LET ev == Head(chan[b]) IN
         IF ev.type = "trace"
         THEN /\ page' = [page EXCEPT ![b] = ApplyLine(@, ev.seq, ev.len)]
              /\ chan' = [chan EXCEPT ![b] = Tail(@)]
              /\ UNCHANGED <<subs, pc>>
         ELSE /\ page' = [page EXCEPT ![b] = ApplyJob(@, ev.ver, ev.done)]
              /\ IF ev.done
                 THEN Return(b)
                 ELSE /\ chan' = [chan EXCEPT ![b] = Tail(@)]
                      /\ UNCHANGED <<subs, pc>>
    /\ UNCHANGED <<producer, snap, backlog, drops, history>>

\* The page has closed the stream while the backlog is still going out: a send
\* fails, and the handler returns.
Hangup(b) ==
    /\ pc[b] = "replaying"
    /\ page[b].over
    /\ Return(b)
    /\ UNCHANGED <<producer, snap, backlog, page, drops, history>>

\* The network breaks a connection; EventSource will connect again.
Break(b) ==
    /\ pc[b] \in {"registered", "replaying", "streaming"}
    /\ ~page[b].over
    /\ drops < MaxDrops
    /\ drops' = drops + 1
    /\ Return(b)
    /\ UNCHANGED <<producer, snap, backlog, page, history>>

-----------------------------------------------------------------------------
Produce == Mutate \/ Publish \/ NewLine \/ Extend \/ Emit
Subscribe(b) == Connect(b) \/ ReadBacklog(b) \/ Register(b)
Handle(b) == SendSnapshot(b) \/ SendBacklog(b) \/ Forward(b) \/ Hangup(b)

Next == Produce \/ \E b \in Browsers : Subscribe(b) \/ Handle(b) \/ Break(b)

Spec == Init /\ [][Next]_vars

\* The run makes its updates and its emissions, every handler runs, and the
\* browser reconnects by itself.  Connections need not break, and a node need
\* not say anything.
Fairness ==
    /\ WF_vars(Mutate) /\ WF_vars(Publish) /\ WF_vars(Emit)
    /\ \A b \in Browsers : WF_vars(Subscribe(b)) /\ WF_vars(Handle(b))

FairSpec == Spec /\ Fairness

-----------------------------------------------------------------------------
(* Properties.                                                             *)

\* Every variable has its type.
TypeOK ==
    /\ ver \in 0..Last
    /\ outcome \in {"none", "done", "failed", "cutoff"}
    /\ pending \in BOOLEAN
    /\ lines \in Seq(1..MaxLen) /\ Len(lines) <= MaxLines
    /\ outbox \in {<<>>} \cup (1..MaxLines) \X (1..MaxLen)
    /\ subs \subseteq Browsers
    /\ chan \in [Browsers -> Seq(JobEvent \cup TraceEvent)]
    /\ pc \in [Browsers -> {"off", "snapped", "read", "registered", "replaying", "streaming"}]
    /\ snap \in [Browsers -> 0..Last]
    /\ backlog \in [Browsers -> [1..MaxLines -> 0..MaxLen]]
    /\ page \in [Browsers -> [ver : 0..Last, lines : [1..MaxLines -> 0..MaxLen], over : BOOLEAN]]
    /\ drops \in 0..MaxDrops
    /\ raced \subseteq Browsers /\ lossy \subseteq Browsers /\ gapped \subseteq Browsers

\* The store keeps the channel of a connection that is served, within its
\* capacity, and of no other: no handler returns without unregistering.
ChannelsAreOwned ==
    \A b \in Browsers :
        /\ b \in subs <=> pc[b] \in {"registered", "replaying", "streaming"}
        /\ Len(chan[b]) <= BufCap

\* A page that still waits once the job is over and published will hear of it,
\* or is in one of two positions: it subscribed too late for the event with a
\* snapshot taken too early, or its full channel lost an event.
TerminalEventIsDue ==
    \A b \in Browsers :
        pc[b] = "streaming" /\ ver = Last /\ ~pending /\ ~page[b].over =>
            \/ \E i \in 1..Len(chan[b]) : chan[b][i].type = "job" /\ chan[b][i].done
            \/ b \in raced \cup lossy

\* When nothing is under way, a page that watches shows every line in full,
\* unless a line fell between backlog and channel, or the channel was full.
QuietPageIsCurrent ==
    \A b \in Browsers :
        pc[b] = "streaming" /\ chan[b] = <<>> /\ outbox = <<>> /\ ~page[b].over =>
            page[b].lines = Recorded \/ b \in gapped \cup lossy

\* What a page shows only grows: no older snapshot replaces a newer one, and
\* no line gets shorter, across reconnections too.
PageNeverGoesBack ==
    [][\A b \in Browsers :
         /\ page'[b].ver >= page[b].ver
         /\ \A k \in 1..MaxLines : page'[b].lines[k] >= page[b].lines[k]]_vars

\* A page that connects, or connects again, when the job is over is told so.
LateComerIsTold ==
    \A b \in Browsers : pc[b] = "off" /\ ver = Last ~> page[b].over

\* Stated by Subscribe(): the snapshot closes the race with a job that ends
\* while the page connects.  It fails, since the snapshot comes first.
SubscriberIsTold ==
    \A b \in Browsers : pc[b] = "registered" ~> page[b].over
=============================================================================
