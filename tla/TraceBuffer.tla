----------------------------- MODULE TraceBuffer ----------------------------
(***************************************************************************)
(* The recorder of one job: nodes that may run at the same time record     *)
(* complete lines and stream growing ones into one buffer.  Every change   *)
(* is made under the buffer's lock and emitted outside of it, first to the *)
(* traces table and then to the subscribers.  A line is its length, the    *)
(* number of chunks in it.                                                 *)
(***************************************************************************)
EXTENDS Naturals, Sequences, FiniteSets

CONSTANTS
    Writers,     \* the nodes that record, each in a goroutine of its own
    MaxEntries,  \* bound: lines in the record
    MaxLen,      \* bound: chunks in a line
    MaxFaults    \* bound: row writes that fail

ASSUME TraceBufferAssumption ==
    /\ IsFiniteSet(Writers)
    /\ MaxEntries \in Nat
    /\ MaxLen \in Nat \ {0}
    /\ MaxFaults \in Nat

VARIABLES
    entries,  \* Buffer.entries; an entry's place is its sequence number
    open,     \* Buffer.open: the line each node streams into, 0 for none
    pc,       \* where each node stands
    emitting, \* the copy of the changed entry that a node is emitting
    rows,     \* the traces table: the length in each row, 0 for no row
    sent,     \* history: the length last sent to the subscribers
    missed,   \* history: the lines whose latest row write failed
    faults,   \* counter bounded by MaxFaults
    up        \* the process lives

buffer == <<entries, open>>
vars == <<buffer, pc, emitting, rows, sent, missed, faults, up>>

Lines == 1..MaxEntries
Entry == [node : Writers, kind : {"note", "thought"}, len : 1..MaxLen]
Nothing == [seq |-> 0, len |-> 0]

Init ==
    /\ entries = <<>>
    /\ open = [w \in Writers |-> 0]
    /\ pc = [w \in Writers |-> "idle"]
    /\ emitting = [w \in Writers |-> Nothing]
    /\ rows = [k \in Lines |-> 0]
    /\ sent = [k \in Lines |-> 0]
    /\ missed = {}
    /\ faults = 0
    /\ up = TRUE

Goto(w, place) == pc' = [pc EXCEPT ![w] = place]

\* Mutant: the copy gets the number of the next line.
ChangeNext(w, k) ==
    /\ emitting' = [emitting EXCEPT ![w] = [seq |-> k + 1, len |-> entries'[k].len]]
    /\ Goto(w, "storing")

\* The entry that has changed is copied under the lock, to be emitted after.
Change(w, k) ==
    /\ emitting' = [emitting EXCEPT ![w] = [seq |-> k, len |-> entries'[k].len]]
    /\ Goto(w, "storing")

NewEntry(w, kind) ==
    /\ Len(entries) < MaxEntries
    /\ entries' = Append(entries, [node |-> w, kind |-> kind, len |-> 1])
    /\ Change(w, Len(entries) + 1)

\* Mutant: the open stream is left open.
NoteInStream(w) ==
    /\ up /\ pc[w] = "idle"
    /\ Goto(w, "noting")
    /\ UNCHANGED <<buffer, emitting, rows, sent, missed, faults, up>>

\* Note() first closes the node's stream, in a critical section of its own.
Note(w) ==
    /\ up /\ pc[w] = "idle"
    /\ open' = [open EXCEPT ![w] = 0]
    /\ Goto(w, "noting")
    /\ UNCHANGED <<entries, emitting, rows, sent, missed, faults, up>>

\* Then it appends the line.
NoteEntry(w) ==
    /\ up /\ pc[w] = "noting"
    /\ NewEntry(w, "note")
    /\ UNCHANGED <<open, rows, sent, missed, faults, up>>

\* Stream() opens a line, if the node has none.
StreamOpen(w) ==
    /\ up /\ pc[w] = "idle"
    /\ open[w] = 0
    /\ NewEntry(w, "thought")
    /\ open' = [open EXCEPT ![w] = Len(entries) + 1]
    /\ UNCHANGED <<rows, sent, missed, faults, up>>

\* Mutant: the chunk goes to the last line of the record.
StreamAnywhere(w) ==
    /\ up /\ pc[w] = "idle"
    /\ open[w] # 0
    /\ LET k == Len(entries) IN
         /\ entries[k].len < MaxLen
         /\ entries' = [entries EXCEPT ![k].len = @ + 1]
         /\ Change(w, k)
    /\ UNCHANGED <<open, rows, sent, missed, faults, up>>

\* Stream() extends the node's open line.
StreamExtend(w) ==
    /\ up /\ pc[w] = "idle"
    /\ open[w] # 0
    /\ LET k == open[w] IN
         /\ entries[k].len < MaxLen
         /\ entries' = [entries EXCEPT ![k].len = @ + 1]
         /\ Change(w, k)
    /\ UNCHANGED <<open, rows, sent, missed, faults, up>>

EndStream(w) ==
    /\ up /\ pc[w] = "idle"
    /\ open[w] # 0
    /\ open' = [open EXCEPT ![w] = 0]
    /\ UNCHANGED <<entries, pc, emitting, rows, sent, missed, faults, up>>

\* Mutant: the row of a line that exists is left alone.
AppendTraceOnce(w) ==
    /\ up /\ pc[w] = "storing"
    /\ LET e == emitting[w] IN
         \/ /\ rows' = IF rows[e.seq] = 0 THEN [rows EXCEPT ![e.seq] = e.len] ELSE rows
            /\ missed' = missed \ {e.seq}
            /\ UNCHANGED faults
         \/ /\ faults < MaxFaults
            /\ faults' = faults + 1
            /\ missed' = missed \cup {e.seq}
            /\ UNCHANGED rows
    /\ Goto(w, "sending")
    /\ UNCHANGED <<buffer, emitting, sent, up>>

\* AppendTrace() upserts the whole line; an error is only logged.
AppendTrace(w) ==
    /\ up /\ pc[w] = "storing"
    /\ LET e == emitting[w] IN
         \/ /\ rows' = [rows EXCEPT ![e.seq] = e.len]
            /\ missed' = missed \ {e.seq}
            /\ UNCHANGED faults
         \/ /\ faults < MaxFaults
            /\ faults' = faults + 1
            /\ missed' = missed \cup {e.seq}
            /\ UNCHANGED rows
    /\ Goto(w, "sending")
    /\ UNCHANGED <<buffer, emitting, sent, up>>

\* Mutant: the copy is sent before it is stored.
SendFirst(w) ==
    /\ up /\ pc[w] \in {"storing", "sending"}
    /\ sent' = [sent EXCEPT ![emitting[w].seq] = emitting[w].len]
    /\ emitting' = [emitting EXCEPT ![w] = Nothing]
    /\ Goto(w, "idle")
    /\ UNCHANGED <<buffer, rows, missed, faults, up>>

\* publishTrace() hands the copy to the subscribers.
PublishTrace(w) ==
    /\ up /\ pc[w] = "sending"
    /\ sent' = [sent EXCEPT ![emitting[w].seq] = emitting[w].len]
    /\ emitting' = [emitting EXCEPT ![w] = Nothing]
    /\ Goto(w, "idle")
    /\ UNCHANGED <<buffer, rows, missed, faults, up>>

\* The process dies.  What the buffer held stays as history; readers have the
\* rows from now on.
Die ==
    /\ up
    /\ up' = FALSE
    /\ UNCHANGED <<buffer, pc, emitting, rows, sent, missed, faults>>

-----------------------------------------------------------------------------
Record(w) ==
    \/ Note(w) \/ NoteEntry(w)
    \/ StreamOpen(w) \/ StreamExtend(w) \/ EndStream(w)

Deliver(w) == AppendTrace(w) \/ PublishTrace(w)

Next ==
    \/ \E w \in Writers : Record(w) \/ Deliver(w)
    \/ Die

Spec == Init /\ [][Next]_vars

-----------------------------------------------------------------------------
(* Properties.                                                             *)

\* Every variable has its type.
TypeOK ==
    /\ entries \in Seq(Entry) /\ Len(entries) <= MaxEntries
    /\ open \in [Writers -> 0..MaxEntries]
    /\ pc \in [Writers -> {"idle", "noting", "storing", "sending"}]
    /\ emitting \in [Writers -> [seq : 0..MaxEntries, len : 0..MaxLen]]
    /\ rows \in [Lines -> 0..MaxLen]
    /\ sent \in [Lines -> 0..MaxLen]
    /\ missed \subseteq Lines
    /\ faults \in 0..MaxFaults
    /\ up \in BOOLEAN

\* A node streams into its own latest line, and never with a note of its own
\* after it: a note does not land in the middle of streamed reasoning.
StreamsAreUnbroken ==
    \A w \in Writers : open[w] # 0 =>
        /\ open[w] <= Len(entries)
        /\ entries[open[w]].node = w /\ entries[open[w]].kind = "thought"
        /\ \A k \in (open[w] + 1)..Len(entries) : entries[k].node # w

\* A reader of the rows lacks at most what is being stored at this moment:
\* for each node its very last change, or lines whose write failed.
Storing(k) == \E w \in Writers : pc[w] = "storing" /\ emitting[w].seq = k
RowsFollow ==
    \A k \in Lines :
        LET len == IF k <= Len(entries) THEN entries[k].len ELSE 0
        IN /\ rows[k] <= len
           /\ k \notin missed => rows[k] = IF Storing(k) THEN len - 1 ELSE len

\* What a subscriber was sent of a line is in its row, unless that write
\* failed: the page never knows more than a restarted server.
SentIsStored == \A k \in Lines : sent[k] <= rows[k] \/ k \in missed

\* A line that no node streams into is never changed again, and a line never
\* changes its node or its place.
ClosedLinesAreFinal ==
    [][\A k \in 1..Len(entries) :
         entries'[k] # entries[k] =>
            \E w \in Writers : open[w] = k /\ entries[k].node = w /\ open'[w] = k]_vars

\* Subscribers are sent a line's growth in order, never a shorter one after a
\* longer one.
SentOnlyGrows == [][\A k \in Lines : sent'[k] >= sent[k]]_vars
=============================================================================
