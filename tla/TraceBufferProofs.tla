------------------------- MODULE TraceBufferProofs --------------------------
(* Proofs that the record of a job, its rows and its events stay together    *)
(* for any number of nodes, lines, chunks and failed writes.                 *)
EXTENDS TraceBuffer, TLAPS

\* What a line holds now, 0 for a line that does not exist.
LengthOf(k) == IF k <= Len(entries) THEN entries[k].len ELSE 0

\* A copy that is under way is that of a line of its node, and still complete: only the
\* node itself could extend the line, and it is busy.
CopiesAreCurrent ==
    \A w \in Writers : pc[w] \in {"storing", "sending"} =>
        /\ emitting[w].seq \in 1..Len(entries)
        /\ emitting[w].len = entries[emitting[w].seq].len
        /\ entries[emitting[w].seq].node = w

\* Between the two critical sections of Note() the node streams into no line.
NotingIsClosed == \A w \in Writers : pc[w] = "noting" => open[w] = 0

\* Nobody was sent more of a line than there is.
SentIsRecorded == \A k \in Lines : sent[k] <= LengthOf(k)

\* The inductive invariant.
IInv ==
    /\ TypeOK /\ StreamsAreUnbroken /\ RowsFollow /\ SentIsStored
    /\ CopiesAreCurrent /\ NotingIsClosed /\ SentIsRecorded

-----------------------------------------------------------------------------
\* NewBuffer() of an empty table satisfies every part of it.
THEOREM InitIInv == Init => IInv
<1> SUFFICES ASSUME Init PROVE IInv
    OBVIOUS
<1> USE TraceBufferAssumption DEF Init
<1>1. TypeOK
    BY DEF TypeOK, Nothing, Entry, Lines
<1>2. StreamsAreUnbroken /\ RowsFollow /\ SentIsStored
    BY DEF StreamsAreUnbroken, RowsFollow, SentIsStored, Storing, Lines
<1>3. CopiesAreCurrent /\ NotingIsClosed /\ SentIsRecorded
    BY DEF CopiesAreCurrent, NotingIsClosed, SentIsRecorded, LengthOf, Lines
<1> QED
    BY <1>1, <1>2, <1>3 DEF IInv

\* A line that NewEntry() appends changes no other, and the copy of it is complete.
LEMMA NewEntryFacts ==
    ASSUME TypeOK, NEW w \in Writers, NEW kind \in {"note", "thought"}, NewEntry(w, kind)
    PROVE  LET n == Len(entries) + 1 IN
           /\ n \in Lines /\ Len(entries') = n
           /\ entries' \in Seq(Entry)
           /\ \A k \in 1..Len(entries) : entries'[k] = entries[k]
           /\ entries'[n] = [node |-> w, kind |-> kind, len |-> 1]
           /\ emitting' = [emitting EXCEPT ![w] = [seq |-> n, len |-> 1]]
           /\ pc' = [pc EXCEPT ![w] = "storing"]
<1> USE TraceBufferAssumption DEF TypeOK, NewEntry, Change, Goto, Lines
<1> DEFINE n == Len(entries) + 1
           e == [node |-> w, kind |-> kind, len |-> 1]
<1>1. e \in Entry
    BY DEF Entry
<1>2. entries' = Append(entries, e) /\ Len(entries) \in Nat
    OBVIOUS
<1>3. /\ Len(entries') = n /\ entries' \in Seq(Entry) /\ entries'[n] = e
      /\ \A k \in 1..Len(entries) : entries'[k] = entries[k]
    BY <1>1, <1>2
<1>4. n \in 1..MaxEntries
    BY <1>2
<1>5. emitting' = [emitting EXCEPT ![w] = [seq |-> n, len |-> 1]]
  <2>1. entries'[n].len = 1
      BY <1>3
  <2> QED
      BY <2>1
<1> QED
    BY <1>3, <1>4, <1>5

\* A longer line is a line.
LEMMA LongerEntry ==
    ASSUME NEW r \in Entry, r.len < MaxLen
    PROVE  [r EXCEPT !.len = @ + 1] \in Entry
BY TraceBufferAssumption DEF Entry

\* A chunk that StreamExtend() adds changes the length of the node's open line only.
LEMMA ExtendFacts ==
    ASSUME TypeOK, StreamsAreUnbroken, NEW w \in Writers, StreamExtend(w)
    PROVE  /\ open[w] \in 1..Len(entries) /\ open[w] \in Lines
           /\ Len(entries') = Len(entries)
           /\ entries' \in Seq(Entry)
           /\ \A k \in 1..Len(entries) : k # open[w] => entries'[k] = entries[k]
           /\ \A k \in 1..Len(entries) :
                entries'[k].node = entries[k].node /\ entries'[k].kind = entries[k].kind
           /\ entries'[open[w]].len = entries[open[w]].len + 1
           /\ entries[open[w]].node = w
           /\ emitting' = [emitting EXCEPT ![w] = [seq |-> open[w], len |-> entries[open[w]].len + 1]]
           /\ pc' = [pc EXCEPT ![w] = "storing"]
<1> USE TraceBufferAssumption DEF TypeOK, StreamExtend, Change, Goto, Lines
<1> DEFINE k == open[w]
<1>1. k \in 1..Len(entries) /\ k \in 1..MaxEntries /\ entries[k].node = w
    BY DEF StreamsAreUnbroken
<1>2. entries[k] \in Entry /\ entries[k].len < MaxLen
    BY <1>1
<1>3. entries' = [entries EXCEPT ![k].len = @ + 1]
    OBVIOUS
<1>4. [entries[k] EXCEPT !.len = @ + 1] \in Entry
    BY <1>2, LongerEntry
<1>5. entries' = [entries EXCEPT ![k] = [entries[k] EXCEPT !.len = @ + 1]]
    BY <1>3
<1>6. entries' \in Seq(Entry) /\ Len(entries') = Len(entries)
    BY <1>1, <1>4, <1>5
<1>7. entries'[k] = [entries[k] EXCEPT !.len = @ + 1]
    BY <1>1, <1>5
<1>8. entries'[k].len = entries[k].len + 1 /\ entries'[k].node = entries[k].node
      /\ entries'[k].kind = entries[k].kind
    BY <1>2, <1>7 DEF Entry
<1>9. \A j \in 1..Len(entries) : j # k => entries'[j] = entries[j]
    BY <1>1, <1>5
<1> QED
    BY <1>1, <1>6, <1>8, <1>9

-----------------------------------------------------------------------------
(* The invariant is preserved, one operation after the other.              *)

\* Only the node that streams into a line has a copy of it under way.
LEMMA CopyIsOwned ==
    ASSUME IInv, NEW w \in Writers, pc[w] \in {"storing", "sending"}
    PROVE  LET k == emitting[w].seq IN
           /\ k \in Lines /\ k <= Len(entries) /\ emitting[w].len = LengthOf(k)
           /\ emitting[w].len \in 0..MaxLen
           /\ \A v \in Writers : v # w /\ pc[v] \in {"storing", "sending"} => emitting[v].seq # k
<1> USE TraceBufferAssumption
<1>1. /\ emitting[w].seq \in 1..Len(entries) /\ emitting[w].len = entries[emitting[w].seq].len
      /\ entries[emitting[w].seq].node = w
      /\ Len(entries) \in Nat /\ Len(entries) <= MaxEntries
      /\ emitting[w].len \in 0..MaxLen
    BY DEF IInv, TypeOK, CopiesAreCurrent
<1>2. \A v \in Writers : v # w /\ pc[v] \in {"storing", "sending"} => emitting[v].seq # emitting[w].seq
    BY <1>1 DEF IInv, CopiesAreCurrent
<1> QED
    BY <1>1, <1>2 DEF LengthOf, Lines

\* The length of a line is a number.
LEMMA LengthType == TypeOK => \A k \in Lines : LengthOf(k) \in Nat
<1> SUFFICES ASSUME TypeOK, NEW k \in Lines, k <= Len(entries) PROVE entries[k].len \in Nat
    BY DEF LengthOf
<1>1. k \in 1..Len(entries)
    BY TraceBufferAssumption DEF TypeOK, Lines
<1>2. entries[k] \in Entry
    BY <1>1 DEF TypeOK
<1> QED
    BY <1>2, TraceBufferAssumption DEF Entry

\* A line that is appended is stored by its node and has no row yet.
LEMMA NewEntryStep ==
    ASSUME IInv, NEW w \in Writers, NEW kind \in {"note", "thought"}, NewEntry(w, kind),
           up, pc[w] \in {"idle", "noting"},
           UNCHANGED <<rows, sent, missed, faults, up>>,
           \/ UNCHANGED open /\ open[w] = 0
           \/ kind = "thought" /\ open' = [open EXCEPT ![w] = Len(entries) + 1]
    PROVE  IInv'
<1> USE TraceBufferAssumption
<1>1. PICK n \in Lines :
      /\ n = Len(entries) + 1 /\ Len(entries') = n /\ entries' \in Seq(Entry)
      /\ \A k \in 1..Len(entries) : entries'[k] = entries[k]
      /\ entries'[n] = [node |-> w, kind |-> kind, len |-> 1]
      /\ emitting' = [emitting EXCEPT ![w] = [seq |-> n, len |-> 1]]
      /\ pc' = [pc EXCEPT ![w] = "storing"]
    BY NewEntryFacts DEF IInv
<1>2. Len(entries) \in Nat /\ n <= MaxEntries /\ n \in 0..MaxEntries /\ 1 \in 0..MaxLen
    BY <1>1 DEF IInv, TypeOK, Lines
<1>3. TypeOK'
  <2>1. [seq |-> n, len |-> 1] \in [seq : 0..MaxEntries, len : 0..MaxLen]
      BY <1>2
  <2>2. emitting' \in [Writers -> [seq : 0..MaxEntries, len : 0..MaxLen]]
      BY <1>1, <2>1 DEF IInv, TypeOK
  <2>3. open' \in [Writers -> 0..MaxEntries] /\ pc' \in [Writers -> {"idle", "noting", "storing", "sending"}]
      BY ZenonT(40), <1>1, <1>2 DEF IInv, TypeOK
  <2> QED
      BY <1>1, <1>2, <2>2, <2>3 DEF IInv, TypeOK
<1>4. StreamsAreUnbroken'
  <2> SUFFICES ASSUME NEW v \in Writers, open'[v] # 0
               PROVE  /\ open'[v] <= n
                      /\ entries'[open'[v]].node = v /\ entries'[open'[v]].kind = "thought"
                      /\ \A k \in (open'[v] + 1)..n : entries'[k].node # v
      BY <1>1 DEF StreamsAreUnbroken
  <2>1. CASE v = w
      BY <1>1, <1>2, <2>1 DEF IInv, TypeOK
  <2>2. CASE v # w
    <3>1. open'[v] = open[v] /\ open[v] \in 1..Len(entries)
        BY <2>2 DEF IInv, TypeOK, StreamsAreUnbroken
    <3>2. /\ entries[open[v]].node = v /\ entries[open[v]].kind = "thought"
          /\ \A k \in (open[v] + 1)..Len(entries) : entries[k].node # v
        BY <3>1 DEF IInv, StreamsAreUnbroken
    <3>3. entries'[open[v]] = entries[open[v]] /\ open[v] <= n
        BY <1>1, <1>2, <3>1
    <3>4. ASSUME NEW k \in (open[v] + 1)..n PROVE entries'[k].node # v
      <4>1. CASE k = n
          BY <1>1, <2>2, <4>1
      <4>2. CASE k # n
        <5>1. k \in (open[v] + 1)..Len(entries) /\ k \in 1..Len(entries)
            BY <1>1, <1>2, <3>1, <4>2
        <5> QED
            BY <1>1, <3>2, <5>1
      <4> QED
          BY <4>1, <4>2
    <3> QED
        BY <3>1, <3>2, <3>3, <3>4
  <2> QED
      BY <2>1, <2>2
<1>5. \A k \in Lines : /\ k # n => LengthOf(k)' = LengthOf(k) /\ (Storing(k)' <=> Storing(k))
                       /\ LengthOf(n) = 0 /\ LengthOf(n)' = 1 /\ Storing(n)' /\ ~Storing(n)
  <2>1. LengthOf(n) = 0 /\ LengthOf(n)' = 1
      BY <1>1, <1>2 DEF LengthOf
  <2>2. Storing(n)' /\ ~Storing(n)
      BY <1>1, <1>2 DEF IInv, TypeOK, CopiesAreCurrent, Storing
  <2>3. ASSUME NEW k \in Lines, k # n PROVE LengthOf(k)' = LengthOf(k)
      BY <1>1, <1>2, <2>3 DEF LengthOf, Lines
  <2>4. ASSUME NEW k \in Lines, k # n PROVE (Storing(k)' <=> Storing(k))
      BY <1>1, <1>2, <2>4, Zenon DEF IInv, TypeOK, Storing
  <2> QED
      BY <2>1, <2>2, <2>3, <2>4
<1>6. RowsFollow'
  <2> SUFFICES ASSUME NEW k \in Lines
               PROVE  /\ rows[k] <= LengthOf(k)'
                      /\ k \notin missed => rows[k] = IF Storing(k)' THEN LengthOf(k)' - 1 ELSE LengthOf(k)'
      BY DEF RowsFollow, LengthOf
  <2>1. /\ rows[k] <= LengthOf(k)
        /\ k \notin missed => rows[k] = IF Storing(k) THEN LengthOf(k) - 1 ELSE LengthOf(k)
        /\ rows[k] \in 0..MaxLen
      BY DEF IInv, TypeOK, RowsFollow, LengthOf
  <2>2. CASE k = n
      BY <1>5, <2>1, <2>2
  <2>3. CASE k # n
      BY <1>5, <2>1, <2>3
  <2> QED
      BY <2>2, <2>3
<1>7. SentIsStored' /\ SentIsRecorded'
  <2>1. \A k \in Lines : sent[k] \in 0..MaxLen /\ sent[k] <= LengthOf(k)
      BY DEF IInv, TypeOK, SentIsRecorded
  <2>2. \A k \in Lines : sent[k] <= LengthOf(k)'
      BY <1>5, <2>1
  <2> QED
      BY <2>2 DEF IInv, SentIsStored, SentIsRecorded
<1>8. CopiesAreCurrent'
  <2> SUFFICES ASSUME NEW v \in Writers, pc'[v] \in {"storing", "sending"}
               PROVE  /\ emitting'[v].seq \in 1..n
                      /\ emitting'[v].len = entries'[emitting'[v].seq].len
                      /\ entries'[emitting'[v].seq].node = v
      BY <1>1 DEF CopiesAreCurrent
  <2>1. CASE v = w
      BY <1>1, <1>2, <2>1 DEF IInv, TypeOK
  <2>2. CASE v # w
    <3>1. pc[v] = pc'[v] /\ emitting'[v] = emitting[v]
        BY <1>1, <2>2 DEF IInv, TypeOK
    <3>2. /\ emitting[v].seq \in 1..Len(entries) /\ emitting[v].len = entries[emitting[v].seq].len
          /\ entries[emitting[v].seq].node = v
        BY <3>1 DEF IInv, CopiesAreCurrent
    <3> QED
        BY <1>1, <1>2, <3>1, <3>2
  <2> QED
      BY <2>1, <2>2
<1>9. NotingIsClosed'
    BY <1>1 DEF IInv, TypeOK, NotingIsClosed
<1> QED
    BY <1>3, <1>4, <1>6, <1>7, <1>8, <1>9 DEF IInv

\* Stream() on an open line: the row of that line is now one chunk behind.
LEMMA ExtendStep == ASSUME IInv, NEW w \in Writers, StreamExtend(w) PROVE IInv'
<1> USE TraceBufferAssumption
<1>1. PICK n \in Lines :
      /\ n = open[w] /\ n \in 1..Len(entries) /\ Len(entries') = Len(entries)
      /\ entries' \in Seq(Entry)
      /\ \A k \in 1..Len(entries) : k # n => entries'[k] = entries[k]
      /\ \A k \in 1..Len(entries) :
           entries'[k].node = entries[k].node /\ entries'[k].kind = entries[k].kind
      /\ entries'[n].len = entries[n].len + 1
      /\ entries[n].node = w
      /\ emitting' = [emitting EXCEPT ![w] = [seq |-> n, len |-> entries[n].len + 1]]
      /\ pc' = [pc EXCEPT ![w] = "storing"]
    BY ExtendFacts DEF IInv
<1>2. /\ Len(entries) \in Nat /\ entries[n].len \in 1..MaxLen /\ entries'[n].len \in 1..MaxLen
      /\ pc[w] = "idle" /\ UNCHANGED <<open, rows, sent, missed, faults, up>>
    BY <1>1 DEF IInv, TypeOK, Entry, StreamExtend
<1>3. TypeOK'
  <2>1. [seq |-> n, len |-> entries[n].len + 1] \in [seq : 0..MaxEntries, len : 0..MaxLen]
      BY <1>1, <1>2 DEF Lines
  <2>2. emitting' \in [Writers -> [seq : 0..MaxEntries, len : 0..MaxLen]]
      BY <1>1, <2>1 DEF IInv, TypeOK
  <2>3. pc' \in [Writers -> {"idle", "noting", "storing", "sending"}]
      BY <1>1 DEF IInv, TypeOK
  <2> QED
      BY <1>1, <1>2, <2>2, <2>3 DEF IInv, TypeOK
<1>4. StreamsAreUnbroken'
  <2> SUFFICES ASSUME NEW v \in Writers, open[v] # 0
               PROVE  /\ open[v] <= Len(entries)
                      /\ entries'[open[v]].node = v /\ entries'[open[v]].kind = "thought"
                      /\ \A k \in (open[v] + 1)..Len(entries) : entries'[k].node # v
      BY <1>1, <1>2 DEF StreamsAreUnbroken
  <2>1. /\ open[v] \in 1..Len(entries)
        /\ entries[open[v]].node = v /\ entries[open[v]].kind = "thought"
        /\ \A k \in (open[v] + 1)..Len(entries) : k \in 1..Len(entries) /\ entries[k].node # v
      BY SMTT(30), <1>2 DEF IInv, TypeOK, StreamsAreUnbroken
  <2> QED
      BY <1>1, <2>1
<1>5. \A k \in Lines : /\ k # n => LengthOf(k)' = LengthOf(k) /\ (Storing(k)' <=> Storing(k))
                       /\ LengthOf(n)' = LengthOf(n) + 1 /\ Storing(n)' /\ ~Storing(n)
                       /\ LengthOf(n) \in Nat
  <2>1. LengthOf(n)' = LengthOf(n) + 1 /\ LengthOf(n) \in Nat
      BY <1>1, <1>2 DEF LengthOf
  <2>2. Storing(n)'
      BY <1>1, <1>2 DEF IInv, TypeOK, Storing
  <2>3. ~Storing(n)
      BY <1>1, <1>2 DEF IInv, CopiesAreCurrent, Storing
  <2>4. ASSUME NEW k \in Lines, k # n PROVE LengthOf(k)' = LengthOf(k)
      BY <1>1, <1>2, <2>4 DEF LengthOf, Lines
  <2>5. ASSUME NEW k \in Lines, k # n PROVE (Storing(k)' <=> Storing(k))
      BY <1>1, <1>2, <2>5, Zenon DEF IInv, TypeOK, Storing
  <2> QED
      BY <2>1, <2>2, <2>3, <2>4, <2>5
<1>6. RowsFollow'
  <2> SUFFICES ASSUME NEW k \in Lines
               PROVE  /\ rows[k] <= LengthOf(k)'
                      /\ k \notin missed => rows[k] = IF Storing(k)' THEN LengthOf(k)' - 1 ELSE LengthOf(k)'
      BY <1>2 DEF RowsFollow, LengthOf
  <2>1. /\ rows[k] <= LengthOf(k)
        /\ k \notin missed => rows[k] = IF Storing(k) THEN LengthOf(k) - 1 ELSE LengthOf(k)
        /\ rows[k] \in 0..MaxLen
      BY DEF IInv, TypeOK, RowsFollow, LengthOf
  <2>2. CASE k = n
      BY <1>5, <2>1, <2>2
  <2>3. CASE k # n
      BY <1>5, <2>1, <2>3
  <2> QED
      BY <2>2, <2>3
<1>7. SentIsStored' /\ SentIsRecorded'
  <2>1. \A k \in Lines : sent[k] \in 0..MaxLen /\ sent[k] <= LengthOf(k)
      BY DEF IInv, TypeOK, SentIsRecorded
  <2>2. \A k \in Lines : sent[k] <= LengthOf(k)'
      BY <1>5, <2>1
  <2> QED
      BY <1>2, <2>2 DEF IInv, SentIsStored, SentIsRecorded
<1>8. CopiesAreCurrent'
  <2> SUFFICES ASSUME NEW v \in Writers, pc'[v] \in {"storing", "sending"}
               PROVE  /\ emitting'[v].seq \in 1..Len(entries)
                      /\ emitting'[v].len = entries'[emitting'[v].seq].len
                      /\ entries'[emitting'[v].seq].node = v
      BY <1>1 DEF CopiesAreCurrent
  <2>1. CASE v = w
    <3>1. emitting'[v].seq = n /\ emitting'[v].len = entries[n].len + 1
        BY <1>1, <2>1 DEF IInv, TypeOK
    <3> QED
        BY <1>1, <2>1, <3>1
  <2>2. CASE v # w
    <3>1. pc[v] = pc'[v] /\ emitting'[v] = emitting[v]
        BY <1>1, <2>2 DEF IInv, TypeOK
    <3>2. /\ emitting[v].seq \in 1..Len(entries) /\ emitting[v].len = entries[emitting[v].seq].len
          /\ entries[emitting[v].seq].node = v
        BY <3>1 DEF IInv, CopiesAreCurrent
    <3>3. emitting[v].seq # n
        BY <1>1, <2>2, <3>2
    <3> QED
        BY <1>1, <3>1, <3>2, <3>3
  <2> QED
      BY <2>1, <2>2
<1>9. NotingIsClosed'
    BY <1>1, <1>2 DEF IInv, TypeOK, NotingIsClosed
<1> QED
    BY <1>3, <1>4, <1>6, <1>7, <1>8, <1>9 DEF IInv

\* The upsert brings the row up to the line, or the line is marked as missed.
LEMMA AppendTraceStep == ASSUME IInv, NEW w \in Writers, AppendTrace(w) PROVE IInv'
<1> USE TraceBufferAssumption
<1>1. PICK n \in Lines :
      /\ n = emitting[w].seq /\ n <= Len(entries) /\ emitting[w].len = LengthOf(n)
      /\ emitting[w].len \in 0..MaxLen
      /\ \A v \in Writers : v # w /\ pc[v] \in {"storing", "sending"} => emitting[v].seq # n
    BY CopyIsOwned DEF AppendTrace
<1>2. /\ pc[w] = "storing" /\ pc' = [pc EXCEPT ![w] = "sending"]
      /\ UNCHANGED <<buffer, emitting, sent, up>>
      /\ \/ rows' = [rows EXCEPT ![n] = LengthOf(n)] /\ missed' = missed \ {n} /\ UNCHANGED faults
         \/ missed' = missed \cup {n} /\ UNCHANGED rows /\ faults' \in 0..MaxFaults
    BY <1>1 DEF AppendTrace, Goto, IInv, TypeOK
<1>3. TypeOK'
    BY <1>1, <1>2 DEF IInv, TypeOK, buffer
<1>4. StreamsAreUnbroken' /\ CopiesAreCurrent' /\ NotingIsClosed' /\ SentIsRecorded'
    BY <1>2 DEF IInv, TypeOK, StreamsAreUnbroken, CopiesAreCurrent, NotingIsClosed, SentIsRecorded,
                LengthOf, buffer
<1>5. \A k \in Lines : /\ LengthOf(k)' = LengthOf(k) /\ LengthOf(k) \in Nat
                       /\ k # n => (Storing(k)' <=> Storing(k))
                       /\ ~Storing(n)'
  <2>1. \A k \in Lines : LengthOf(k)' = LengthOf(k)
      BY <1>2 DEF LengthOf, buffer
  <2>2. \A k \in Lines : LengthOf(k) \in Nat
      BY LengthType DEF IInv
  <2>3. ~Storing(n)'
      BY <1>1, <1>2 DEF IInv, TypeOK, Storing
  <2>4. ASSUME NEW k \in Lines, k # n PROVE (Storing(k)' <=> Storing(k))
      BY <1>1, <1>2, <2>4, Zenon DEF IInv, TypeOK, Storing
  <2> QED
      BY <2>1, <2>2, <2>3, <2>4
<1>6. \A k \in Lines :
         /\ rows[k] <= LengthOf(k) /\ rows[k] \in 0..MaxLen /\ sent[k] \in 0..MaxLen /\ sent[k] <= LengthOf(k)
         /\ k \notin missed => rows[k] = IF Storing(k) THEN LengthOf(k) - 1 ELSE LengthOf(k)
         /\ sent[k] <= rows[k] \/ k \in missed
    BY DEF IInv, TypeOK, RowsFollow, LengthOf, SentIsStored, SentIsRecorded
<1>7. RowsFollow'
  <2> SUFFICES ASSUME NEW k \in Lines
               PROVE  /\ rows'[k] <= LengthOf(k)
                      /\ k \notin missed' => rows'[k] = IF Storing(k)' THEN LengthOf(k) - 1 ELSE LengthOf(k)
      BY <1>2 DEF RowsFollow, LengthOf, buffer
  <2>1. CASE k = n
    <3>1. rows'[n] = LengthOf(n) \/ (n \in missed' /\ rows'[n] = rows[n])
        BY <1>2 DEF IInv, TypeOK
    <3> QED
        BY <1>5, <1>6, <2>1, <3>1
  <2>2. CASE k # n
    <3>1. rows'[k] = rows[k] /\ (k \in missed <=> k \in missed')
        BY <1>2, <2>2 DEF IInv, TypeOK
    <3>2. (Storing(k)' <=> Storing(k))
        BY <1>5, <2>2
    <3> QED
        BY <1>6, <3>1, <3>2
  <2> QED
      BY <2>1, <2>2
<1>8. SentIsStored'
  <2> SUFFICES ASSUME NEW k \in Lines PROVE sent[k] <= rows'[k] \/ k \in missed'
      BY <1>2 DEF SentIsStored
  <2>1. CASE k = n
      BY <1>2, <1>6, <2>1 DEF IInv, TypeOK
  <2>2. CASE k # n
      BY <1>2, <1>6, <2>2 DEF IInv, TypeOK
  <2> QED
      BY <2>1, <2>2
<1> QED
    BY <1>3, <1>4, <1>7, <1>8 DEF IInv

\* What is sent is in the row by now, or that write failed; and it is no shorter than
\* what was sent before.
LEMMA PublishTraceStep ==
    ASSUME IInv, NEW w \in Writers, PublishTrace(w)
    PROVE  IInv' /\ \A k \in Lines : sent'[k] >= sent[k]
<1> USE TraceBufferAssumption
<1>1. PICK n \in Lines :
      /\ n = emitting[w].seq /\ n <= Len(entries) /\ emitting[w].len = LengthOf(n)
      /\ emitting[w].len \in 0..MaxLen
      /\ \A v \in Writers : v # w /\ pc[v] \in {"storing", "sending"} => emitting[v].seq # n
    BY CopyIsOwned DEF PublishTrace
<1>2. /\ pc[w] = "sending" /\ pc' = [pc EXCEPT ![w] = "idle"]
      /\ emitting' = [emitting EXCEPT ![w] = Nothing]
      /\ sent' = [sent EXCEPT ![n] = LengthOf(n)]
      /\ UNCHANGED <<buffer, rows, missed, faults, up>>
    BY <1>1 DEF PublishTrace, Goto
<1>3. TypeOK'
    BY <1>1, <1>2 DEF IInv, TypeOK, buffer, Nothing
<1>4. StreamsAreUnbroken' /\ CopiesAreCurrent' /\ NotingIsClosed'
    BY <1>2 DEF IInv, TypeOK, StreamsAreUnbroken, CopiesAreCurrent, NotingIsClosed, buffer
<1>5. \A k \in Lines : LengthOf(k)' = LengthOf(k) /\ LengthOf(k) \in Nat
    BY <1>2, LengthType DEF IInv, LengthOf, buffer
<1>6. ASSUME NEW k \in Lines PROVE (Storing(k)' <=> Storing(k))
    BY <1>2, Zenon DEF IInv, TypeOK, Storing
<1>7. ~Storing(n)
    BY <1>1, <1>2 DEF Storing
<1>8. RowsFollow'
    BY <1>2, <1>5, <1>6 DEF IInv, RowsFollow, LengthOf
<1>9. \A k \in Lines :
         /\ sent[k] \in 0..MaxLen /\ sent[k] <= LengthOf(k)
         /\ sent'[k] = IF k = n THEN LengthOf(k) ELSE sent[k]
    BY <1>2 DEF IInv, TypeOK, SentIsRecorded
<1>10. n \notin missed => rows[n] = LengthOf(n)
    BY <1>7 DEF IInv, RowsFollow, LengthOf
<1>11. SentIsStored'
    BY <1>2, <1>5, <1>9, <1>10 DEF IInv, SentIsStored
<1>12. SentIsRecorded' /\ \A k \in Lines : sent'[k] >= sent[k]
    BY <1>5, <1>9 DEF SentIsRecorded
<1> QED
    BY <1>3, <1>4, <1>8, <1>11, <1>12 DEF IInv

\* Every step of the recorder keeps the invariant.
THEOREM IInvStep == IInv /\ [Next]_vars => IInv'
<1> SUFFICES ASSUME IInv, [Next]_vars PROVE IInv'
    OBVIOUS
<1> USE TraceBufferAssumption
<1>1. ASSUME NEW w \in Writers, Note(w) PROVE IInv'
    BY SMTT(30), <1>1 DEF Note, Goto, IInv, TypeOK, StreamsAreUnbroken, RowsFollow, Storing, SentIsStored,
                CopiesAreCurrent, NotingIsClosed, SentIsRecorded, LengthOf
<1>2. ASSUME NEW w \in Writers, NoteEntry(w) PROVE IInv'
  <2>1. open[w] = 0
      BY <1>2 DEF NoteEntry, IInv, NotingIsClosed
  <2> QED
      BY <1>2, <2>1, NewEntryStep DEF NoteEntry
<1>3. ASSUME NEW w \in Writers, StreamOpen(w) PROVE IInv'
    BY <1>3, NewEntryStep DEF StreamOpen
<1>4. ASSUME NEW w \in Writers, EndStream(w) PROVE IInv'
    BY SMTT(30), <1>4 DEF EndStream, IInv, TypeOK, StreamsAreUnbroken, RowsFollow, Storing, SentIsStored,
                CopiesAreCurrent, NotingIsClosed, SentIsRecorded, LengthOf
<1>5. CASE Die
    BY ZenonT(40), <1>5 DEF Die, buffer, IInv, TypeOK, StreamsAreUnbroken, RowsFollow, Storing, SentIsStored,
                CopiesAreCurrent, NotingIsClosed, SentIsRecorded, LengthOf
<1>6. CASE UNCHANGED vars
    BY <1>6 DEF vars, buffer, IInv, TypeOK, StreamsAreUnbroken, RowsFollow, Storing, SentIsStored,
                CopiesAreCurrent, NotingIsClosed, SentIsRecorded, LengthOf
<1> QED
    BY <1>1, <1>2, <1>3, <1>4, <1>5, <1>6, ExtendStep, AppendTraceStep, PublishTraceStep
    DEF Next, Record, Deliver

-----------------------------------------------------------------------------
(* The theorems.                                                           *)

\* The strengthened invariant holds in every reachable state.
THEOREM Invariance == Spec => []IInv
<1> QED
    BY InitIInv, IInvStep, PTL DEF Spec

\* Every variable of the recorder keeps its type.
THEOREM TypeCorrect == Spec => []TypeOK
<1>1. IInv => TypeOK
    BY DEF IInv
<1> QED
    BY <1>1, Invariance, PTL

\* Streamed reasoning is never broken by a line of its own node, however many nodes
\* record at the same time (Buffer.Note, Buffer.Stream).
THEOREM StreamsStayUnbroken == Spec => []StreamsAreUnbroken
<1>1. IInv => StreamsAreUnbroken
    BY DEF IInv
<1> QED
    BY <1>1, Invariance, PTL

\* The rows of the traces table lack at most what is being stored, or what a failed
\* write has left out (Store.AppendTrace).
THEOREM RowsAreCurrent == Spec => []RowsFollow
<1>1. IInv => RowsFollow
    BY DEF IInv
<1> QED
    BY <1>1, Invariance, PTL

\* A subscriber knows of a line what its row knows, or less (Store.Recorder).
THEOREM SubscribersKnowNoMore == Spec => []SentIsStored
<1>1. IInv => SentIsStored
    BY DEF IInv
<1> QED
    BY <1>1, Invariance, PTL

\* Subscribers are never sent a shorter line after a longer one (Store.publishTrace).
THEOREM LinesAreSentInOrder == Spec => SentOnlyGrows
<1>1. IInv /\ [Next]_vars => \A k \in Lines : sent'[k] >= sent[k]
  <2> SUFFICES ASSUME IInv, [Next]_vars PROVE \A k \in Lines : sent'[k] >= sent[k]
      OBVIOUS
  <2>1. CASE UNCHANGED sent
      BY <2>1, TraceBufferAssumption DEF IInv, TypeOK
  <2>2. CASE \E w \in Writers : PublishTrace(w)
      BY <2>2, PublishTraceStep
  <2> QED
      BY <2>1, <2>2 DEF Next, Record, Deliver, Note, NoteEntry, StreamOpen, StreamExtend, EndStream,
                        AppendTrace, Die, vars
<1> QED
    BY <1>1, Invariance, PTL DEF Spec, SentOnlyGrows

\* Only the node that streams into a line changes it, and it does not end its stream in
\* the same step (Buffer.Stream).
THEOREM ClosedLinesStay == Spec => ClosedLinesAreFinal
<1> DEFINE Extended(k) == \E w \in Writers : open[w] = k /\ entries[k].node = w /\ open'[w] = k
<1>1. IInv /\ [Next]_vars => \A k \in 1..Len(entries) : entries'[k] # entries[k] => Extended(k)
  <2> SUFFICES ASSUME IInv, [Next]_vars, NEW k \in 1..Len(entries), entries'[k] # entries[k]
               PROVE  Extended(k)
      OBVIOUS
  <2>1. ASSUME NEW w \in Writers, NEW kind \in {"note", "thought"}, NewEntry(w, kind) PROVE FALSE
      BY <2>1, NewEntryFacts DEF IInv
  <2>2. ASSUME NEW w \in Writers, StreamExtend(w) PROVE Extended(k)
    <3>1. k = open[w] /\ entries[k].node = w
        BY <2>2, ExtendFacts DEF IInv
    <3> QED
        BY <2>2, <3>1 DEF StreamExtend
  <2>3. ~UNCHANGED entries
      OBVIOUS
  <2> QED
      BY <2>1, <2>2, <2>3 DEF Next, Record, Deliver, Note, NoteEntry, StreamOpen, EndStream,
                              AppendTrace, PublishTrace, Die, buffer, vars
<1> QED
    BY <1>1, Invariance, PTL DEF Spec, ClosedLinesAreFinal
=============================================================================
