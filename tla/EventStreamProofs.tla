------------------------- MODULE EventStreamProofs --------------------------
(* Proofs about what a page is told and shows, for any number of browsers,   *)
(* updates, lines and broken connections, and channels of any capacity.      *)
EXTENDS EventStream, TLAPS

Event == JobEvent \cup TraceEvent
Version == 0..Last
Text == [1..MaxLines -> 0..MaxLen]
Page == [ver : Version, lines : Text, over : BOOLEAN]

Served(b) == pc[b] \in {"registered", "replaying", "streaming"}

\* What the events in a channel are applied to: what the page shows, or will show once
\* snapshot and backlog have gone out.
LowVer(b) == IF pc[b] \in {"replaying", "streaming"} THEN page[b].ver ELSE snap[b]
BaseLines(b) == IF pc[b] = "streaming" THEN page[b].lines ELSE backlog[b]

\* The job events in a channel are in order, between these two versions.
JobsFollow(ch, low, high) ==
    /\ \A i \in 1..Len(ch) : ch[i].type = "job" => low <= ch[i].ver /\ ch[i].ver <= high
    /\ \A i, j \in 1..Len(ch) :
         i <= j /\ ch[i].type = "job" /\ ch[j].type = "job" => ch[i].ver <= ch[j].ver

\* The frames of each line in a channel are in order, between these two lengths of it.
LinesFollow(ch, base, rec) ==
    /\ \A i \in 1..Len(ch) : ch[i].type = "trace" =>
         base[ch[i].seq] <= ch[i].len /\ ch[i].len <= rec[ch[i].seq]
    /\ \A i, j \in 1..Len(ch) :
         i <= j /\ ch[i].type = "trace" /\ ch[j].type = "trace" /\ ch[i].seq = ch[j].seq
             => ch[i].len <= ch[j].len

HasEnd(ch) == \E i \in 1..Len(ch) : ch[i].type = "job" /\ ch[i].done
HasLine(ch, k, n) ==
    \E i \in 1..Len(ch) : ch[i].type = "trace" /\ ch[i].seq = k /\ ch[i].len = n

\* The line being emitted is sent as it is recorded.
OutboxIsCurrent ==
    \A k \in 1..MaxLines, n \in 1..MaxLen :
        outbox = <<k, n>> => k <= Len(lines) /\ lines[k] = n

\* A connection owns a channel from its registration to its return.
Owns(b) ==
    /\ b \in subs <=> Served(b)
    /\ Len(chan[b]) <= BufCap
    /\ b \notin subs => chan[b] = <<>>

\* The page is behind what its connection has read, and that is behind the store.
Behind(b) ==
    /\ page[b].ver <= ver /\ snap[b] <= ver
    /\ pc[b] \in {"snapped", "read", "registered"} => page[b].ver <= snap[b]
    /\ \A k \in 1..MaxLines :
         /\ page[b].lines[k] <= Recorded[k] /\ backlog[b][k] <= Recorded[k]
         /\ pc[b] \in {"read", "registered", "replaying"} => page[b].lines[k] <= backlog[b][k]
    /\ pc[b] = "streaming" => snap[b] < Last

\* The end of the job is in the snapshot or in the channel.
EndIsDue(b) ==
    Served(b) /\ ver = Last /\ ~pending /\ ~page[b].over /\ b \notin raced \cup lossy =>
        snap[b] = Last \/ HasEnd(chan[b])

\* Each line, as it is now, is shown, in the channel, or about to be emitted.
LinesAreDue(b) ==
    Served(b) /\ ~page[b].over /\ b \notin gapped \cup lossy =>
        \A k \in 1..Len(lines) :
            \/ outbox = <<k, lines[k]>>
            \/ HasLine(chan[b], k, lines[k])
            \/ BaseLines(b)[k] = lines[k]

\* What holds of each connection.
BInv(b) ==
    /\ Owns(b) /\ Behind(b)
    /\ JobsFollow(chan[b], LowVer(b), ver)
    /\ LinesFollow(chan[b], BaseLines(b), Recorded)
    /\ EndIsDue(b) /\ LinesAreDue(b)

\* TypeOK, with its sets named.
Types ==
    /\ ver \in Version
    /\ outcome \in {"none", "done", "failed", "cutoff"}
    /\ pending \in BOOLEAN
    /\ lines \in Seq(1..MaxLen) /\ Len(lines) <= MaxLines
    /\ outbox \in {<<>>} \cup (1..MaxLines) \X (1..MaxLen)
    /\ subs \subseteq Browsers
    /\ chan \in [Browsers -> Seq(Event)]
    /\ pc \in [Browsers -> {"off", "snapped", "read", "registered", "replaying", "streaming"}]
    /\ snap \in [Browsers -> Version]
    /\ backlog \in [Browsers -> Text]
    /\ page \in [Browsers -> Page]
    /\ drops \in 0..MaxDrops
    /\ raced \subseteq Browsers /\ lossy \subseteq Browsers /\ gapped \subseteq Browsers

\* The inductive invariant.
IInv == Types /\ OutboxIsCurrent /\ \A b \in Browsers : BInv(b)

-----------------------------------------------------------------------------
(* Channels.                                                               *)

\* What an event is made of.
LEMMA EventFacts ==
    /\ \A e \in Event : e.type = "job" => e.ver \in Version /\ e.done \in BOOLEAN
    /\ \A e \in Event : e.type = "trace" => e.seq \in 1..MaxLines /\ e.len \in 1..MaxLen
    /\ \A v \in Version, d \in BOOLEAN : [type |-> "job", ver |-> v, done |-> d] \in Event
    /\ \A k \in 1..MaxLines, n \in 1..MaxLen : [type |-> "trace", seq |-> k, len |-> n] \in Event
BY DEF Event, JobEvent, TraceEvent, Version

\* A sent event is the last of the channel.
LEMMA AppendFacts ==
    ASSUME NEW ch \in Seq(Event), NEW e \in Event
    PROVE  /\ Append(ch, e) \in Seq(Event)
           /\ Len(ch) \in Nat
           /\ Len(Append(ch, e)) = Len(ch) + 1
           /\ Append(ch, e)[Len(ch) + 1] = e
           /\ \A i \in 1..Len(ch) : Append(ch, e)[i] = ch[i]
OBVIOUS

\* A forwarded event was the first of the channel.
LEMMA TailFacts ==
    ASSUME NEW ch \in Seq(Event), ch # <<>>
    PROVE  /\ Head(ch) = ch[1] /\ Head(ch) \in Event
           /\ Tail(ch) \in Seq(Event)
           /\ Len(ch) \in Nat \ {0} /\ Len(Tail(ch)) = Len(ch) - 1
           /\ \A i \in 1..Len(Tail(ch)) : Tail(ch)[i] = ch[i + 1] /\ i + 1 \in 1..Len(ch)
OBVIOUS

\* A channel that was just made is empty.
LEMMA EmptyFollows ==
    ASSUME NEW low, NEW high, NEW base, NEW rec
    PROVE  JobsFollow(<<>>, low, high) /\ LinesFollow(<<>>, base, rec)
BY DEF JobsFollow, LinesFollow

\* An event with the current version may join the channel.
LEMMA JobsAppend ==
    ASSUME NEW ch \in Seq(Event), NEW e \in Event, NEW low \in Nat, NEW high \in Nat,
           JobsFollow(ch, low, high), low <= high, e.type = "job" => e.ver = high
    PROVE  JobsFollow(Append(ch, e), low, high)
<1> DEFINE l == Append(ch, e)
<1>1. /\ Len(ch) \in Nat /\ Len(l) = Len(ch) + 1 /\ l[Len(ch) + 1] = e
      /\ \A i \in 1..Len(ch) : l[i] = ch[i]
    BY AppendFacts
<1> HIDE DEF l
<1>2. \A i \in 1..Len(l) : i \in 1..Len(ch) \/ i = Len(ch) + 1
    BY <1>1
<1>3. \A i \in 1..Len(l) : l[i].type = "job" => low <= l[i].ver /\ l[i].ver <= high
    BY <1>1, <1>2 DEF JobsFollow
<1>4. ASSUME NEW i \in 1..Len(l), NEW j \in 1..Len(l), i <= j, l[i].type = "job", l[j].type = "job"
      PROVE  l[i].ver <= l[j].ver
  <2>1. CASE j = Len(ch) + 1
      BY <1>1, <1>3, <1>4, <2>1
  <2>2. CASE j \in 1..Len(ch)
    <3>1. i \in 1..Len(ch)
        BY <1>1, <1>4, <2>2
    <3> QED
        BY <1>1, <1>4, <2>2, <3>1 DEF JobsFollow
  <2> QED
      BY <1>2, <2>1, <2>2
<1> QED
    BY <1>3, <1>4 DEF JobsFollow, l

\* When the first event is gone, the others follow it.
LEMMA JobsTail ==
    ASSUME NEW ch \in Seq(Event), ch # <<>>, NEW low, NEW high, JobsFollow(ch, low, high)
    PROVE  /\ JobsFollow(Tail(ch), low, high)
           /\ Head(ch).type = "job" =>
                /\ low <= Head(ch).ver /\ Head(ch).ver <= high
                /\ JobsFollow(Tail(ch), Head(ch).ver, high)
<1> DEFINE l == Tail(ch)
<1>1. /\ Head(ch) = ch[1] /\ Len(ch) \in Nat \ {0} /\ Len(l) \in Nat
      /\ \A i \in 1..Len(l) : l[i] = ch[i + 1] /\ i + 1 \in 1..Len(ch)
    BY TailFacts
<1> HIDE DEF l
<1>2. \A i \in 1..Len(l) : l[i].type = "job" => low <= l[i].ver /\ l[i].ver <= high
    BY <1>1 DEF JobsFollow
<1>3. \A i, j \in 1..Len(l) :
        i <= j /\ l[i].type = "job" /\ l[j].type = "job" => l[i].ver <= l[j].ver
    BY <1>1 DEF JobsFollow
<1>4. 1 \in 1..Len(ch)
    BY <1>1
<1>5. Head(ch).type = "job" => low <= Head(ch).ver /\ Head(ch).ver <= high
    BY <1>1, <1>4 DEF JobsFollow
<1>6. ASSUME Head(ch).type = "job", NEW i \in 1..Len(l), l[i].type = "job"
      PROVE  Head(ch).ver <= l[i].ver
    BY <1>1, <1>4, <1>6 DEF JobsFollow
<1> QED
    BY <1>2, <1>3, <1>5, <1>6 DEF JobsFollow, l

\* Bounds that move apart still hold.
LEMMA JobsWiden ==
    ASSUME NEW ch \in Seq(Event), NEW low \in Nat, NEW high \in Nat, NEW low2 \in Nat, NEW high2 \in Nat,
           low2 <= low, high <= high2, JobsFollow(ch, low, high)
    PROVE  JobsFollow(ch, low2, high2)
<1>1. \A i \in 1..Len(ch) : ch[i] \in Event
    OBVIOUS
<1>2. \A i \in 1..Len(ch) : ch[i].type = "job" => ch[i].ver \in Nat
    BY <1>1, EventFacts, EventStreamAssumption DEF Version
<1> QED
    BY <1>2 DEF JobsFollow

\* A frame with the whole line may join the channel.
LEMMA LinesAppend ==
    ASSUME NEW ch \in Seq(Event), NEW e \in Event, NEW base \in Text, NEW rec \in Text,
           LinesFollow(ch, base, rec), \A k \in 1..MaxLines : base[k] <= rec[k],
           e.type = "trace" => e.len = rec[e.seq]
    PROVE  LinesFollow(Append(ch, e), base, rec)
<1> DEFINE l == Append(ch, e)
<1>1. /\ Len(ch) \in Nat /\ Len(l) = Len(ch) + 1 /\ l[Len(ch) + 1] = e
      /\ \A i \in 1..Len(ch) : l[i] = ch[i]
    BY AppendFacts
<1> HIDE DEF l
<1>2. \A i \in 1..Len(l) : i \in 1..Len(ch) \/ i = Len(ch) + 1
    BY <1>1
<1>3. e.type = "trace" => e.seq \in 1..MaxLines /\ e.len \in Nat
    BY EventFacts, EventStreamAssumption
<1>4. \A i \in 1..Len(l) : l[i].type = "trace" =>
        base[l[i].seq] <= l[i].len /\ l[i].len <= rec[l[i].seq]
    BY <1>1, <1>2, <1>3 DEF LinesFollow
<1>5. ASSUME NEW i \in 1..Len(l), NEW j \in 1..Len(l), i <= j,
             l[i].type = "trace", l[j].type = "trace", l[i].seq = l[j].seq
      PROVE  l[i].len <= l[j].len
  <2>1. CASE j = Len(ch) + 1
      BY <1>1, <1>4, <1>5, <2>1
  <2>2. CASE j \in 1..Len(ch)
    <3>1. i \in 1..Len(ch)
        BY <1>1, <1>5, <2>2
    <3> QED
        BY <1>1, <1>5, <2>2, <3>1 DEF LinesFollow
  <2> QED
      BY <1>2, <2>1, <2>2
<1> QED
    BY <1>4, <1>5 DEF LinesFollow, l

\* When the first frame is gone, the later ones of its line are no shorter.
LEMMA LinesTail ==
    ASSUME NEW ch \in Seq(Event), ch # <<>>, NEW base \in Text, NEW rec, LinesFollow(ch, base, rec)
    PROVE  /\ LinesFollow(Tail(ch), base, rec)
           /\ Head(ch).type = "trace" =>
                /\ Head(ch).seq \in 1..MaxLines /\ Head(ch).len \in 1..MaxLen
                /\ base[Head(ch).seq] <= Head(ch).len
                /\ Head(ch).len <= rec[Head(ch).seq]
                /\ LinesFollow(Tail(ch), [base EXCEPT ![Head(ch).seq] = Head(ch).len], rec)
<1> DEFINE l == Tail(ch)
           e == Head(ch)
           shown == [base EXCEPT ![e.seq] = e.len]
<1>1. /\ e = ch[1] /\ e \in Event /\ Len(ch) \in Nat \ {0} /\ Len(l) \in Nat
      /\ \A i \in 1..Len(l) : l[i] = ch[i + 1] /\ i + 1 \in 1..Len(ch)
    BY TailFacts
<1>2. e.type = "trace" =>
        /\ e.seq \in 1..MaxLines /\ e.len \in 1..MaxLen
        /\ \A k \in 1..MaxLines : shown[k] = IF k = e.seq THEN e.len ELSE base[k]
    BY <1>1, EventFacts DEF Text
<1>3. \A i \in 1..Len(l) : l[i] \in Event /\ (l[i].type = "trace" => l[i].seq \in 1..MaxLines)
    BY <1>1, EventFacts
<1> HIDE DEF l, e, shown
<1>4. \A i \in 1..Len(l) : l[i].type = "trace" =>
        base[l[i].seq] <= l[i].len /\ l[i].len <= rec[l[i].seq]
    BY <1>1 DEF LinesFollow
<1>5. \A i, j \in 1..Len(l) :
        i <= j /\ l[i].type = "trace" /\ l[j].type = "trace" /\ l[i].seq = l[j].seq
            => l[i].len <= l[j].len
    BY <1>1 DEF LinesFollow
<1>6. 1 \in 1..Len(ch)
    BY <1>1
<1>7. e.type = "trace" => base[e.seq] <= e.len /\ e.len <= rec[e.seq]
    BY <1>1, <1>6 DEF LinesFollow
<1>8. ASSUME e.type = "trace", NEW i \in 1..Len(l), l[i].type = "trace", l[i].seq = e.seq
      PROVE  e.len <= l[i].len
    BY <1>1, <1>6, <1>8 DEF LinesFollow
<1>9. ASSUME e.type = "trace", NEW i \in 1..Len(l), l[i].type = "trace"
      PROVE  shown[l[i].seq] <= l[i].len
    BY <1>2, <1>3, <1>4, <1>8, <1>9
<1>10. LinesFollow(l, base, rec) /\ (e.type = "trace" => LinesFollow(l, shown, rec))
    BY <1>4, <1>5, <1>9 DEF LinesFollow
<1> QED
    BY <1>2, <1>7, <1>10 DEF l, e, shown

\* Bounds that move apart still hold.
LEMMA LinesWiden ==
    ASSUME NEW ch \in Seq(Event), NEW base \in Text, NEW rec \in Text, NEW base2 \in Text, NEW rec2 \in Text,
           \A k \in 1..MaxLines : base2[k] <= base[k] /\ rec[k] <= rec2[k],
           LinesFollow(ch, base, rec)
    PROVE  LinesFollow(ch, base2, rec2)
<1>1. \A i \in 1..Len(ch) : ch[i] \in Event
    OBVIOUS
<1>2. \A i \in 1..Len(ch) : ch[i].type = "trace" => ch[i].seq \in 1..MaxLines /\ ch[i].len \in Nat
    BY <1>1, EventFacts, EventStreamAssumption
<1>3. \A i \in 1..Len(ch) : ch[i].type = "trace" =>
        base2[ch[i].seq] <= ch[i].len /\ ch[i].len <= rec2[ch[i].seq]
  <2> SUFFICES ASSUME NEW i \in 1..Len(ch), ch[i].type = "trace"
               PROVE  base2[ch[i].seq] <= ch[i].len /\ ch[i].len <= rec2[ch[i].seq]
      OBVIOUS
  <2> DEFINE k == ch[i].seq
  <2>1. k \in 1..MaxLines /\ ch[i].len \in Nat
      BY <1>2
  <2>2. base[k] \in Nat /\ rec[k] \in Nat /\ base2[k] \in Nat /\ rec2[k] \in Nat
      BY <2>1, EventStreamAssumption DEF Text
  <2>3. base[k] <= ch[i].len /\ ch[i].len <= rec[k]
      BY DEF LinesFollow
  <2> QED
      BY <2>1, <2>2, <2>3
<1> QED
    BY <1>3 DEF LinesFollow

\* What the channel holds stays in it when an event is sent.
LEMMA HasAppend ==
    ASSUME NEW ch \in Seq(Event), NEW e \in Event
    PROVE  /\ HasEnd(ch) => HasEnd(Append(ch, e))
           /\ e.type = "job" /\ e.done => HasEnd(Append(ch, e))
           /\ \A k, n : HasLine(ch, k, n) => HasLine(Append(ch, e), k, n)
           /\ e.type = "trace" => HasLine(Append(ch, e), e.seq, e.len)
<1> DEFINE l == Append(ch, e)
<1>1. /\ Len(ch) \in Nat /\ Len(l) = Len(ch) + 1 /\ l[Len(ch) + 1] = e
      /\ \A i \in 1..Len(ch) : l[i] = ch[i]
    BY AppendFacts
<1> HIDE DEF l
<1>2. Len(ch) + 1 \in 1..Len(l) /\ \A i \in 1..Len(ch) : i \in 1..Len(l)
    BY <1>1
<1>3. HasEnd(ch) => HasEnd(l)
    BY <1>1, <1>2 DEF HasEnd
<1>4. e.type = "job" /\ e.done => HasEnd(l)
    BY <1>1, <1>2 DEF HasEnd
<1>5. \A k, n : HasLine(ch, k, n) => HasLine(l, k, n)
    BY <1>1, <1>2 DEF HasLine
<1>6. e.type = "trace" => HasLine(l, e.seq, e.len)
    BY <1>1, <1>2 DEF HasLine
<1> QED
    BY <1>3, <1>4, <1>5, <1>6 DEF l

\* Of what the channel holds only the first event goes when it is forwarded.
LEMMA HasTail ==
    ASSUME NEW ch \in Seq(Event), ch # <<>>
    PROVE  /\ HasEnd(ch) => HasEnd(Tail(ch)) \/ (Head(ch).type = "job" /\ Head(ch).done)
           /\ \A k, n : HasLine(ch, k, n) =>
                \/ HasLine(Tail(ch), k, n)
                \/ Head(ch).type = "trace" /\ Head(ch).seq = k /\ Head(ch).len = n
<1> DEFINE l == Tail(ch)
<1>1. /\ Head(ch) = ch[1] /\ Len(ch) \in Nat \ {0} /\ Len(l) = Len(ch) - 1
      /\ \A i \in 1..Len(l) : l[i] = ch[i + 1]
    BY TailFacts
<1> HIDE DEF l
<1>2. \A i \in 1..Len(ch) : i = 1 \/ (i - 1 \in 1..Len(l) /\ l[i - 1] = ch[i])
    BY <1>1
<1>3. HasEnd(ch) => HasEnd(l) \/ (Head(ch).type = "job" /\ Head(ch).done)
    BY <1>1, <1>2 DEF HasEnd
<1>4. \A k, n : HasLine(ch, k, n) =>
        HasLine(l, k, n) \/ (Head(ch).type = "trace" /\ Head(ch).seq = k /\ Head(ch).len = n)
    BY <1>1, <1>2 DEF HasLine
<1> QED
    BY <1>3, <1>4 DEF l

-----------------------------------------------------------------------------
(* The state.                                                              *)

\* The bounds, as numbers.
LEMMA Bounds ==
    /\ Last \in Nat \ {0} /\ BufCap \in Nat \ {0} /\ MaxLines \in Nat /\ MaxLen \in Nat \ {0}
    /\ \A v \in Version : v \in Nat /\ v <= Last
    /\ \A t \in Text : \A k \in 1..MaxLines : t[k] \in Nat
BY EventStreamAssumption DEF Version, Text

\* The recorded lines are lengths, 0 beyond the last.
LEMMA TextOfLines ==
    ASSUME NEW s \in Seq(1..MaxLen), Len(s) <= MaxLines
    PROVE  LET rec == [k \in 1..MaxLines |-> IF k <= Len(s) THEN s[k] ELSE 0] IN
           /\ Len(s) \in Nat /\ rec \in Text
           /\ \A k \in 1..MaxLines : rec[k] = IF k <= Len(s) THEN s[k] ELSE 0
           /\ \A k \in 1..Len(s) : k \in 1..MaxLines /\ s[k] \in 1..MaxLen
<1>1. Len(s) \in Nat /\ \A k \in 1..Len(s) : k \in 1..MaxLines /\ s[k] \in 1..MaxLen
    BY Bounds
<1>2. \A k \in 1..MaxLines : (IF k <= Len(s) THEN s[k] ELSE 0) \in 0..MaxLen
    BY <1>1, Bounds
<1> QED
    BY <1>1, <1>2 DEF Text

\* That is what the store has, now and after a step.
LEMMA RecordedFacts ==
    Types => /\ Len(lines) \in Nat /\ Recorded \in Text
             /\ \A k \in 1..MaxLines : Recorded[k] = IF k <= Len(lines) THEN lines[k] ELSE 0
             /\ \A k \in 1..Len(lines) : k \in 1..MaxLines /\ lines[k] \in 1..MaxLen
BY TextOfLines DEF Types, Recorded

LEMMA RecordedNext ==
    Types' => /\ Len(lines') \in Nat /\ Recorded' \in Text
              /\ \A k \in 1..MaxLines : Recorded'[k] = IF k <= Len(lines') THEN lines'[k] ELSE 0
              /\ \A k \in 1..Len(lines') : k \in 1..MaxLines /\ lines'[k] \in 1..MaxLen
BY TextOfLines DEF Types, Recorded

\* The types of what belongs to one connection.
LEMMA ConnectionTypes ==
    ASSUME Types, NEW b \in Browsers
    PROVE  /\ chan[b] \in Seq(Event) /\ snap[b] \in Version /\ backlog[b] \in Text
           /\ page[b] \in Page /\ page[b].ver \in Version /\ page[b].lines \in Text
           /\ page[b].over \in BOOLEAN
           /\ LowVer(b) \in Version /\ BaseLines(b) \in Text
BY DEF Types, Page, LowVer, BaseLines

\* A job event changes what the page shows of the job, and may close it.
LEMMA ApplyJobFacts ==
    ASSUME NEW p \in Page, NEW v \in Version, NEW d \in BOOLEAN
    PROVE  LET q == ApplyJob(p, v, d) IN
           /\ q \in Page /\ q.lines = p.lines /\ (q.ver = p.ver \/ q.ver = v)
           /\ ~q.over => ~p.over /\ ~d /\ q.ver = v
           /\ ~p.over => q.ver = v
BY DEF ApplyJob, Page

\* A frame changes one line.
LEMMA ApplyLineFacts ==
    ASSUME NEW p \in Page, NEW k \in 1..MaxLines, NEW n \in 1..MaxLen
    PROVE  LET q == ApplyLine(p, k, n) IN
           /\ q \in Page /\ q.ver = p.ver /\ q.over = p.over
           /\ p.over => q.lines = p.lines
           /\ ~p.over => q.lines = [p.lines EXCEPT ![k] = n]
<1>1. n \in 0..MaxLen
    BY Bounds
<1>2. [p.lines EXCEPT ![k] = n] \in Text
    BY <1>1 DEF Page, Text
<1>3. [p EXCEPT !.lines[k] = n] = [p EXCEPT !.lines = [p.lines EXCEPT ![k] = n]]
    BY DEF Page
<1> QED
    BY <1>2, <1>3 DEF ApplyLine, Page

\* A backlog replaces the lines it has.
LEMMA ApplyBacklogFacts ==
    ASSUME NEW p \in Page, NEW known \in Text
    PROVE  LET q == ApplyBacklog(p, known) IN
           /\ q \in Page /\ q.ver = p.ver /\ q.over = p.over
           /\ \A k \in 1..MaxLines :
                q.lines[k] = IF p.over \/ known[k] = 0 THEN p.lines[k] ELSE known[k]
<1> DEFINE t == [k \in 1..MaxLines |-> IF known[k] > 0 THEN known[k] ELSE p.lines[k]]
<1>1. p.lines \in Text /\ t \in Text
    BY DEF Page, Text
<1>2. \A k \in 1..MaxLines : t[k] = IF known[k] = 0 THEN p.lines[k] ELSE known[k]
    BY Bounds
<1>3. CASE p.over
    BY <1>3 DEF ApplyBacklog
<1>4. CASE ~p.over
  <2>1. ApplyBacklog(p, known) = [p EXCEPT !.lines = t]
      BY <1>4 DEF ApplyBacklog
  <2> HIDE DEF t
  <2>2. /\ [p EXCEPT !.lines = t] \in Page /\ [p EXCEPT !.lines = t].ver = p.ver
        /\ [p EXCEPT !.lines = t].over = p.over /\ [p EXCEPT !.lines = t].lines = t
      BY <1>1 DEF Page
  <2> QED
      BY <1>2, <1>4, <2>1, <2>2
<1> QED
    BY <1>3, <1>4

\* fanout(): a registered channel gets the event or is noted to have lost it.
LEMMA FanoutFacts ==
    ASSUME Types, NEW e \in Event, Fanout(e)
    PROVE  /\ chan' \in [Browsers -> Seq(Event)] /\ lossy' \subseteq Browsers
           /\ \A b \in Browsers :
                /\ b \in lossy => b \in lossy'
                /\ \/ b \in subs /\ Len(chan[b]) < BufCap /\ chan'[b] = Append(chan[b], e)
                   \/ chan'[b] = chan[b] /\ (b \in subs => b \in lossy')
<1>1. \A b \in Browsers : chan[b] \in Seq(Event) /\ Append(chan[b], e) \in Seq(Event) /\ Len(chan[b]) \in Nat
    BY AppendFacts DEF Types
<1>2. chan' \in [Browsers -> Seq(Event)]
    BY <1>1 DEF Fanout
<1>3. lossy' \subseteq Browsers
    BY DEF Fanout, Types
<1>4. \A b \in Browsers :
        chan'[b] = IF b \in subs /\ Len(chan[b]) < BufCap THEN Append(chan[b], e) ELSE chan[b]
    BY DEF Fanout
<1>5. \A b \in Browsers :
        (b \in lossy => b \in lossy') /\ (b \in subs /\ Len(chan[b]) >= BufCap => b \in lossy')
    BY DEF Fanout, Types
<1>6. \A b \in Browsers : Len(chan[b]) < BufCap \/ Len(chan[b]) >= BufCap
    BY <1>1, Bounds
<1> QED
    BY <1>2, <1>3, <1>4, <1>5, <1>6

-----------------------------------------------------------------------------
(* The invariant is preserved, one action after the other.                 *)

\* An empty store and nobody connected.
THEOREM InitIInv == Init => IInv
<1> SUFFICES ASSUME Init PROVE IInv
    OBVIOUS
<1>1. NoLines \in Text /\ 0 \in Version
    BY Bounds DEF NoLines, Text, Version
<1>2. [ver |-> 0, lines |-> NoLines, over |-> FALSE] \in Page
    BY <1>1 DEF Page
<1>3. <<>> \in Seq(Event) /\ <<>> \in Seq(1..MaxLen) /\ Len(<<>>) = 0
    OBVIOUS
<1>4. ver \in Version /\ snap \in [Browsers -> Version] /\ backlog \in [Browsers -> Text]
      /\ page \in [Browsers -> Page]
    BY <1>1, <1>2 DEF Init
<1>5. lines \in Seq(1..MaxLen) /\ Len(lines) <= MaxLines /\ drops \in 0..MaxDrops
    BY <1>3, EventStreamAssumption DEF Init
<1>6. Types
    BY <1>3, <1>4, <1>5 DEF Init, Types
<1>7. OutboxIsCurrent
    BY DEF Init, OutboxIsCurrent
<1>8. ASSUME NEW b \in Browsers PROVE BInv(b)
  <2>1. /\ chan[b] = <<>> /\ pc[b] = "off" /\ snap[b] = 0 /\ backlog[b] = NoLines /\ subs = {}
        /\ page[b] = [ver |-> 0, lines |-> NoLines, over |-> FALSE] /\ ver = 0 /\ lines = <<>>
      BY DEF Init
  <2>2. Owns(b) /\ EndIsDue(b) /\ LinesAreDue(b)
      BY <2>1, Bounds DEF Owns, EndIsDue, LinesAreDue, Served
  <2>3. Recorded = NoLines
      BY <1>3, <2>1 DEF Recorded, NoLines
  <2>4. Behind(b)
      BY <2>1, <2>3 DEF Behind, NoLines
  <2> QED
      BY <2>1, <2>2, <2>4, EmptyFollows DEF BInv
<1> QED
    BY <1>6, <1>7, <1>8 DEF IInv

\* A connection that is not touched while the job and its lines stay as they are.
LEMMA Untouched ==
    ASSUME NEW b \in Browsers, BInv(b), UNCHANGED producer,
           b \in subs' <=> b \in subs, chan'[b] = chan[b], pc'[b] = pc[b], snap'[b] = snap[b],
           backlog'[b] = backlog[b], page'[b] = page[b],
           b \in raced' <=> b \in raced, b \in lossy' <=> b \in lossy, b \in gapped' <=> b \in gapped
    PROVE  BInv(b)'
<1> USE DEF producer, BInv
<1>1. Recorded' = Recorded /\ LowVer(b)' = LowVer(b) /\ BaseLines(b)' = BaseLines(b)
      /\ Served(b)' = Served(b)
    BY DEF Recorded, LowVer, BaseLines, Served
<1>2. Owns(b)'
    BY <1>1 DEF Owns
<1>3. Behind(b)'
    BY <1>1 DEF Behind
<1>4. JobsFollow(chan[b], LowVer(b), ver)' /\ LinesFollow(chan[b], BaseLines(b), Recorded)'
    BY <1>1 DEF JobsFollow, LinesFollow
<1>5. EndIsDue(b)'
    BY <1>1 DEF EndIsDue, HasEnd
<1>6. LinesAreDue(b)'
    BY <1>1 DEF LinesAreDue, HasLine
<1> QED
    BY <1>2, <1>3, <1>4, <1>5, <1>6

\* A handler that returns leaves nothing behind but what the page shows.
LEMMA Returned ==
    ASSUME Types, NEW b \in Browsers, BInv(b), Return(b), UNCHANGED producer,
           snap'[b] = snap[b], backlog'[b] = backlog[b], page'[b] \in Page,
           page'[b].ver <= ver, \A k \in 1..MaxLines : page'[b].lines[k] <= Recorded[k]
    PROVE  BInv(b)'
<1>1. chan'[b] = <<>> /\ pc'[b] = "off" /\ b \notin subs'
    BY DEF Return, Goto, Types
<1>2. Recorded' = Recorded /\ ver' = ver
    BY DEF Recorded, producer
<1>3. Owns(b)' /\ EndIsDue(b)' /\ LinesAreDue(b)'
    BY <1>1, Bounds DEF Owns, EndIsDue, LinesAreDue, Served
<1>4. Behind(b)'
    BY <1>1, <1>2 DEF Behind, BInv
<1>5. JobsFollow(chan[b], LowVer(b), ver)' /\ LinesFollow(chan[b], BaseLines(b), Recorded)'
    BY <1>1 DEF JobsFollow, LinesFollow
<1> QED
    BY <1>3, <1>4, <1>5 DEF BInv

\* update() raises the version; what was sent of the job is older.
LEMMA MutateStep == IInv /\ Mutate => IInv'
<1> SUFFICES ASSUME IInv, Mutate PROVE IInv'
    OBVIOUS
<1> USE DEF IInv
<1>1. ver \in Nat /\ ver < Last /\ ver' = ver + 1 /\ ver' \in Version /\ pending' = TRUE
    BY Bounds DEF Mutate, Types, Version
<1>2. Types'
    BY <1>1 DEF Mutate, Types, history
<1>3. OutboxIsCurrent'
    BY DEF Mutate, OutboxIsCurrent
<1>4. ASSUME NEW b \in Browsers PROVE BInv(b)'
  <2>1. BInv(b) /\ UNCHANGED <<lines, outbox, subs, chan, pc, snap, backlog, page, raced, lossy, gapped>>
      BY DEF Mutate, history
  <2>2. Recorded' = Recorded /\ LowVer(b)' = LowVer(b) /\ BaseLines(b)' = BaseLines(b)
        /\ Served(b)' = Served(b)
      BY <2>1 DEF Recorded, LowVer, BaseLines, Served
  <2>3. Owns(b)'
      BY <2>1, <2>2 DEF Owns, BInv
  <2>4. page[b].ver \in Nat /\ snap[b] \in Nat /\ LowVer(b) \in Nat /\ chan[b] \in Seq(Event)
      BY ConnectionTypes, Bounds
  <2>5. Behind(b)'
      BY <1>1, <2>1, <2>2, <2>4 DEF Behind, BInv
  <2>6. JobsFollow(chan[b], LowVer(b), ver')
      BY <1>1, <2>1, <2>4, JobsWiden DEF BInv
  <2>7. LinesFollow(chan[b], BaseLines(b), Recorded) /\ LinesAreDue(b)
      BY <2>1 DEF BInv
  <2>8. LinesAreDue(b)'
      BY <2>1, <2>2, <2>7 DEF LinesAreDue, HasLine
  <2>9. EndIsDue(b)'
      BY <1>1 DEF EndIsDue
  <2> QED
      BY <2>1, <2>2, <2>3, <2>5, <2>6, <2>7, <2>8, <2>9 DEF BInv
<1> QED
    BY <1>2, <1>3, <1>4

\* Recording makes a line longer, or one more, and is about to say so.
LEMMA RecordingStep ==
    ASSUME IInv, Types', NEW k \in 1..MaxLines, outbox = <<>>,
           k \in 1..Len(lines'), outbox' = <<k, lines'[k]>>, Len(lines) <= Len(lines'),
           \A i \in 1..Len(lines) : lines[i] <= lines'[i],
           \A i \in 1..Len(lines') : i # k => i \in 1..Len(lines) /\ lines'[i] = lines[i],
           UNCHANGED <<ver, pending, subs, chan, pc, snap, backlog, page, raced, lossy, gapped>>
    PROVE  IInv'
<1> USE DEF IInv
<1>1. /\ Len(lines) \in Nat /\ Len(lines') \in Nat /\ Recorded \in Text /\ Recorded' \in Text
      /\ \A i \in 1..MaxLines : Recorded[i] = IF i <= Len(lines) THEN lines[i] ELSE 0
      /\ \A i \in 1..MaxLines : Recorded'[i] = IF i <= Len(lines') THEN lines'[i] ELSE 0
    BY RecordedFacts, RecordedNext
<1>2. \A i \in 1..MaxLines : Recorded[i] \in Nat /\ Recorded'[i] \in Nat
    BY <1>1, Bounds
<1>3. \A i \in 1..MaxLines : Recorded[i] <= Recorded'[i]
    BY <1>1, <1>2
<1>4. OutboxIsCurrent'
    BY DEF OutboxIsCurrent
<1>5. ASSUME NEW b \in Browsers PROVE BInv(b)'
  <2>1. LowVer(b)' = LowVer(b) /\ BaseLines(b)' = BaseLines(b) /\ Served(b)' = Served(b) /\ BInv(b)
      BY DEF LowVer, BaseLines, Served
  <2>2. /\ chan[b] \in Seq(Event) /\ BaseLines(b) \in Text
        /\ \A i \in 1..MaxLines : /\ page[b].lines[i] \in Nat /\ backlog[b][i] \in Nat
                                  /\ BaseLines(b)[i] \in Nat
      BY ConnectionTypes, Bounds
  <2>3. Owns(b)' /\ EndIsDue(b)'
      BY <2>1 DEF Owns, EndIsDue, HasEnd, BInv
  <2>4. Behind(b)'
      BY SMTT(30), <1>2, <1>3, <2>1, <2>2 DEF Behind, BInv
  <2>5. JobsFollow(chan[b], LowVer(b), ver)
      BY <2>1 DEF BInv
  <2>6. LinesFollow(chan[b], BaseLines(b), Recorded')
    <3>1. LinesFollow(chan[b], BaseLines(b), Recorded)
        BY <2>1 DEF BInv
    <3>2. \A i \in 1..MaxLines : BaseLines(b)[i] <= BaseLines(b)[i] /\ Recorded[i] <= Recorded'[i]
        BY <1>3, <2>2
    <3> QED
        BY <1>1, <2>2, <3>1, <3>2, LinesWiden
  <2>7. LinesAreDue(b)'
    <3> SUFFICES ASSUME Served(b)', ~page[b].over, b \notin gapped \cup lossy, NEW i \in 1..Len(lines')
                 PROVE  \/ outbox' = <<i, lines'[i]>>
                        \/ HasLine(chan[b], i, lines'[i])
                        \/ BaseLines(b)[i] = lines'[i]
        BY <2>1 DEF LinesAreDue, HasLine
    <3>1. CASE i = k
        BY <3>1
    <3>2. CASE i # k
        BY <2>1, <3>2 DEF LinesAreDue, BInv
    <3> QED
        BY <3>1, <3>2
  <2> QED
      BY <2>1, <2>3, <2>4, <2>5, <2>6, <2>7 DEF BInv
<1> QED
    BY <1>4, <1>5

\* Note(), or the first chunk of a line.
LEMMA NewLineStep == IInv /\ NewLine => IInv'
<1> SUFFICES ASSUME IInv, NewLine PROVE IInv'
    OBVIOUS
<1> DEFINE k == Len(lines) + 1
<1>1. /\ lines \in Seq(1..MaxLen) /\ Len(lines) < MaxLines /\ Len(lines) \in Nat
      /\ outbox = <<>> /\ lines' = Append(lines, 1) /\ outbox' = <<k, 1>>
    BY DEF NewLine, Recording, IInv, Types
<1>2. 1 \in 1..MaxLen /\ k \in 1..MaxLines
    BY <1>1, Bounds
<1>3. /\ lines' \in Seq(1..MaxLen) /\ Len(lines') = k /\ lines'[k] = 1
      /\ \A i \in 1..Len(lines) : lines'[i] = lines[i]
    BY <1>1, <1>2
<1>4. Len(lines') <= MaxLines /\ outbox' \in {<<>>} \cup (1..MaxLines) \X (1..MaxLen)
    BY <1>1, <1>2, <1>3
<1>5. Types'
    BY <1>3, <1>4 DEF NewLine, IInv, Types, history
<1>6. \A i \in 1..Len(lines) : lines[i] <= lines'[i]
    BY <1>1, <1>3, Bounds
<1>7. \A i \in 1..Len(lines') : i # k => i \in 1..Len(lines)
    BY <1>1, <1>3
<1>8. UNCHANGED <<ver, pending, subs, chan, pc, snap, backlog, page, raced, lossy, gapped>>
    BY DEF NewLine, history
<1>9. k \in 1..Len(lines') /\ Len(lines) <= Len(lines')
    BY <1>1, <1>3
<1> HIDE DEF k
<1> QED
    BY <1>1, <1>2, <1>3, <1>5, <1>6, <1>7, <1>8, <1>9, RecordingStep

\* A further chunk.
LEMMA ExtendStep == IInv /\ Extend => IInv'
<1> SUFFICES ASSUME IInv, Extend PROVE IInv'
    OBVIOUS
<1> DEFINE k == Len(lines)
           n == lines[k] + 1
<1>1. /\ lines \in Seq(1..MaxLen) /\ Len(lines) <= MaxLines /\ Len(lines) \in Nat /\ lines # <<>>
      /\ outbox = <<>> /\ lines[k] < MaxLen
    BY DEF Extend, Recording, IInv, Types
<1>2. lines' = [lines EXCEPT ![k] = n] /\ outbox' = <<k, n>>
    BY DEF Extend
<1>3. k \in 1..Len(lines) /\ k \in 1..MaxLines /\ lines[k] \in 1..MaxLen
  <2>1. Len(lines) # 0
      BY <1>1
  <2>2. k \in 1..Len(lines) /\ k \in 1..MaxLines
      BY <1>1, <2>1, Bounds
  <2> QED
      BY <2>2, RecordedFacts DEF IInv
<1>4. n \in 1..MaxLen /\ n \in Nat
    BY <1>1, <1>3, Bounds
<1> HIDE DEF n
<1>5. /\ lines' \in Seq(1..MaxLen) /\ Len(lines') = k /\ lines'[k] = n
      /\ \A i \in 1..Len(lines) : i # k => lines'[i] = lines[i]
    BY <1>1, <1>2, <1>3, <1>4
<1>6. Types'
  <2>1. outbox' \in {<<>>} \cup (1..MaxLines) \X (1..MaxLen) /\ Len(lines') <= MaxLines
      BY <1>1, <1>2, <1>3, <1>4, <1>5
  <2> QED
      BY <1>5, <2>1 DEF Extend, IInv, Types, history
<1>7. \A i \in 1..Len(lines) : lines[i] \in Nat
    BY <1>1, Bounds
<1>8. \A i \in 1..Len(lines) : lines[i] <= lines'[i]
    BY <1>3, <1>5, <1>7, Bounds DEF n
<1>9. UNCHANGED <<ver, pending, subs, chan, pc, snap, backlog, page, raced, lossy, gapped>>
    BY DEF Extend, history
<1> HIDE DEF k
<1> QED
    BY <1>1, <1>2, <1>3, <1>5, <1>6, <1>8, <1>9, RecordingStep DEF k

\* publish() sends the current version to every channel that has room.
LEMMA PublishStep == IInv /\ Publish => IInv'
<1> SUFFICES ASSUME IInv, Publish PROVE IInv'
    OBVIOUS
<1> USE DEF IInv
<1> DEFINE e == [type |-> "job", ver |-> ver, done |-> ver = Last]
<1>1. e \in Event /\ ver \in Version /\ ver \in Nat
    BY EventFacts, Bounds DEF Types
<1>2. e.type = "job" /\ e.ver = ver /\ (ver = Last => e.done)
    OBVIOUS
<1>3. Fanout(e) /\ UNCHANGED <<ver, outcome, lines, outbox, subs, pc, snap, backlog, page, drops, raced, gapped>>
      /\ pending' = FALSE
    BY DEF Publish
<1> HIDE DEF e
<1>4. /\ chan' \in [Browsers -> Seq(Event)] /\ lossy' \subseteq Browsers
      /\ \A b \in Browsers :
           /\ b \in lossy => b \in lossy'
           /\ \/ b \in subs /\ Len(chan[b]) < BufCap /\ chan'[b] = Append(chan[b], e)
              \/ chan'[b] = chan[b] /\ (b \in subs => b \in lossy')
    BY <1>1, <1>3, FanoutFacts
<1>5. Types' /\ OutboxIsCurrent'
    BY <1>3, <1>4 DEF Types, OutboxIsCurrent
<1>6. ASSUME NEW b \in Browsers PROVE BInv(b)'
  <2>1. /\ BInv(b) /\ chan[b] \in Seq(Event) /\ LowVer(b) \in Nat /\ BaseLines(b) \in Text
        /\ Recorded \in Text /\ snap[b] \in Nat /\ page[b].ver \in Nat
      BY ConnectionTypes, RecordedFacts, Bounds
  <2>2. Recorded' = Recorded /\ LowVer(b)' = LowVer(b) /\ BaseLines(b)' = BaseLines(b)
        /\ Served(b)' = Served(b)
      BY <1>3 DEF Recorded, LowVer, BaseLines, Served
  <2>3. Behind(b)'
      BY <1>3, <2>1, <2>2 DEF Behind, BInv
  <2>4. LowVer(b) <= ver /\ \A k \in 1..MaxLines : BaseLines(b)[k] <= Recorded[k]
      BY <2>1 DEF LowVer, BaseLines, Behind, BInv
  <2>5. CASE chan'[b] = chan[b] /\ (b \in subs => b \in lossy')
    <3>1. Owns(b)' /\ EndIsDue(b)' /\ LinesAreDue(b)'
        BY <1>3, <1>4, <2>1, <2>2, <2>5 DEF Owns, EndIsDue, LinesAreDue, BInv
    <3> QED
        BY <1>3, <2>1, <2>2, <2>3, <2>5, <3>1 DEF BInv
  <2>6. CASE b \in subs /\ Len(chan[b]) < BufCap /\ chan'[b] = Append(chan[b], e)
    <3>1. JobsFollow(chan'[b], LowVer(b), ver)
        BY <1>1, <1>2, <2>1, <2>4, <2>6, JobsAppend DEF BInv
    <3>2. LinesFollow(chan'[b], BaseLines(b), Recorded)
        BY <1>1, <1>2, <2>1, <2>4, <2>6, LinesAppend DEF BInv
    <3>3. Owns(b)'
      <4>1. Len(chan'[b]) <= BufCap
          BY <1>1, <2>1, <2>6, AppendFacts, Bounds
      <4> QED
          BY <1>3, <2>1, <2>2, <2>6, <4>1 DEF Owns, BInv
    <3>4. EndIsDue(b)'
      <4>1. ver = Last => HasEnd(chan'[b])
          BY <1>1, <1>2, <2>1, <2>6, HasAppend
      <4> QED
          BY <1>3, <4>1 DEF EndIsDue
    <3>5. LinesAreDue(b)'
      <4>1. \A k, n : HasLine(chan[b], k, n) => HasLine(chan'[b], k, n)
          BY <1>1, <2>1, <2>6, HasAppend
      <4> QED
          BY <1>3, <1>4, <2>1, <2>2, <4>1 DEF LinesAreDue, BInv
    <3> QED
        BY <1>3, <2>2, <2>3, <3>1, <3>2, <3>3, <3>4, <3>5 DEF BInv
  <2> QED
      BY <1>4, <2>5, <2>6
<1> QED
    BY <1>5, <1>6

\* emit() sends the recorded line to every channel that has room.
LEMMA EmitStep == IInv /\ Emit => IInv'
<1> SUFFICES ASSUME IInv, Emit PROVE IInv'
    OBVIOUS
<1> USE DEF IInv
<1>1. PICK k \in 1..MaxLines, n \in 1..MaxLen : outbox = <<k, n>>
    BY DEF Emit, Types
<1> DEFINE e == [type |-> "trace", seq |-> k, len |-> n]
<1>2. e \in Event /\ e.type = "trace" /\ e.seq = k /\ e.len = n
    BY EventFacts
<1>3. Fanout(e) /\ UNCHANGED <<ver, outcome, pending, lines, subs, pc, snap, backlog, page, drops, raced, gapped>>
      /\ outbox' = <<>>
    BY <1>1 DEF Emit
<1> HIDE DEF e
<1>4. /\ chan' \in [Browsers -> Seq(Event)] /\ lossy' \subseteq Browsers
      /\ \A b \in Browsers :
           /\ b \in lossy => b \in lossy'
           /\ \/ b \in subs /\ Len(chan[b]) < BufCap /\ chan'[b] = Append(chan[b], e)
              \/ chan'[b] = chan[b] /\ (b \in subs => b \in lossy')
    BY <1>2, <1>3, FanoutFacts
<1>5. Types' /\ OutboxIsCurrent'
    BY <1>3, <1>4 DEF Types, OutboxIsCurrent
<1>6. lines[k] = n /\ Recorded[k] = n /\ Recorded \in Text /\ ver \in Nat
    BY <1>1, RecordedFacts, Bounds DEF OutboxIsCurrent, Types
<1>7. ASSUME NEW b \in Browsers PROVE BInv(b)'
  <2>1. /\ BInv(b) /\ chan[b] \in Seq(Event) /\ LowVer(b) \in Nat /\ BaseLines(b) \in Text
        /\ snap[b] \in Nat /\ page[b].ver \in Nat
      BY ConnectionTypes, Bounds
  <2>2. Recorded' = Recorded /\ LowVer(b)' = LowVer(b) /\ BaseLines(b)' = BaseLines(b)
        /\ Served(b)' = Served(b)
      BY <1>3 DEF Recorded, LowVer, BaseLines, Served
  <2>3. Behind(b)'
      BY <1>3, <2>1, <2>2 DEF Behind, BInv
  <2>4. LowVer(b) <= ver /\ \A i \in 1..MaxLines : BaseLines(b)[i] <= Recorded[i]
      BY <2>1 DEF LowVer, BaseLines, Behind, BInv
  <2>5. CASE chan'[b] = chan[b] /\ (b \in subs => b \in lossy')
    <3>1. Owns(b)' /\ LinesAreDue(b)'
        BY <1>3, <1>4, <2>1, <2>2, <2>5 DEF Owns, LinesAreDue, BInv
    <3>2. EndIsDue(b)'
        BY <1>3, <1>4, <2>1, <2>2, <2>5 DEF Owns, EndIsDue, BInv
    <3> QED
        BY <1>3, <2>1, <2>2, <2>3, <2>5, <3>1, <3>2 DEF BInv
  <2>6. CASE b \in subs /\ Len(chan[b]) < BufCap /\ chan'[b] = Append(chan[b], e)
    <3>1. JobsFollow(chan'[b], LowVer(b), ver)
        BY <1>2, <1>6, <2>1, <2>4, <2>6, JobsAppend DEF BInv
    <3>2. LinesFollow(chan'[b], BaseLines(b), Recorded)
        BY <1>2, <1>6, <2>1, <2>4, <2>6, LinesAppend DEF BInv
    <3>3. Owns(b)'
      <4>1. Len(chan'[b]) <= BufCap
          BY <1>2, <2>1, <2>6, AppendFacts, Bounds
      <4> QED
          BY <1>3, <2>1, <2>2, <2>6, <4>1 DEF Owns, BInv
    <3>4. EndIsDue(b)'
      <4>1. HasEnd(chan[b]) => HasEnd(chan'[b])
          BY <1>2, <2>1, <2>6, HasAppend
      <4> QED
          BY <1>3, <1>4, <2>1, <2>2, <4>1 DEF EndIsDue, BInv
    <3>5. LinesAreDue(b)'
      <4>1. HasLine(chan'[b], k, n) /\ \A i, m : HasLine(chan[b], i, m) => HasLine(chan'[b], i, m)
          BY <1>2, <2>1, <2>6, HasAppend
      <4>2. \A i, m : outbox = <<i, m>> => i = k /\ m = n
          BY <1>1
      <4> QED
          BY <1>3, <1>4, <2>1, <2>2, <4>1, <4>2 DEF LinesAreDue, BInv
    <3> QED
        BY <1>3, <2>2, <2>3, <3>1, <3>2, <3>3, <3>4, <3>5 DEF BInv
  <2> QED
      BY <1>4, <2>5, <2>6
<1> QED
    BY <1>5, <1>7

\* The other connections are not affected by what one of them does.
LEMMA OneByOne ==
    ASSUME IInv, NEW b \in Browsers, Types', UNCHANGED producer, BInv(b)',
           \A c \in Browsers : c # b =>
             /\ c \in subs' <=> c \in subs
             /\ chan'[c] = chan[c] /\ pc'[c] = pc[c] /\ snap'[c] = snap[c]
             /\ backlog'[c] = backlog[c] /\ page'[c] = page[c]
             /\ (c \in raced' <=> c \in raced) /\ (c \in lossy' <=> c \in lossy)
             /\ (c \in gapped' <=> c \in gapped)
    PROVE  IInv'
<1>1. OutboxIsCurrent'
    BY DEF OutboxIsCurrent, IInv, producer
<1>2. \A c \in Browsers : c # b => BInv(c)'
    BY Untouched DEF IInv
<1> QED
    BY <1>1, <1>2 DEF IInv

\* What a step of one handler leaves as it is.
LEMMA PlaceTypes ==
    ASSUME Types, NEW b \in Browsers,
           NEW place \in {"off", "snapped", "read", "registered", "replaying", "streaming"}, Goto(b, place)
    PROVE  /\ pc' \in [Browsers -> {"off", "snapped", "read", "registered", "replaying", "streaming"}]
           /\ pc'[b] = place /\ \A c \in Browsers : c # b => pc'[c] = pc[c]
BY DEF Goto, Types

\* The snapshot of a new connection is no older than the page.
LEMMA ConnectStep == ASSUME IInv, NEW b \in Browsers, Connect(b) PROVE IInv'
<1> USE DEF IInv
<1>1. /\ pc[b] = "off" /\ snap' = [snap EXCEPT ![b] = ver] /\ Goto(b, "snapped")
      /\ UNCHANGED <<producer, subs, chan, backlog, page, drops, history>>
    BY DEF Connect
<1>2. /\ pc' \in [Browsers -> {"off", "snapped", "read", "registered", "replaying", "streaming"}]
      /\ pc'[b] = "snapped" /\ \A c \in Browsers : c # b => pc'[c] = pc[c]
    BY <1>1, PlaceTypes
<1>3. ver \in Version /\ ver \in Nat /\ snap' \in [Browsers -> Version] /\ snap'[b] = ver
    BY <1>1, Bounds DEF Types
<1>4. Types'
    BY <1>1, <1>2, <1>3 DEF Types, producer, history
<1>5. BInv(b) /\ chan[b] = <<>> /\ b \notin subs
    BY <1>1 DEF BInv, Owns, Served
<1>6. BInv(b)'
  <2>1. Owns(b)' /\ EndIsDue(b)' /\ LinesAreDue(b)'
      BY <1>1, <1>2, <1>5 DEF Owns, EndIsDue, LinesAreDue, Served, BInv
  <2>2. Recorded' = Recorded /\ ver' = ver
      BY <1>1 DEF Recorded, producer
  <2>3. Behind(b)'
      BY <1>1, <1>2, <1>3, <1>5, <2>2 DEF Behind, BInv
  <2>4. JobsFollow(chan[b], LowVer(b), ver)' /\ LinesFollow(chan[b], BaseLines(b), Recorded)'
      BY <1>1, <1>5 DEF JobsFollow, LinesFollow
  <2> QED
      BY <2>1, <2>3, <2>4 DEF BInv
<1>7. \A c \in Browsers : c # b => snap'[c] = snap[c]
    BY <1>1 DEF Types
<1> QED
    BY <1>1, <1>2, <1>4, <1>6, <1>7, OneByOne DEF history

\* The backlog is what is recorded.
LEMMA ReadBacklogStep == ASSUME IInv, NEW b \in Browsers, ReadBacklog(b) PROVE IInv'
<1> USE DEF IInv
<1>1. /\ pc[b] = "snapped" /\ backlog' = [backlog EXCEPT ![b] = Recorded] /\ Goto(b, "read")
      /\ UNCHANGED <<producer, subs, chan, snap, page, drops, history>>
    BY DEF ReadBacklog
<1>2. /\ pc' \in [Browsers -> {"off", "snapped", "read", "registered", "replaying", "streaming"}]
      /\ pc'[b] = "read" /\ \A c \in Browsers : c # b => pc'[c] = pc[c]
    BY <1>1, PlaceTypes
<1>3. Recorded \in Text /\ backlog' \in [Browsers -> Text] /\ backlog'[b] = Recorded
    BY <1>1, RecordedFacts DEF Types
<1>4. Types'
    BY <1>1, <1>2, <1>3 DEF Types, producer, history
<1>5. BInv(b) /\ chan[b] = <<>> /\ b \notin subs
    BY <1>1 DEF BInv, Owns, Served
<1>6. BInv(b)'
  <2>1. Owns(b)' /\ EndIsDue(b)' /\ LinesAreDue(b)'
      BY <1>1, <1>2, <1>5 DEF Owns, EndIsDue, LinesAreDue, Served, BInv
  <2>2. Recorded' = Recorded /\ ver' = ver
      BY <1>1 DEF Recorded, producer
  <2>3. \A k \in 1..MaxLines : Recorded[k] <= Recorded[k]
      BY <1>3, Bounds
  <2>4. Behind(b)'
      BY <1>1, <1>2, <1>3, <1>5, <2>2, <2>3 DEF Behind, BInv
  <2>5. JobsFollow(chan[b], LowVer(b), ver)' /\ LinesFollow(chan[b], BaseLines(b), Recorded)'
      BY <1>1, <1>5 DEF JobsFollow, LinesFollow
  <2> QED
      BY <2>1, <2>4, <2>5 DEF BInv
<1>7. \A c \in Browsers : c # b => backlog'[c] = backlog[c]
    BY <1>1 DEF Types
<1> QED
    BY <1>1, <1>2, <1>4, <1>6, <1>7, OneByOne DEF history

\* A channel is registered empty; what it has missed is noted.
LEMMA RegisterStep == ASSUME IInv, NEW b \in Browsers, Register(b) PROVE IInv'
<1> USE DEF IInv
<1>1. /\ pc[b] = "read" /\ subs' = subs \cup {b} /\ chan' = [chan EXCEPT ![b] = <<>>]
      /\ Goto(b, "registered") /\ lossy' = lossy \ {b}
      /\ UNCHANGED <<producer, snap, backlog, page, drops>>
    BY DEF Register
<1>2. raced' = IF snap[b] < Last /\ ver = Last /\ ~pending THEN raced \cup {b} ELSE raced \ {b}
    BY DEF Register
<1>3. gapped' = IF \E k \in 1..Len(lines) : backlog[b][k] < lines[k] /\ outbox # <<k, lines[k]>>
                THEN gapped \cup {b} ELSE gapped \ {b}
    BY DEF Register
<1>4. /\ pc' \in [Browsers -> {"off", "snapped", "read", "registered", "replaying", "streaming"}]
      /\ pc'[b] = "registered" /\ \A c \in Browsers : c # b => pc'[c] = pc[c]
    BY <1>1, PlaceTypes
<1>5. chan' \in [Browsers -> Seq(Event)] /\ chan'[b] = <<>>
    BY <1>1 DEF Types
<1>6. raced' \subseteq Browsers /\ gapped' \subseteq Browsers /\ lossy' \subseteq Browsers
    BY <1>1, <1>2, <1>3 DEF Types
<1>7. Types'
    BY <1>1, <1>4, <1>5, <1>6 DEF Types, producer
<1>8. /\ BInv(b) /\ snap[b] \in Nat /\ snap[b] <= Last /\ backlog[b] \in Text
      /\ \A k \in 1..MaxLines : backlog[b][k] \in Nat /\ Recorded[k] \in Nat
    BY ConnectionTypes, RecordedFacts, Bounds
<1>9. BInv(b)'
  <2>1. Owns(b)'
      BY <1>1, <1>4, <1>5, Bounds DEF Owns, Served
  <2>2. Recorded' = Recorded /\ ver' = ver
      BY <1>1 DEF Recorded, producer
  <2>3. Behind(b)'
      BY <1>1, <1>4, <1>8, <2>2 DEF Behind, BInv
  <2>4. JobsFollow(chan[b], LowVer(b), ver)' /\ LinesFollow(chan[b], BaseLines(b), Recorded)'
      BY <1>5 DEF JobsFollow, LinesFollow
  <2>5. EndIsDue(b)'
    <3>1. b \notin raced' /\ ver = Last /\ ~pending => snap[b] = Last
        BY <1>2, <1>8, Bounds
    <3> QED
        BY <1>1, <3>1 DEF EndIsDue, producer
  <2>6. LinesAreDue(b)'
    <3>1. ASSUME b \notin gapped', NEW k \in 1..Len(lines)
          PROVE  outbox = <<k, lines[k]>> \/ backlog[b][k] = lines[k]
      <4>1. ~(backlog[b][k] < lines[k] /\ outbox # <<k, lines[k]>>)
          BY <1>3, <3>1
      <4>2. k \in 1..MaxLines /\ Recorded[k] = lines[k]
          BY RecordedFacts
      <4>3. backlog[b][k] <= lines[k] /\ backlog[b][k] \in Nat /\ lines[k] \in Nat
          BY <1>8, <4>2 DEF Behind, BInv
      <4> QED
          BY <4>1, <4>3
    <3>2. BaseLines(b)' = backlog[b]
        BY <1>1, <1>4 DEF BaseLines
    <3> QED
        BY <1>1, <3>1, <3>2 DEF LinesAreDue, producer
  <2> QED
      BY <2>1, <2>3, <2>4, <2>5, <2>6 DEF BInv
<1>10. \A c \in Browsers : c # b =>
         /\ (c \in subs' <=> c \in subs) /\ chan'[c] = chan[c]
         /\ (c \in raced' <=> c \in raced) /\ (c \in lossy' <=> c \in lossy)
         /\ (c \in gapped' <=> c \in gapped)
    BY <1>1, <1>2, <1>3 DEF Types
<1> QED
    BY <1>1, <1>4, <1>7, <1>9, <1>10, OneByOne

\* A handler that returns unregisters its channel, and touches no other.
LEMMA ReturnTypes ==
    ASSUME Types, NEW b \in Browsers, Return(b)
    PROVE  /\ subs' \subseteq Browsers /\ chan' \in [Browsers -> Seq(Event)]
           /\ pc' \in [Browsers -> {"off", "snapped", "read", "registered", "replaying", "streaming"}]
           /\ \A c \in Browsers : c # b =>
                (c \in subs' <=> c \in subs) /\ chan'[c] = chan[c] /\ pc'[c] = pc[c]
<1>1. <<>> \in Seq(Event)
    OBVIOUS
<1>2. subs' \subseteq Browsers /\ chan' \in [Browsers -> Seq(Event)]
    BY <1>1 DEF Return, Types
<1>3. /\ pc' \in [Browsers -> {"off", "snapped", "read", "registered", "replaying", "streaming"}]
      /\ \A c \in Browsers : c # b => pc'[c] = pc[c]
    BY DEF Return, Goto, Types
<1> QED
    BY <1>2, <1>3 DEF Return, Types

\* The snapshot replaces an older state of the page.
LEMMA SendSnapshotStep == ASSUME IInv, NEW b \in Browsers, SendSnapshot(b) PROVE IInv'
<1> USE DEF IInv
<1> DEFINE q == ApplyJob(page[b], snap[b], FALSE)
<1>1. /\ pc[b] = "registered" /\ page' = [page EXCEPT ![b] = q] /\ Goto(b, "replaying")
      /\ UNCHANGED <<producer, subs, chan, snap, backlog, drops, history>>
    BY DEF SendSnapshot
<1>2. /\ pc' \in [Browsers -> {"off", "snapped", "read", "registered", "replaying", "streaming"}]
      /\ pc'[b] = "replaying" /\ \A c \in Browsers : c # b => pc'[c] = pc[c]
    BY <1>1, PlaceTypes
<1>3. /\ BInv(b) /\ chan[b] \in Seq(Event) /\ backlog[b] \in Text
      /\ page[b] \in Page /\ page[b].ver \in Nat /\ snap[b] \in Version /\ snap[b] \in Nat
    BY ConnectionTypes, Bounds
<1>4. /\ q \in Page /\ q.lines = page[b].lines /\ (q.ver = page[b].ver \/ q.ver = snap[b])
      /\ (~q.over => ~page[b].over)
    BY <1>3, ApplyJobFacts
<1> HIDE DEF q
<1>5. page' \in [Browsers -> Page] /\ page'[b] = q
    BY <1>1, <1>4 DEF Types
<1>6. Types'
    BY <1>1, <1>2, <1>5 DEF Types, producer, history
<1>7. BInv(b)'
  <2>1. /\ Recorded' = Recorded /\ ver' = ver /\ chan'[b] = chan[b]
        /\ LowVer(b) = snap[b] /\ LowVer(b)' = q.ver
        /\ BaseLines(b) = backlog[b] /\ BaseLines(b)' = backlog[b]
      BY <1>1, <1>2, <1>5 DEF Recorded, producer, LowVer, BaseLines
  <2>2. Owns(b)'
      BY <1>1, <1>2, <1>3 DEF Owns, Served, BInv
  <2>3. q.ver <= snap[b] /\ q.ver \in Nat /\ q.ver <= ver
      BY <1>1, <1>3, <1>4 DEF Behind, BInv
  <2>4. Behind(b)'
      BY <1>1, <1>2, <1>3, <1>4, <1>5, <2>1, <2>3 DEF Behind, BInv
  <2>5. JobsFollow(chan[b], q.ver, ver)
    <3>1. ver \in Nat /\ ver <= ver /\ JobsFollow(chan[b], snap[b], ver)
        BY <1>3, <2>1, Bounds DEF BInv, Types
    <3> QED
        BY <1>3, <2>3, <3>1, JobsWiden
  <2>6. LinesFollow(chan[b], backlog[b], Recorded)
      BY <1>3, <2>1 DEF BInv
  <2>7. EndIsDue(b)' /\ LinesAreDue(b)'
      BY <1>1, <1>2, <1>3, <1>4, <1>5, <2>1
         DEF EndIsDue, LinesAreDue, Served, BInv, producer, history
  <2> QED
      BY <2>1, <2>2, <2>4, <2>5, <2>6, <2>7 DEF BInv
<1>8. \A c \in Browsers : c # b => page'[c] = page[c]
    BY <1>1 DEF Types
<1> QED
    BY <1>1, <1>2, <1>6, <1>7, <1>8, OneByOne DEF history

\* The backlog replaces older lines; with a terminal snapshot that is all.
LEMMA SendBacklogStep == ASSUME IInv, NEW b \in Browsers, SendBacklog(b) PROVE IInv'
<1> USE DEF IInv
<1> DEFINE q == ApplyBacklog(page[b], backlog[b])
           r == ApplyJob(q, Last, TRUE)
<1>1. /\ pc[b] = "replaying" /\ UNCHANGED <<producer, snap, backlog, drops, history>>
      /\ \/ snap[b] = Last /\ page' = [page EXCEPT ![b] = r] /\ Return(b)
         \/ snap[b] # Last /\ page' = [page EXCEPT ![b] = q] /\ Goto(b, "streaming")
            /\ UNCHANGED <<subs, chan>>
    BY DEF SendBacklog
<1>2. /\ BInv(b) /\ chan[b] \in Seq(Event) /\ backlog[b] \in Text /\ Recorded \in Text
      /\ page[b] \in Page /\ page[b].ver \in Nat /\ page[b].lines \in Text
      /\ snap[b] \in Nat /\ snap[b] <= Last /\ ver \in Nat /\ ver <= Last
      /\ \A k \in 1..MaxLines :
           page[b].lines[k] \in Nat /\ backlog[b][k] \in Nat /\ Recorded[k] \in Nat
    BY ConnectionTypes, RecordedFacts, Bounds DEF Types
<1>3. /\ q \in Page /\ q.ver = page[b].ver /\ q.over = page[b].over /\ q.lines \in Text
      /\ \A k \in 1..MaxLines :
           q.lines[k] = IF page[b].over \/ backlog[b][k] = 0 THEN page[b].lines[k] ELSE backlog[b][k]
    BY <1>2, ApplyBacklogFacts DEF Page
<1> HIDE DEF q
<1>4. r \in Page /\ r.lines = q.lines /\ (r.ver = q.ver \/ r.ver = Last)
  <2>1. Last \in Version
      BY Bounds DEF Version
  <2> QED
      BY <1>3, <2>1, ApplyJobFacts
<1> HIDE DEF r
<1>5. /\ page[b].ver <= ver /\ snap[b] <= ver
      /\ \A k \in 1..MaxLines : /\ page[b].lines[k] <= Recorded[k] /\ backlog[b][k] <= Recorded[k]
                                /\ page[b].lines[k] <= backlog[b][k]
    BY <1>1, <1>2 DEF Behind, BInv
<1>6. \A k \in 1..MaxLines :
        /\ q.lines[k] <= backlog[b][k] /\ q.lines[k] <= Recorded[k] /\ q.lines[k] \in Nat
        /\ ~page[b].over => q.lines[k] = backlog[b][k]
    BY <1>2, <1>3, <1>5
<1>7. CASE snap[b] = Last
  <2>1. page' = [page EXCEPT ![b] = r] /\ Return(b)
      BY <1>1, <1>7
  <2>2. page' \in [Browsers -> Page] /\ page'[b] = r
      BY <1>4, <2>1 DEF Types
  <2>3. /\ subs' \subseteq Browsers /\ chan' \in [Browsers -> Seq(Event)]
        /\ pc' \in [Browsers -> {"off", "snapped", "read", "registered", "replaying", "streaming"}]
        /\ \A c \in Browsers : c # b =>
             (c \in subs' <=> c \in subs) /\ chan'[c] = chan[c] /\ pc'[c] = pc[c]
      BY <2>1, ReturnTypes
  <2>4. Types'
      BY <1>1, <2>2, <2>3 DEF Types, producer, history
  <2>5. r.ver <= ver
      BY <1>2, <1>3, <1>4, <1>5, <1>7
  <2>6. BInv(b)'
      BY <1>1, <1>2, <1>4, <1>6, <2>1, <2>2, <2>5, Returned
  <2>7. \A c \in Browsers : c # b => page'[c] = page[c]
      BY <2>1 DEF Types
  <2> QED
      BY <1>1, <2>3, <2>4, <2>6, <2>7, OneByOne DEF history
<1>8. CASE snap[b] # Last
  <2>1. page' = [page EXCEPT ![b] = q] /\ Goto(b, "streaming") /\ UNCHANGED <<subs, chan>>
      BY <1>1, <1>8
  <2>2. page' \in [Browsers -> Page] /\ page'[b] = q
      BY <1>3, <2>1 DEF Types
  <2>3. /\ pc' \in [Browsers -> {"off", "snapped", "read", "registered", "replaying", "streaming"}]
        /\ pc'[b] = "streaming" /\ \A c \in Browsers : c # b => pc'[c] = pc[c]
      BY <2>1, PlaceTypes
  <2>4. Types'
      BY <1>1, <2>1, <2>2, <2>3 DEF Types, producer, history
  <2>5. /\ Recorded' = Recorded /\ ver' = ver /\ chan'[b] = chan[b]
        /\ LowVer(b) = page[b].ver /\ LowVer(b)' = page[b].ver
        /\ BaseLines(b) = backlog[b] /\ BaseLines(b)' = q.lines
      BY <1>1, <1>3, <2>1, <2>2, <2>3 DEF Recorded, producer, LowVer, BaseLines
  <2>6. BInv(b)'
    <3>1. Owns(b)'
        BY <1>1, <1>2, <2>1, <2>3 DEF Owns, Served, BInv
    <3>2. snap[b] < Last
        BY <1>2, <1>8, Bounds
    <3>3. Behind(b)'
        BY <1>1, <1>3, <1>5, <1>6, <2>2, <2>3, <2>5, <3>2 DEF Behind
    <3>4. JobsFollow(chan[b], page[b].ver, ver)
        BY <1>2, <2>5 DEF BInv
    <3>5. LinesFollow(chan[b], q.lines, Recorded)
      <4>1. LinesFollow(chan[b], backlog[b], Recorded)
          BY <1>2, <2>5 DEF BInv
      <4>2. \A k \in 1..MaxLines : Recorded[k] <= Recorded[k]
          BY <1>2
      <4> QED
          BY ZenonT(40), <1>2, <1>3, <1>6, <4>1, <4>2, LinesWiden
    <3>6. EndIsDue(b)'
        BY <1>1, <1>2, <1>3, <2>2, <2>3, <2>5 DEF EndIsDue, Served, BInv, producer, history
    <3>7. LinesAreDue(b)'
      <4>1. \A k \in 1..Len(lines) : k \in 1..MaxLines
          BY RecordedFacts
      <4> QED
          BY <1>1, <1>2, <1>3, <1>6, <2>2, <2>3, <2>5, <4>1
             DEF LinesAreDue, Served, BInv, producer, history
    <3> QED
        BY <2>5, <3>1, <3>3, <3>4, <3>5, <3>6, <3>7 DEF BInv
  <2>7. \A c \in Browsers : c # b => page'[c] = page[c]
      BY <2>1 DEF Types
  <2> QED
      BY <1>1, <2>1, <2>3, <2>4, <2>6, <2>7, OneByOne DEF history
<1> QED
    BY <1>7, <1>8

\* A forwarded event replaces something older, and what it does not say is still due.
LEMMA ForwardStep == ASSUME IInv, NEW b \in Browsers, Forward(b) PROVE IInv'
<1> USE DEF IInv
<1> DEFINE ev == Head(chan[b])
<1>1. /\ pc[b] = "streaming" /\ chan[b] # <<>>
      /\ UNCHANGED <<producer, snap, backlog, drops, history>>
    BY DEF Forward
<1>2. /\ BInv(b) /\ chan[b] \in Seq(Event) /\ Recorded \in Text /\ page[b] \in Page
      /\ page[b].ver \in Nat /\ page[b].lines \in Text /\ snap[b] \in Nat /\ ver \in Nat
      /\ \A k \in 1..MaxLines : page[b].lines[k] \in Nat /\ Recorded[k] \in Nat
      /\ LowVer(b) = page[b].ver /\ BaseLines(b) = page[b].lines
    BY <1>1, ConnectionTypes, RecordedFacts, Bounds DEF Types, LowVer, BaseLines
<1>3. /\ ev \in Event /\ Tail(chan[b]) \in Seq(Event)
      /\ Len(chan[b]) \in Nat /\ Len(Tail(chan[b])) <= Len(chan[b])
    BY <1>1, <1>2, TailFacts
<1>4. /\ JobsFollow(Tail(chan[b]), page[b].ver, ver)
      /\ ev.type = "job" =>
           page[b].ver <= ev.ver /\ ev.ver <= ver /\ JobsFollow(Tail(chan[b]), ev.ver, ver)
    BY <1>1, <1>2, JobsTail DEF BInv
<1>5. /\ LinesFollow(Tail(chan[b]), page[b].lines, Recorded)
      /\ ev.type = "trace" =>
           /\ ev.seq \in 1..MaxLines /\ ev.len \in 1..MaxLen
           /\ page[b].lines[ev.seq] <= ev.len /\ ev.len <= Recorded[ev.seq]
           /\ LinesFollow(Tail(chan[b]), [page[b].lines EXCEPT ![ev.seq] = ev.len], Recorded)
    BY <1>1, <1>2, LinesTail DEF BInv
<1>6. /\ HasEnd(chan[b]) => HasEnd(Tail(chan[b])) \/ (ev.type = "job" /\ ev.done)
      /\ \A k, n : HasLine(chan[b], k, n) =>
           HasLine(Tail(chan[b]), k, n) \/ (ev.type = "trace" /\ ev.seq = k /\ ev.len = n)
    BY <1>1, <1>2, HasTail
<1>7. ev.type = "trace" \/ (ev.type = "job" /\ ev.ver \in Version /\ ev.done \in BOOLEAN)
    BY <1>3 DEF Event, JobEvent, TraceEvent, Version
<1>8. /\ page[b].ver <= ver /\ snap[b] <= ver /\ snap[b] < Last
      /\ \A k \in 1..MaxLines : page[b].lines[k] <= Recorded[k] /\ backlog[b][k] <= Recorded[k]
      /\ b \in subs /\ Len(chan[b]) <= BufCap
    BY <1>1, <1>2 DEF Behind, Owns, Served, BInv
<1>9. /\ ev.type = "trace" =>
           /\ page' = [page EXCEPT ![b] = ApplyLine(page[b], ev.seq, ev.len)]
           /\ chan' = [chan EXCEPT ![b] = Tail(chan[b])] /\ UNCHANGED <<subs, pc>>
      /\ ev.type = "job" => page' = [page EXCEPT ![b] = ApplyJob(page[b], ev.ver, ev.done)]
      /\ ev.type = "job" /\ ev.done => Return(b)
      /\ ev.type = "job" /\ ~ev.done =>
           chan' = [chan EXCEPT ![b] = Tail(chan[b])] /\ UNCHANGED <<subs, pc>>
    BY DEF Forward
<1> HIDE DEF ev
<1>10. Recorded' = Recorded /\ ver' = ver
    BY <1>1 DEF Recorded, producer
<1>11. CASE ev.type = "trace"
  <2> DEFINE q == ApplyLine(page[b], ev.seq, ev.len)
  <2>1. /\ q \in Page /\ q.ver = page[b].ver /\ q.over = page[b].over
        /\ page[b].over => q.lines = page[b].lines
        /\ ~page[b].over => q.lines = [page[b].lines EXCEPT ![ev.seq] = ev.len]
      BY <1>2, <1>5, <1>11, ApplyLineFacts
  <2> HIDE DEF q
  <2>2. /\ page' = [page EXCEPT ![b] = q]
        /\ chan' = [chan EXCEPT ![b] = Tail(chan[b])] /\ UNCHANGED <<subs, pc>>
      BY <1>9, <1>11 DEF q
  <2>3. page' \in [Browsers -> Page] /\ page'[b] = q
        /\ chan' \in [Browsers -> Seq(Event)] /\ chan'[b] = Tail(chan[b])
      BY <1>3, <2>1, <2>2 DEF Types
  <2>4. Types'
      BY <1>1, <2>2, <2>3 DEF Types, producer, history
  <2>5. \A k \in 1..MaxLines :
          q.lines[k] = IF k = ev.seq /\ ~page[b].over THEN ev.len ELSE page[b].lines[k]
      BY <1>2, <1>5, <1>11, <2>1 DEF Text
  <2>6. LowVer(b)' = page[b].ver /\ BaseLines(b)' = q.lines
      BY <1>1, <2>1, <2>2, <2>3 DEF LowVer, BaseLines
  <2>7. BInv(b)'
    <3>1. Owns(b)'
        BY <1>1, <1>3, <1>8, <2>2, <2>3, Bounds DEF Owns, Served
    <3>2. \A k \in 1..MaxLines : q.lines[k] <= Recorded[k]
        BY <1>5, <1>8, <1>11, <2>5
    <3>3. Behind(b)'
        BY <1>1, <1>8, <1>10, <2>1, <2>2, <2>3, <3>2 DEF Behind
    <3>4. LinesFollow(Tail(chan[b]), q.lines, Recorded)
        BY <1>5, <1>11, <2>1
    <3>5. EndIsDue(b)'
        BY <1>1, <1>2, <1>6, <1>11, <2>1, <2>2, <2>3 DEF EndIsDue, Served, BInv, producer, history
    <3>6. LinesAreDue(b)'
      <4> SUFFICES ASSUME ~page[b].over, b \notin gapped \cup lossy, NEW k \in 1..Len(lines)
                   PROVE  \/ outbox = <<k, lines[k]>>
                          \/ HasLine(Tail(chan[b]), k, lines[k])
                          \/ q.lines[k] = lines[k]
          BY <1>1, <2>1, <2>3, <2>6 DEF LinesAreDue, producer, history
      <4>1. k \in 1..MaxLines /\ Recorded[k] = lines[k]
          BY RecordedFacts
      <4>2. \/ outbox = <<k, lines[k]>>
            \/ HasLine(chan[b], k, lines[k])
            \/ page[b].lines[k] = lines[k]
          BY <1>1, <1>2 DEF LinesAreDue, Served, BInv
      <4>3. CASE HasLine(chan[b], k, lines[k])
          BY <1>6, <2>5, <4>1, <4>3
      <4>4. CASE page[b].lines[k] = lines[k]
        <5>1. k = ev.seq => ev.len = lines[k]
          <6>1. k = ev.seq => lines[k] <= ev.len /\ ev.len <= lines[k]
              BY <1>5, <1>11, <4>1, <4>4
          <6>2. ev.len \in Nat /\ lines[k] \in Nat
              BY <1>2, <1>5, <1>11, <4>1, Bounds
          <6> QED
              BY <6>1, <6>2
        <5> QED
            BY <2>5, <4>1, <4>4, <5>1
      <4> QED
          BY <4>2, <4>3, <4>4
    <3> QED
        BY <1>4, <1>10, <2>3, <2>6, <3>1, <3>3, <3>4, <3>5, <3>6 DEF BInv
  <2>8. \A c \in Browsers : c # b => page'[c] = page[c] /\ chan'[c] = chan[c]
      BY <2>2 DEF Types
  <2> QED
      BY <1>1, <2>2, <2>4, <2>7, <2>8, OneByOne DEF history
<1>12. CASE ev.type = "job"
  <2> DEFINE q == ApplyJob(page[b], ev.ver, ev.done)
  <2>1. /\ q \in Page /\ q.lines = page[b].lines /\ (q.ver = page[b].ver \/ q.ver = ev.ver)
        /\ ~q.over => ~page[b].over
      BY <1>2, <1>7, <1>12, ApplyJobFacts
  <2> HIDE DEF q
  <2>2. page' = [page EXCEPT ![b] = q]
      BY <1>9, <1>12 DEF q
  <2>3. page' \in [Browsers -> Page] /\ page'[b] = q
        /\ \A c \in Browsers : c # b => page'[c] = page[c]
      BY <2>1, <2>2 DEF Types
  <2>4. q.ver \in Nat /\ q.ver <= ver /\ \A k \in 1..MaxLines : q.lines[k] <= Recorded[k]
      BY <1>2, <1>4, <1>7, <1>8, <1>12, <2>1, Bounds
  <2>5. CASE ev.done
    <3>1. Return(b)
        BY <1>9, <1>12, <2>5
    <3>2. /\ subs' \subseteq Browsers /\ chan' \in [Browsers -> Seq(Event)]
          /\ pc' \in [Browsers -> {"off", "snapped", "read", "registered", "replaying", "streaming"}]
          /\ \A c \in Browsers : c # b =>
               (c \in subs' <=> c \in subs) /\ chan'[c] = chan[c] /\ pc'[c] = pc[c]
        BY <3>1, ReturnTypes
    <3>3. Types'
        BY <1>1, <2>3, <3>2 DEF Types, producer, history
    <3>4. BInv(b)'
        BY <1>1, <1>2, <2>1, <2>3, <2>4, <3>1, Returned
    <3> QED
        BY <1>1, <2>3, <3>2, <3>3, <3>4, OneByOne DEF history
  <2>6. CASE ~ev.done
    <3>1. chan' = [chan EXCEPT ![b] = Tail(chan[b])] /\ UNCHANGED <<subs, pc>>
        BY <1>9, <1>12, <2>6
    <3>2. /\ chan' \in [Browsers -> Seq(Event)] /\ chan'[b] = Tail(chan[b])
          /\ \A c \in Browsers : c # b => chan'[c] = chan[c]
        BY <1>3, <3>1 DEF Types
    <3>3. Types'
        BY <1>1, <2>3, <3>1, <3>2 DEF Types, producer, history
    <3>4. LowVer(b)' = q.ver /\ BaseLines(b)' = page[b].lines
        BY <1>1, <2>1, <2>3, <3>1 DEF LowVer, BaseLines
    <3>5. BInv(b)'
      <4>1. Owns(b)'
          BY <1>1, <1>3, <1>8, <3>1, <3>2, Bounds DEF Owns, Served
      <4>2. Behind(b)'
          BY <1>1, <1>8, <1>10, <2>3, <2>4, <3>1 DEF Behind
      <4>3. JobsFollow(Tail(chan[b]), q.ver, ver)
          BY <1>4, <1>12, <2>1
      <4>4. EndIsDue(b)'
          BY <1>1, <1>2, <1>6, <2>1, <2>3, <2>6, <3>1, <3>2
             DEF EndIsDue, Served, BInv, producer, history
      <4>5. LinesAreDue(b)'
        <5>1. \A k, n : HasLine(chan[b], k, n) => HasLine(Tail(chan[b]), k, n)
            BY <1>6, <1>12
        <5> QED
            BY <1>1, <1>2, <2>1, <2>3, <3>1, <3>2, <3>4, <5>1
               DEF LinesAreDue, Served, BInv, producer, history
      <4> QED
          BY <1>5, <1>10, <3>2, <3>4, <4>1, <4>2, <4>3, <4>4, <4>5 DEF BInv
    <3> QED
        BY <1>1, <2>3, <3>1, <3>2, <3>3, <3>5, OneByOne DEF history
  <2> QED
      BY <1>7, <1>12, <2>5, <2>6
<1> QED
    BY <1>7, <1>11, <1>12

\* A connection that is closed or breaks leaves the page as it is.
LEMMA HangupStep == ASSUME IInv, NEW b \in Browsers, Hangup(b) \/ Break(b) PROVE IInv'
<1> USE DEF IInv
<1>1. /\ Return(b) /\ UNCHANGED <<producer, snap, backlog, page, history>>
      /\ drops' \in 0..MaxDrops
  <2>1. CASE Hangup(b)
      BY <2>1 DEF Hangup, Types
  <2>2. CASE Break(b)
    <3>1. drops \in 0..MaxDrops /\ drops < MaxDrops /\ drops' = drops + 1
        BY <2>2 DEF Break, Types
    <3>2. drops' \in 0..MaxDrops
        BY <3>1, EventStreamAssumption
    <3> QED
        BY <2>2, <3>2 DEF Break
  <2> QED
      BY <2>1, <2>2
<1>2. /\ subs' \subseteq Browsers /\ chan' \in [Browsers -> Seq(Event)]
      /\ pc' \in [Browsers -> {"off", "snapped", "read", "registered", "replaying", "streaming"}]
      /\ \A c \in Browsers : c # b =>
           (c \in subs' <=> c \in subs) /\ chan'[c] = chan[c] /\ pc'[c] = pc[c]
    BY <1>1, ReturnTypes
<1>3. Types'
    BY <1>1, <1>2 DEF Types, producer, history
<1>4. page[b] \in Page /\ page[b].ver <= ver /\ \A k \in 1..MaxLines : page[b].lines[k] <= Recorded[k]
    BY ConnectionTypes DEF BInv, Behind
<1>5. BInv(b)'
    BY <1>1, <1>4, Returned
<1> QED
    BY <1>1, <1>2, <1>3, <1>5, OneByOne DEF history

\* Every step, and stuttering, preserves the invariant.
THEOREM IInvStep == IInv /\ [Next]_vars => IInv'
<1> SUFFICES ASSUME IInv, [Next]_vars PROVE IInv'
    OBVIOUS
<1>1. CASE Produce
    BY <1>1, MutateStep, PublishStep, NewLineStep, ExtendStep, EmitStep DEF Produce
<1>2. ASSUME NEW b \in Browsers, Subscribe(b) PROVE IInv'
    BY <1>2, ConnectStep, ReadBacklogStep, RegisterStep DEF Subscribe
<1>3. ASSUME NEW b \in Browsers, Handle(b) PROVE IInv'
    BY <1>3, SendSnapshotStep, SendBacklogStep, ForwardStep, HangupStep DEF Handle
<1>4. ASSUME NEW b \in Browsers, Break(b) PROVE IInv'
    BY <1>4, HangupStep
<1>5. CASE UNCHANGED vars
  <2>1. /\ UNCHANGED <<ver, outcome, pending, lines, outbox, subs, chan, pc, snap, backlog, page, drops>>
        /\ UNCHANGED <<raced, lossy, gapped>>
      BY <1>5 DEF vars, producer, history
  <2>2. Types' /\ OutboxIsCurrent'
      BY <2>1 DEF IInv, Types, OutboxIsCurrent
  <2>3. UNCHANGED producer
      BY <2>1 DEF producer
  <2>4. \A b \in Browsers : BInv(b)'
      BY <2>1, <2>3, Untouched DEF IInv
  <2> QED
      BY <2>2, <2>4 DEF IInv
<1> QED
    BY <1>1, <1>2, <1>3, <1>4, <1>5 DEF Next

\* The invariant holds in every state.
THEOREM Invariance == Spec => []IInv
<1> QED
    BY InitIInv, IInvStep, PTL DEF Spec

-----------------------------------------------------------------------------
(* What follows from it.                                                   *)

\* Every variable has its type.
THEOREM TypeCorrect == Spec => []TypeOK
<1>1. IInv => TypeOK
    BY DEF IInv, Types, TypeOK, Event, Version, Text, Page
<1> QED
    BY <1>1, Invariance, PTL

\* Subscribe() and the deferred cancel(): the store holds the channels of the connections
\* that are served and no other, within their capacity.
THEOREM NoChannelLeaks == Spec => []ChannelsAreOwned
<1>1. IInv => ChannelsAreOwned
    BY DEF IInv, BInv, Owns, Served, ChannelsAreOwned
<1> QED
    BY <1>1, Invariance, PTL

\* Subscribe() and publish(): a page that waits for the end of a job that is over will
\* hear of it, unless the two known races kept the terminal event from it.
THEOREM EndIsAnnounced == Spec => []TerminalEventIsDue
<1>1. ASSUME IInv, NEW b \in Browsers,
             pc[b] = "streaming", ver = Last, ~pending, ~page[b].over, b \notin raced \cup lossy
      PROVE  \E i \in 1..Len(chan[b]) : chan[b][i].type = "job" /\ chan[b][i].done
  <2>1. snap[b] < Last /\ snap[b] \in Nat
      BY <1>1, ConnectionTypes, Bounds DEF IInv, BInv, Behind
  <2>2. snap[b] # Last
      BY <2>1, Bounds
  <2> QED
      BY <1>1, <2>2 DEF IInv, BInv, EndIsDue, Served, HasEnd
<1>2. IInv => TerminalEventIsDue
    BY <1>1 DEF TerminalEventIsDue
<1> QED
    BY <1>2, Invariance, PTL

\* Texts that agree line by line are the same.
LEMMA SameText ==
    ASSUME NEW s \in Text, NEW t \in Text, \A k \in 1..MaxLines : s[k] = t[k]
    PROVE  s = t
<1>1. s = [k \in 1..MaxLines |-> s[k]] /\ t = [k \in 1..MaxLines |-> t[k]]
    BY DEF Text
<1>2. [k \in 1..MaxLines |-> s[k]] = [k \in 1..MaxLines |-> t[k]]
    OBVIOUS
<1> QED
    BY <1>1, <1>2

\* Subscribe() and publishTrace(): when nothing is under way, a page shows every line in
\* full, unless a line fell between backlog and channel or met a full channel.
THEOREM QuietPagesAreCurrent == Spec => []QuietPageIsCurrent
<1>1. ASSUME IInv, NEW b \in Browsers,
             pc[b] = "streaming", chan[b] = <<>>, outbox = <<>>, ~page[b].over,
             b \notin gapped \cup lossy
      PROVE  page[b].lines = Recorded
  <2>1. /\ Recorded \in Text /\ page[b].lines \in Text /\ Len(lines) \in Nat
        /\ \A k \in 1..MaxLines : Recorded[k] = IF k <= Len(lines) THEN lines[k] ELSE 0
      BY <1>1, RecordedFacts, ConnectionTypes DEF IInv
  <2>2. \A k, n : ~HasLine(chan[b], k, n)
      BY <1>1 DEF HasLine
  <2>3. \A k \in 1..Len(lines) : page[b].lines[k] = lines[k]
      BY <1>1, <2>2 DEF IInv, BInv, LinesAreDue, Served, BaseLines
  <2>4. \A k \in 1..MaxLines : page[b].lines[k] <= Recorded[k] /\ page[b].lines[k] \in Nat
      BY <1>1, <2>1, Bounds DEF IInv, BInv, Behind
  <2>5. \A k \in 1..MaxLines : page[b].lines[k] = Recorded[k]
      BY <2>1, <2>3, <2>4
  <2> QED
      BY <2>1, <2>5, SameText
<1>2. IInv => QuietPageIsCurrent
    BY <1>1 DEF QuietPageIsCurrent
<1> QED
    BY <1>2, Invariance, PTL

\* What a page shows after a step is no older, and its lines are no shorter.
Newer(b) ==
    /\ page'[b].ver >= page[b].ver
    /\ \A k \in 1..MaxLines : page'[b].lines[k] >= page[b].lines[k]

\* A page that is not touched shows what it showed.
LEMMA SamePage == ASSUME IInv, NEW b \in Browsers, page'[b] = page[b] PROVE Newer(b)
<1>1. page[b].ver \in Nat /\ \A k \in 1..MaxLines : page[b].lines[k] \in Nat
    BY ConnectionTypes, Bounds DEF IInv
<1> QED
    BY <1>1 DEF Newer

\* The snapshot of a connection is no older than the page.
LEMMA SnapshotIsNewer == ASSUME IInv, NEW b \in Browsers, SendSnapshot(b) PROVE Newer(b)
<1> DEFINE q == ApplyJob(page[b], snap[b], FALSE)
<1>1. /\ page[b] \in Page /\ page[b].ver \in Nat /\ snap[b] \in Version
      /\ \A k \in 1..MaxLines : page[b].lines[k] \in Nat
    BY ConnectionTypes, Bounds DEF IInv
<1>2. page[b].ver <= snap[b]
    BY DEF SendSnapshot, IInv, BInv, Behind
<1>3. q.lines = page[b].lines /\ (q.ver = page[b].ver \/ q.ver = snap[b])
    BY <1>1, ApplyJobFacts
<1>4. page'[b] = q
    BY DEF SendSnapshot, IInv, Types
<1> HIDE DEF q
<1> QED
    BY <1>1, <1>2, <1>3, <1>4, Bounds DEF Newer

\* Its backlog has at least what the page has of each line.
LEMMA BacklogIsNewer == ASSUME IInv, NEW b \in Browsers, SendBacklog(b) PROVE Newer(b)
<1> DEFINE q == ApplyBacklog(page[b], backlog[b])
<1>1. /\ page[b] \in Page /\ page[b].ver \in Nat /\ page[b].ver <= Last /\ backlog[b] \in Text
      /\ \A k \in 1..MaxLines : page[b].lines[k] \in Nat /\ backlog[b][k] \in Nat
    BY ConnectionTypes, Bounds DEF IInv
<1>2. \A k \in 1..MaxLines : page[b].lines[k] <= backlog[b][k]
    BY DEF SendBacklog, IInv, BInv, Behind
<1>3. /\ q \in Page /\ q.ver = page[b].ver
      /\ \A k \in 1..MaxLines :
           q.lines[k] = IF page[b].over \/ backlog[b][k] = 0 THEN page[b].lines[k] ELSE backlog[b][k]
    BY <1>1, ApplyBacklogFacts
<1>4. page'[b] = q \/ page'[b] = ApplyJob(q, Last, TRUE)
    BY DEF SendBacklog, IInv, Types
<1> HIDE DEF q
<1>5. page'[b].lines = q.lines /\ (page'[b].ver = q.ver \/ page'[b].ver = Last)
  <2>1. Last \in Version /\ TRUE \in BOOLEAN
      BY Bounds DEF Version
  <2>2. ApplyJob(q, Last, TRUE).lines = q.lines
        /\ (ApplyJob(q, Last, TRUE).ver = q.ver \/ ApplyJob(q, Last, TRUE).ver = Last)
      BY <1>3, <2>1, ApplyJobFacts
  <2> QED
      BY <1>4, <2>2
<1>6. \A k \in 1..MaxLines : q.lines[k] >= page[b].lines[k]
    BY <1>1, <1>2, <1>3
<1>7. page'[b].ver >= page[b].ver
    BY <1>1, <1>3, <1>5, Bounds
<1> QED
    BY <1>5, <1>6, <1>7 DEF Newer

\* And so have the events that follow.
LEMMA EventIsNewer == ASSUME IInv, NEW b \in Browsers, Forward(b) PROVE Newer(b)
<1> DEFINE ev == Head(chan[b])
<1>1. /\ chan[b] \in Seq(Event) /\ chan[b] # <<>> /\ page[b] \in Page /\ page[b].lines \in Text
      /\ page[b].ver \in Nat /\ \A k \in 1..MaxLines : page[b].lines[k] \in Nat
    BY ConnectionTypes, Bounds DEF IInv, Forward
<1>2. LowVer(b) = page[b].ver /\ BaseLines(b) = page[b].lines
    BY DEF Forward, LowVer, BaseLines
<1>3. ev.type = "job" => page[b].ver <= ev.ver
    BY <1>1, <1>2, JobsTail DEF IInv, BInv
<1>4. ev.type = "trace" =>
        ev.seq \in 1..MaxLines /\ ev.len \in 1..MaxLen /\ page[b].lines[ev.seq] <= ev.len
    BY <1>1, <1>2, LinesTail DEF IInv, BInv
<1>5. ev.type = "trace" \/ (ev.type = "job" /\ ev.ver \in Version /\ ev.done \in BOOLEAN)
    BY <1>1, TailFacts DEF Event, JobEvent, TraceEvent, Version
<1>6. /\ ev.type = "trace" => page'[b] = ApplyLine(page[b], ev.seq, ev.len)
      /\ ev.type = "job" => page'[b] = ApplyJob(page[b], ev.ver, ev.done)
    BY DEF Forward, IInv, Types
<1> HIDE DEF ev
<1>7. CASE ev.type = "trace"
  <2>1. /\ page'[b].ver = page[b].ver
        /\ \/ page'[b].lines = page[b].lines
           \/ page'[b].lines = [page[b].lines EXCEPT ![ev.seq] = ev.len]
      BY <1>1, <1>4, <1>6, <1>7, ApplyLineFacts
  <2>2. \A k \in 1..MaxLines : page'[b].lines[k] = page[b].lines[k] \/ (k = ev.seq /\ page'[b].lines[k] = ev.len)
      BY <1>1, <1>4, <1>7, <2>1 DEF Text
  <2>3. \A k \in 1..MaxLines : page'[b].lines[k] >= page[b].lines[k]
      BY <1>1, <1>4, <1>7, <2>2
  <2> QED
      BY <1>1, <2>1, <2>3 DEF Newer
<1>8. CASE ev.type = "job"
  <2>1. page'[b].lines = page[b].lines /\ (page'[b].ver = page[b].ver \/ page'[b].ver = ev.ver)
      BY <1>1, <1>5, <1>6, <1>8, ApplyJobFacts
  <2>2. page'[b].ver >= page[b].ver
      BY <1>1, <1>3, <1>5, <1>8, <2>1, Bounds
  <2> QED
      BY <1>1, <2>1, <2>2 DEF Newer
<1> QED
    BY <1>5, <1>7, <1>8

\* handleEvents() and sse.js: no older snapshot replaces a newer one on a page, and no line
\* gets shorter, across reconnections too.
THEOREM PagesOnlyGrow == Spec => PageNeverGoesBack
<1>1. ASSUME IInv, Next, NEW b \in Browsers PROVE Newer(b)
  <2>1. CASE Produce
      BY <1>1, <2>1, SamePage DEF Produce, Mutate, Publish, NewLine, Extend, Emit
  <2>2. ASSUME NEW c \in Browsers, Subscribe(c) \/ Hangup(c) \/ Break(c) PROVE Newer(b)
      BY <1>1, <2>2, SamePage DEF Subscribe, Connect, ReadBacklog, Register, Hangup, Break
  <2>3. ASSUME NEW c \in Browsers, SendSnapshot(c) \/ SendBacklog(c) \/ Forward(c) PROVE Newer(b)
    <3>1. CASE c = b
        BY <1>1, <2>3, <3>1, SnapshotIsNewer, BacklogIsNewer, EventIsNewer
    <3>2. CASE c # b
      <4>1. page'[b] = page[b]
          BY <1>1, <2>3, <3>2 DEF SendSnapshot, SendBacklog, Forward, IInv, Types
      <4> QED
          BY <1>1, <4>1, SamePage
    <3> QED
        BY <3>1, <3>2
  <2> QED
      BY <1>1, <2>1, <2>2, <2>3 DEF Next, Handle
<1>2. IInv /\ [Next]_vars =>
        [\A b \in Browsers :
           /\ page'[b].ver >= page[b].ver
           /\ \A k \in 1..MaxLines : page'[b].lines[k] >= page[b].lines[k]]_vars
    BY <1>1 DEF Newer
<1> QED
    BY <1>2, Invariance, PTL DEF Spec, PageNeverGoesBack
=============================================================================
