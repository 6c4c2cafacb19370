----------------------------- MODULE MmdApiProofs -----------------------------
(***************************************************************************)
(* The data calls of the MMD, for any calls at once, any requests and any  *)
(* size of the copy buffer: what a call that has ended has moved, what it  *)
(* has written to registers, and to whom it is reported.                   *)
(***************************************************************************)
EXTENDS MmdApi, SequenceTheorems, TLAPS

Places == {"new", "queued", "dma", "mmio", "copy", "copy_write", "refused",
           "returned"}
Verdicts == ({NULL} \cup Handlers) \X {0, -1}

-----------------------------------------------------------------------------
(***************************************************************************)
(* Pairs.                                                                  *)
(***************************************************************************)
LEMMA PairsType ==
  ASSUME NEW s \in Nat, NEW d \in Nat, NEW n \in Nat
  PROVE  Pairs(s, d, n) \subseteq Nat \X Nat
  BY DEF Pairs

LEMMA NoPairs ==
  ASSUME NEW s \in Nat, NEW d \in Nat
  PROVE  Pairs(s, d, 0) = {}
  BY DEF Pairs

\* The next n bytes behind m make m + n.
LEMMA PairsExtend ==
  ASSUME NEW s \in Nat, NEW d \in Nat, NEW m \in Nat, NEW n \in Nat
  PROVE  /\ Pairs(s, d, m) \subseteq Pairs(s, d, m + n)
         /\ Pairs(s + m, d + m, n) \subseteq Pairs(s, d, m + n)
         /\ \A x \in Pairs(s, d, m + n) :
              x \in Pairs(s, d, m) \/ x \in Pairs(s + m, d + m, n)
<1> DEFINE A == {<<s + k, d + k>> : k \in 0 .. m - 1}
           B == {<<(s + m) + k, (d + m) + k>> : k \in 0 .. n - 1}
           C == {<<s + k, d + k>> : k \in 0 .. (m + n) - 1}
<1>1. A \subseteq C
  <2>1. 0 .. m - 1 \subseteq 0 .. (m + n) - 1
    OBVIOUS
  <2> QED BY <2>1
<1>2. B \subseteq C
  <2> SUFFICES ASSUME NEW k \in 0 .. n - 1
               PROVE  <<(s + m) + k, (d + m) + k>> \in C
    OBVIOUS
  <2>1. /\ m + k \in 0 .. (m + n) - 1
        /\ (s + m) + k = s + (m + k) /\ (d + m) + k = d + (m + k)
    OBVIOUS
  <2> QED BY <2>1
<1>3. C \subseteq A \cup B
  <2> SUFFICES ASSUME NEW k \in 0 .. (m + n) - 1
               PROVE  <<s + k, d + k>> \in A \cup B
    OBVIOUS
  <2>1. CASE k < m
    <3>1. k \in 0 .. m - 1
      BY <2>1
    <3> QED BY <3>1
  <2>2. CASE ~(k < m)
    <3>1. /\ k - m \in 0 .. n - 1
          /\ (s + m) + (k - m) = s + k /\ (d + m) + (k - m) = d + k
      BY <2>2
    <3>2. <<(s + m) + (k - m), (d + m) + (k - m)>> \in B
      BY <3>1
    <3> QED BY <3>1, <3>2
  <2> QED BY <2>1, <2>2
<1> QED BY <1>1, <1>2, <1>3 DEF Pairs

LEMMA RequestType ==
  ASSUME NEW r \in Requests
  PROVE  /\ r.src \in Nat /\ r.dst \in Nat /\ r.len \in Nat
         /\ r.fn \in {"write", "read", "copy"}
         /\ r.iface \in {"memory", "mmio"}
         /\ r.op \in BOOLEAN /\ r.open \in BOOLEAN
         /\ r # NULL
  BY ApiAssumption

-----------------------------------------------------------------------------
(***************************************************************************)
(* The inductive invariant: for each call what is true where it is; a      *)
(* queue holds queued calls of its direction, each once; one call copies;  *)
(* handlers are there while an operation that is to be reported goes on.   *)
(***************************************************************************)
Untouched(c) == moved[c] = {} /\ padded[c] = {} /\ reports[c] = <<>>
Prefix(c) == moved[c] = Pairs(req[c].src, req[c].dst, Done(c))

PaddingExact(c) ==
  /\ padded[c] = {} \/ left[c] = 0
  /\ \A a \in padded[c] :
        /\ a >= req[c].dst + req[c].len
        /\ a - req[c].dst < 4 * ((req[c].len + 3) \div 4)

Aligned(c) ==
  /\ left[c] >= 8 => Done(c) % 8 = 0
  /\ left[c] > 0 => Done(c) % 4 = 0

RegisterCall(c) == req[c].iface = "mmio" /\ req[c].fn # "copy"

Buffered(c) ==
  \A i \in 0 .. Chunk(left[c]) - 1 : copyBuffer[i] = req[c].src + Done(c) + i

ReportedRight(c) ==
  /\ Len(reports[c]) <= 1
  /\ \A i \in 1 .. Len(reports[c]) :
       req[c].op /\ reports[c][i][1] \in Handlers
  /\ req[c].op /\ req[c].open => reports[c] # <<>>

\* What is true of a call that has returned.
Over(c) ==
  /\ Delivers(c)
  /\ RegisterCall(c) => Prefix(c) /\ PaddingExact(c)
  /\ ReportedRight(c)

CallInv(c) ==
  /\ at[c] = "new" => req[c] = NULL /\ Untouched(c)
  /\ at[c] # "new" => req[c] \in Requests /\ left[c] \in 0 .. req[c].len
  /\ at[c] \in {"queued", "dma"} =>
       /\ Untouched(c)
       /\ req[c].open /\ req[c].iface = "memory" /\ req[c].fn # "copy"
       /\ req[c].op <=> at[c] = "queued"
  /\ at[c] = "mmio" =>
       /\ req[c].open /\ RegisterCall(c)
       /\ reports[c] = <<>>
       /\ Prefix(c) /\ Aligned(c) /\ PaddingExact(c)
  /\ at[c] \in {"copy", "copy_write"} =>
       /\ req[c].open /\ req[c].fn = "copy"
       /\ reports[c] = <<>> /\ padded[c] = {}
       /\ Prefix(c)
  /\ at[c] = "copy_write" => left[c] > 0 /\ Buffered(c)
  /\ at[c] = "refused" =>
       /\ req[c].open /\ req[c].fn = "copy"
       /\ Untouched(c) /\ left[c] = req[c].len
  /\ at[c] = "returned" => Over(c)
  /\ at[c] \notin {"new", "returned"} /\ req[c].op => registered

QueueInv ==
  \A d \in Dirs :
    /\ \A i \in 1 .. Len(queue[d]) :
         at[queue[d][i]] = "queued" /\ Dir(req[queue[d][i]]) = d
    /\ \A i, j \in 1 .. Len(queue[d]) : queue[d][i] = queue[d][j] => i = j

Copying(c) == at[c] \in {"copy", "copy_write"}
OneCopy == \A b, c \in Calls : Copying(b) /\ Copying(c) => b = c

HandlersThere == registered => \A x \in Dirs \cup {"device"} : handler[x] \in Handlers

IInv ==
  /\ TypeOK
  /\ \A c \in Calls : CallInv(c)
  /\ QueueInv
  /\ OneCopy
  /\ HandlersThere

-----------------------------------------------------------------------------
(***************************************************************************)
(* A step of one call leaves the others alone.                             *)
(***************************************************************************)
Same(b) ==
  /\ req'[b] = req[b] /\ at'[b] = at[b] /\ left'[b] = left[b]
  /\ moved'[b] = moved[b] /\ padded'[b] = padded[b]
  /\ broken'[b] = broken[b] /\ ret'[b] = ret[b] /\ reports'[b] = reports[b]

Only(c) == \A b \in Calls \ {c} : Same(b)

LEMMA CallFrame ==
  ASSUME NEW c \in Calls, CallInv(c), Same(c),
         at[c] = "copy_write" => copyBuffer' = copyBuffer,
         registered /\ at[c] \notin {"new", "returned"} => registered'
  PROVE  CallInv(c)'
<1>1. /\ Untouched(c)' <=> Untouched(c)
      /\ Prefix(c)' <=> Prefix(c)
      /\ PaddingExact(c)' <=> PaddingExact(c)
      /\ Aligned(c)' <=> Aligned(c)
      /\ RegisterCall(c)' <=> RegisterCall(c)
      /\ Delivers(c)' <=> Delivers(c)
      /\ ReportedRight(c)' <=> ReportedRight(c)
  BY DEF Same, Untouched, Prefix, PaddingExact, Aligned, RegisterCall,
         Delivers, ReportedRight, Done, Outcome, Bytes
<1>2. Over(c)' <=> Over(c)
  BY <1>1 DEF Over
<1>3. at[c] = "copy_write" => (Buffered(c)' <=> Buffered(c))
  BY DEF Same, Buffered, Done, Chunk
<1> QED BY <1>1, <1>2, <1>3 DEF Same, CallInv

LEMMA StepFrame ==
  ASSUME IInv, TypeOK', NEW c \in Calls, at[c] # "queued", Only(c),
         UNCHANGED <<queue, handler, registered>>,
         copyBuffer' = copyBuffer \/ at[c] = "copy",
         Copying(c)' => \A b \in Calls \ {c} : ~Copying(b),
         CallInv(c)'
  PROVE  IInv'
<1>1. ASSUME NEW b \in Calls PROVE CallInv(b)'
  <2>1. CASE b = c
    BY <2>1
  <2>2. CASE b # c
    <3>1. Same(b) /\ CallInv(b)
      BY <2>2 DEF Only, IInv
    <3>2. at[b] = "copy_write" => copyBuffer' = copyBuffer
      BY <2>2 DEF IInv, OneCopy, Copying
    <3> QED BY <3>1, <3>2, CallFrame
  <2> QED BY <2>1, <2>2
<1>2. QueueInv'
  <2> SUFFICES ASSUME NEW d \in Dirs, NEW i \in 1 .. Len(queue[d])
               PROVE  at'[queue[d][i]] = "queued" /\ Dir(req'[queue[d][i]]) = d
    BY DEF QueueInv, IInv
  <2>1. /\ at[queue[d][i]] = "queued" /\ Dir(req[queue[d][i]]) = d
        /\ queue[d][i] \in Calls
    <3>1. QueueInv /\ queue[d] \in Seq(Calls)
      BY DEF IInv, TypeOK
    <3> QED BY <3>1 DEF QueueInv
  <2>2. Same(queue[d][i])
    BY <2>1 DEF Only
  <2> QED BY <2>1, <2>2 DEF Same
<1>3. OneCopy'
  <2>1. ASSUME NEW b \in Calls \ {c} PROVE Copying(b)' <=> Copying(b)
    BY <2>1 DEF Only, Same, Copying
  <2>2. OneCopy
    BY DEF IInv
  <2> SUFFICES ASSUME NEW a \in Calls, NEW b \in Calls, Copying(a)', Copying(b)'
               PROVE  a = b
    BY DEF OneCopy
  <2>3. CASE a # c /\ b # c
    BY <2>1, <2>2, <2>3 DEF OneCopy
  <2>4. CASE a = c \/ b = c
    BY <2>1, <2>4
  <2> QED BY <2>3, <2>4
<1>4. HandlersThere'
  BY DEF HandlersThere, IInv
<1> QED BY <1>1, <1>2, <1>3, <1>4 DEF IInv

\* The end of a call that reports its own operation.
LEMMA ReturnStep ==
  ASSUME IInv, NEW c \in Calls, req[c] \in Requests, reports[c] = <<>>,
         req[c].op => registered, UNCHANGED req,
         NEW status \in {0, -1}, NEW reported \in {0, -1},
         Return(c, status, reported)
  PROVE  /\ at' \in [Calls -> Places] /\ ret' \in [Calls -> {NULL, 0, -1}]
         /\ reports' \in [Calls -> Seq(Verdicts)]
         /\ at'[c] = "returned" /\ ret'[c] = status
         /\ ReportedRight(c)'
         /\ Outcome(c)' = IF req[c].op THEN reported ELSE status
         /\ \A b \in Calls \ {c} :
              at'[b] = at[b] /\ ret'[b] = ret[b] /\ reports'[b] = reports[b]
<1>1. /\ at \in [Calls -> Places] /\ ret \in [Calls -> {NULL, 0, -1}]
      /\ reports \in [Calls -> Seq(Verdicts)]
  BY DEF IInv, TypeOK, Places, Verdicts
<1>2. /\ at' = [at EXCEPT ![c] = "returned"]
      /\ ret' = [ret EXCEPT ![c] = status]
  BY DEF Return
<1>3. CASE req[c].op
  <2> DEFINE h == handler["device"]
  <2>1. h \in Handlers /\ <<h, reported>> \in Verdicts
    BY <1>3 DEF IInv, HandlersThere, Verdicts
  <2>2. reports' = [reports EXCEPT ![c] = Append(reports[c], <<h, reported>>)]
    BY <1>3 DEF Return, Report
  <2> HIDE DEF h
  <2>3. Append(reports[c], <<h, reported>>) = << <<h, reported>> >>
    OBVIOUS
  <2>4. << <<h, reported>> >> \in Seq(Verdicts)
    BY <2>1
  <2>5. reports'[c] = << <<h, reported>> >>
    BY <1>1, <2>2, <2>3
  <2>6. /\ Len(reports'[c]) = 1 /\ reports'[c][1][1] = h
        /\ reports'[c][1][2] = reported /\ reports'[c] # <<>>
    BY <2>5
  <2>7. ReportedRight(c)'
    BY <1>3, <2>1, <2>6 DEF ReportedRight
  <2>8. Outcome(c)' = reported
    BY <2>6 DEF Outcome
  <2> QED BY <1>1, <1>2, <1>3, <2>2, <2>3, <2>4, <2>7, <2>8 DEF Places
<1>4. CASE ~req[c].op
  <2>1. reports' = reports
    BY <1>4 DEF Return
  <2>2. ReportedRight(c)'
    BY <1>4, <2>1 DEF ReportedRight
  <2>3. Outcome(c)' = status
    BY <1>1, <1>2, <2>1 DEF Outcome
  <2> QED BY <1>1, <1>2, <1>4, <2>1, <2>2, <2>3 DEF Places
<1> QED BY <1>3, <1>4

-----------------------------------------------------------------------------
(***************************************************************************)
(* Handlers and the start of a call.                                       *)
(***************************************************************************)
LEMMA InitInv == Init => IInv
<1> SUFFICES ASSUME Init PROVE IInv
  OBVIOUS
<1>1. TypeOK
  <2>1. /\ [c \in Calls |-> <<>>] \in [Calls -> Seq(Verdicts)]
        /\ [d \in Dirs |-> <<>>] \in [Dirs -> Seq(Calls)]
    OBVIOUS
  <2> QED BY <2>1 DEF Init, TypeOK, Verdicts
<1>2. ASSUME NEW c \in Calls PROVE CallInv(c)
  BY <1>2 DEF Init, CallInv, Untouched
<1>3. QueueInv
  <2>1. \A d \in Dirs : Len(queue[d]) = 0
    BY DEF Init
  <2> QED BY <2>1 DEF QueueInv
<1>4. OneCopy /\ HandlersThere
  BY DEF Init, OneCopy, Copying, HandlersThere
<1> QED BY <1>1, <1>2, <1>3, <1>4 DEF IInv

LEMMA HandlerStep ==
  ASSUME IInv, \/ \E h \in Handlers : SetStatusHandler(h)
               \/ Program
  PROVE  IInv'
<1>1. UNCHANGED <<req, at, left, moved, padded, broken, ret, reports,
                  copyBuffer, queue>>
  BY DEF SetStatusHandler, Program, callVars
<1>2. TypeOK' /\ HandlersThere'
  <2>1. CASE \E h \in Handlers : SetStatusHandler(h)
    BY <1>1, <2>1 DEF IInv, TypeOK, HandlersThere, SetStatusHandler
  <2>2. CASE Program
    BY <1>1, <2>2 DEF IInv, TypeOK, HandlersThere, Program
  <2> QED BY <2>1, <2>2
<1>3. ASSUME NEW c \in Calls PROVE CallInv(c)'
  <2>1. CallInv(c) /\ Same(c)
    BY <1>1 DEF IInv, Same
  <2>2. registered /\ at[c] \notin {"new", "returned"} => registered'
    BY DEF SetStatusHandler, Program, Quiet
  <2> QED BY <1>1, <2>1, <2>2, CallFrame
<1>4. QueueInv' /\ OneCopy'
  BY <1>1 DEF IInv, QueueInv, OneCopy, Copying
<1> QED BY <1>2, <1>3, <1>4 DEF IInv

LEMMA StartTypes ==
  ASSUME IInv, NEW c \in Calls, NEW r \in Requests, Start(c, r)
  PROVE  /\ TypeOK'
         /\ Only(c)
         /\ at[c] = "new" /\ req'[c] = r /\ left'[c] = r.len
         /\ Untouched(c) /\ Untouched(c)'
         /\ UNCHANGED <<moved, padded, broken, reports, copyBuffer, handler,
                        registered>>
         /\ r.op => registered
<1>1. /\ at[c] = "new" /\ (r.op => registered)
      /\ req' = [req EXCEPT ![c] = r]
      /\ left' = [left EXCEPT ![c] = r.len]
      /\ UNCHANGED <<moved, padded, broken, reports, copyBuffer, handler,
                     registered>>
      /\ \/ StartUnknown(c, r)
         \/ StartQueued(c, r)
         \/ StartBlocking(c, r)
         \/ StartMmio(c, r)
         \/ StartCopy(c, r)
  BY DEF Start
<1>2. /\ req \in [Calls -> {NULL} \cup Requests] /\ at \in [Calls -> Places]
      /\ left \in [Calls -> Nat] /\ ret \in [Calls -> {NULL, 0, -1}]
      /\ queue \in [Dirs -> Seq(Calls)]
  BY DEF IInv, TypeOK, Places
<1>3. \E p \in Places : at' = [at EXCEPT ![c] = p]
  BY <1>1 DEF StartUnknown, StartQueued, StartBlocking, StartMmio, StartCopy,
              Places
<1>4. ret' = ret \/ \E n \in {0, -1} : ret' = [ret EXCEPT ![c] = n]
  BY <1>1 DEF StartUnknown, StartQueued, StartBlocking, StartMmio, StartCopy
<1>5. queue' \in [Dirs -> Seq(Calls)]
  <2>1. CASE StartQueued(c, r)
    <3>1. Dir(r) \in Dirs
      BY DEF Dir, Dirs
    <3>2. Append(queue[Dir(r)], c) \in Seq(Calls)
      BY <1>2, <3>1
    <3> QED BY <1>2, <2>1, <3>1, <3>2 DEF StartQueued
  <2>2. CASE ~StartQueued(c, r)
    BY <1>1, <1>2, <2>2 DEF StartUnknown, StartBlocking, StartMmio, StartCopy
  <2> QED BY <2>1, <2>2
<1>6. /\ req' \in [Calls -> {NULL} \cup Requests] /\ at' \in [Calls -> Places]
      /\ left' \in [Calls -> Nat] /\ ret' \in [Calls -> {NULL, 0, -1}]
  BY <1>1, <1>2, <1>3, <1>4, RequestType
<1>7. TypeOK'
  BY <1>1, <1>5, <1>6 DEF IInv, TypeOK, Places
<1>8. Only(c)
  <2> SUFFICES ASSUME NEW b \in Calls \ {c} PROVE Same(b)
    BY DEF Only
  <2>1. at'[b] = at[b] /\ ret'[b] = ret[b]
    BY <1>2, <1>3, <1>4
  <2> QED BY <1>1, <1>2, <2>1 DEF Same
<1>9. Untouched(c) /\ Untouched(c)'
  BY <1>1 DEF IInv, CallInv, Untouched
<1> QED BY <1>1, <1>2, <1>7, <1>8, <1>9

LEMMA StartStep ==
  ASSUME IInv, NEW c \in Calls, NEW r \in Requests, Start(c, r)
  PROVE  IInv'
<1>1. /\ TypeOK' /\ Only(c)
      /\ at[c] = "new" /\ req'[c] = r /\ left'[c] = r.len
      /\ Untouched(c) /\ Untouched(c)'
      /\ UNCHANGED <<moved, padded, broken, reports, copyBuffer, handler,
                     registered>>
      /\ r.op => registered
  BY StartTypes
<1>2. /\ at \in [Calls -> Places] /\ ret \in [Calls -> {NULL, 0, -1}]
      /\ queue \in [Dirs -> Seq(Calls)]
  BY DEF IInv, TypeOK, Places
<1>3. /\ Prefix(c)' /\ Aligned(c)' /\ PaddingExact(c)' /\ Done(c)' = 0
      /\ left'[c] \in 0 .. req'[c].len /\ r.len \in Nat
  <2>1. r.src \in Nat /\ r.dst \in Nat /\ r.len \in Nat
    BY RequestType
  <2>2. Done(c)' = 0
    BY <1>1, <2>1 DEF Done
  <2>3. Prefix(c)'
    BY <1>1, <2>1, <2>2, NoPairs DEF Prefix, Untouched
  <2> QED BY <1>1, <2>1, <2>2, <2>3 DEF Aligned, PaddingExact, Untouched
<1>4. CASE StartUnknown(c, r)
  <2>1. at'[c] = "returned" /\ ret'[c] = -1 /\ ~r.open /\ UNCHANGED queue
    BY <1>2, <1>4 DEF StartUnknown
  <2>2. Delivers(c)'
    BY <1>1, <1>3, <2>1 DEF Delivers, Outcome, Untouched, Prefix
  <2>3. ReportedRight(c)'
    BY <1>1, <2>1 DEF ReportedRight, Untouched
  <2>4. CallInv(c)' /\ ~Copying(c)'
    BY <1>1, <1>3, <2>1, <2>2, <2>3 DEF CallInv, Over, Copying
  <2> QED BY <1>1, <2>1, <2>4, StepFrame
<1>5. CASE StartBlocking(c, r)
  <2>1. at'[c] = "dma" /\ UNCHANGED queue
        /\ r.open /\ r.iface = "memory" /\ r.fn # "copy" /\ ~r.op
    BY <1>2, <1>5 DEF StartBlocking
  <2>2. CallInv(c)' /\ ~Copying(c)'
    BY <1>1, <1>3, <2>1 DEF CallInv, Copying
  <2> QED BY <1>1, <2>1, <2>2, StepFrame
<1>6. CASE StartMmio(c, r)
  <2>1. at'[c] = "mmio" /\ UNCHANGED queue
        /\ r.open /\ r.iface = "mmio" /\ r.fn # "copy"
    BY <1>2, <1>6 DEF StartMmio
  <2>2. reports'[c] = <<>> /\ RegisterCall(c)'
    BY <1>1, <2>1 DEF Untouched, RegisterCall
  <2>3. CallInv(c)' /\ ~Copying(c)'
    BY <1>1, <1>3, <2>1, <2>2 DEF CallInv, Copying
  <2> QED BY <1>1, <2>1, <2>3, StepFrame
<1>7. CASE StartCopy(c, r)
  <2>1. /\ at'[c] \in {"copy", "refused"} /\ UNCHANGED queue
        /\ r.open /\ r.fn = "copy"
        /\ \A b \in Calls : Running(b) => req[b].fn # "copy"
    BY <1>2, <1>7 DEF StartCopy
  <2>2. ASSUME NEW b \in Calls PROVE ~Copying(b)
    BY <2>1 DEF IInv, CallInv, Copying, Running
  <2>3. CallInv(c)'
    BY <1>1, <1>3, <2>1 DEF CallInv, Untouched
  <2> QED BY <1>1, <2>1, <2>2, <2>3, StepFrame
<1>8. CASE StartQueued(c, r)
  <2> DEFINE e == Dir(r)
  <2>1. /\ at'[c] = "queued" /\ e \in Dirs
        /\ r.open /\ r.iface = "memory" /\ r.fn # "copy" /\ r.op
        /\ queue' = [queue EXCEPT ![e] = Append(queue[e], c)]
    BY <1>2, <1>8 DEF StartQueued, Dir, Dirs
  <2>2. CallInv(c)'
    BY <1>1, <1>3, <2>1 DEF CallInv
  <2>3. ASSUME NEW b \in Calls PROVE CallInv(b)'
    <3>1. CASE b = c
      BY <2>2, <3>1
    <3>2. CASE b # c
      BY <1>1, <3>2, CallFrame DEF IInv, Only
    <3> QED BY <3>1, <3>2
  <2>4. OneCopy'
    <3>1. ASSUME NEW b \in Calls, Copying(b)' PROVE Copying(b)
      <4>1. b # c
        BY <2>1, <3>1 DEF Copying
      <4> QED BY <1>1, <3>1, <4>1 DEF Only, Same, Copying
    <3>2. OneCopy
      BY DEF IInv
    <3> QED BY <3>1, <3>2 DEF OneCopy
  <2>5. HandlersThere'
    BY <1>1 DEF IInv, HandlersThere
  <2>6. QueueInv'
    <3> HIDE DEF e
    <3>1. QueueInv
      BY DEF IInv
    <3>2. ASSUME NEW d \in Dirs, NEW i \in 1 .. Len(queue[d])
          PROVE  /\ queue[d][i] \in Calls \ {c}
                 /\ at'[queue[d][i]] = "queued"
                 /\ Dir(req'[queue[d][i]]) = d
      <4>1. queue[d][i] \in Calls
        BY <1>2
      <4>2. at[queue[d][i]] = "queued" /\ Dir(req[queue[d][i]]) = d
        BY <3>1 DEF QueueInv
      <4>3. queue[d][i] # c
        BY <1>1, <4>2
      <4> QED BY <1>1, <4>1, <4>2, <4>3 DEF Only, Same
    <3>3. at'[c] = "queued" /\ Dir(req'[c]) = e
      BY <1>1, <2>1 DEF e
    <3> SUFFICES ASSUME NEW d \in Dirs
                 PROVE  /\ \A i \in 1 .. Len(queue'[d]) :
                             /\ at'[queue'[d][i]] = "queued"
                             /\ Dir(req'[queue'[d][i]]) = d
                        /\ \A i, j \in 1 .. Len(queue'[d]) :
                             queue'[d][i] = queue'[d][j] => i = j
      BY DEF QueueInv
    <3>4. CASE d # e
      <4>1. queue'[d] = queue[d]
        BY <1>2, <2>1, <3>4
      <4> QED BY <3>1, <3>2, <4>1 DEF QueueInv
    <3>5. CASE d = e
      <4>1. queue'[d] = Append(queue[d], c) /\ queue[d] \in Seq(Calls)
        BY <1>2, <2>1, <3>5
      <4> DEFINE q == queue[d]
      <4>2. /\ Len(q) \in Nat /\ Len(queue'[d]) = Len(q) + 1
            /\ \A i \in 1 .. Len(q) : queue'[d][i] = q[i]
            /\ queue'[d][Len(q) + 1] = c
        BY <4>1
      <4>3. \A i, j \in 1 .. Len(q) : q[i] = q[j] => i = j
        BY <3>1 DEF QueueInv
      <4>4. \A i \in 1 .. Len(q) : /\ q[i] \in Calls \ {c}
                                  /\ at'[q[i]] = "queued"
                                  /\ Dir(req'[q[i]]) = d
        BY <3>2
      <4> HIDE DEF q
      <4>5. \A i \in 1 .. Len(q) + 1 : i \in 1 .. Len(q) \/ i = Len(q) + 1
        BY <4>2
      <4> QED BY <3>3, <3>5, <4>2, <4>3, <4>4, <4>5
    <3> QED BY <3>4, <3>5
  <2> QED BY <1>1, <2>3, <2>4, <2>5, <2>6 DEF IInv
<1> QED BY <1>4, <1>5, <1>6, <1>7, <1>8 DEF Start

-----------------------------------------------------------------------------
(***************************************************************************)
(* Transfers of the DMA objects.                                           *)
(***************************************************************************)
LEMMA BytesType ==
  ASSUME NEW r \in Requests
  PROVE  Bytes(r) \subseteq Nat \X Nat
  BY RequestType, PairsType DEF Bytes

LEMMA BlockingStep ==
  ASSUME IInv, NEW c \in Calls, NEW ok \in BOOLEAN, BlockingDma(c, ok)
  PROVE  IInv'
<1>1. /\ at[c] = "dma"
      /\ at' = [at EXCEPT ![c] = "returned"]
      /\ ret' = [ret EXCEPT ![c] = IF ok THEN 0 ELSE -1]
      /\ moved' = [moved EXCEPT ![c] = IF ok THEN Bytes(req[c]) ELSE @]
      /\ broken' = [broken EXCEPT ![c] = ~ok]
      /\ UNCHANGED <<req, left, padded, reports, copyBuffer, queue, handler,
                     registered>>
  BY DEF BlockingDma
<1>2. CallInv(c) /\ TypeOK
  BY DEF IInv
<1>3. /\ req[c] \in Requests /\ Untouched(c) /\ left[c] \in 0 .. req[c].len
      /\ req[c].iface = "memory" /\ req[c].fn # "copy" /\ ~req[c].op
  BY <1>1, <1>2 DEF CallInv
<1>4. TypeOK'
  <2>1. (IF ok THEN Bytes(req[c]) ELSE moved[c]) \in SUBSET (Nat \X Nat)
    BY <1>2, <1>3, BytesType DEF TypeOK
  <2> QED BY <1>1, <1>2, <2>1 DEF TypeOK
<1>5. /\ at'[c] = "returned" /\ ret'[c] = (IF ok THEN 0 ELSE -1)
      /\ reports'[c] = <<>>
      /\ moved'[c] = IF ok THEN Bytes(req[c]) ELSE {}
  BY <1>1, <1>2, <1>3 DEF TypeOK, Untouched
<1>6. Only(c)
  BY <1>1, <1>2 DEF Only, Same, TypeOK
<1>7. CallInv(c)' /\ ~Copying(c)'
  <2>1. Delivers(c)'
    BY <1>1, <1>3, <1>5 DEF Delivers, Outcome
  <2>2. ReportedRight(c)' /\ ~RegisterCall(c)'
    BY <1>1, <1>3, <1>5 DEF ReportedRight, RegisterCall
  <2> QED BY <1>1, <1>3, <1>5, <2>1, <2>2 DEF CallInv, Over, Copying
<1> QED BY <1>1, <1>4, <1>6, <1>7, StepFrame

LEMMA WorkerStep ==
  ASSUME IInv, NEW d \in Dirs, NEW ok \in BOOLEAN, Worker(d, ok)
  PROVE  IInv'
<1>0. PICK c \in Calls : queue[d] # <<>> /\ c = Head(queue[d])
  BY DEF Worker, IInv, TypeOK
<1> DEFINE q == queue[d]
           v == IF ok THEN 0 ELSE -1
           h == handler[d]
<1>1. /\ q # <<>>
      /\ queue' = [queue EXCEPT ![d] = Tail(q)]
      /\ at' = [at EXCEPT ![c] = "returned"]
      /\ moved' = [moved EXCEPT ![c] = IF ok THEN Bytes(req[c]) ELSE @]
      /\ broken' = [broken EXCEPT ![c] = ~ok]
      /\ reports' = [reports EXCEPT ![c] = Append(@, <<h, v>>)]
      /\ UNCHANGED <<req, left, padded, ret, copyBuffer, handler, registered>>
  BY <1>0 DEF Worker, Report
<1>2. TypeOK /\ QueueInv /\ HandlersThere /\ OneCopy
  BY DEF IInv
<1>3. q \in Seq(Calls)
  BY <1>2 DEF TypeOK
<1>4. c \in Calls /\ c = q[1] /\ 1 \in 1 .. Len(q)
  BY <1>0, <1>3
<1>5. at[c] = "queued" /\ Dir(req[c]) = d
  BY <1>2, <1>4 DEF QueueInv
<1>6. CallInv(c)
  BY <1>4 DEF IInv
<1>7. /\ req[c] \in Requests /\ Untouched(c) /\ left[c] \in 0 .. req[c].len
      /\ req[c].iface = "memory" /\ req[c].fn # "copy" /\ req[c].op /\ registered
  BY <1>5, <1>6 DEF CallInv
<1>8. h \in Handlers /\ v \in {0, -1} /\ <<h, v>> \in Verdicts
  BY <1>2, <1>7 DEF HandlersThere, Verdicts
<1>9. /\ \A i \in 1 .. Len(Tail(q)) : Tail(q)[i] = q[i + 1] /\ i + 1 \in 1 .. Len(q)
      /\ Tail(q) \in Seq(Calls)
  BY <1>1, <1>3
<1>10. queue'[d] = Tail(q) /\ \A e \in Dirs \ {d} : queue'[e] = queue[e]
  BY <1>1, <1>2 DEF TypeOK
<1>11. TypeOK'
  <2>1. (IF ok THEN Bytes(req[c]) ELSE moved[c]) \in SUBSET (Nat \X Nat)
    BY <1>2, <1>4, <1>7, BytesType DEF TypeOK
  <2>2. Append(reports[c], <<h, v>>) \in Seq(Verdicts)
    BY <1>2, <1>4, <1>8 DEF TypeOK, Verdicts
  <2> HIDE DEF q, v, h
  <2> QED BY <1>1, <1>2, <1>4, <1>9, <2>1, <2>2 DEF TypeOK, Verdicts
<1> HIDE DEF v, h
<1>12. /\ at'[c] = "returned"
       /\ reports'[c] = << <<h, v>> >>
       /\ moved'[c] = IF ok THEN Bytes(req[c]) ELSE {}
  <2>1. Append(reports[c], <<h, v>>) = << <<h, v>> >>
    BY <1>7 DEF Untouched
  <2> QED BY <1>1, <1>2, <1>4, <1>7, <2>1 DEF TypeOK, Untouched
<1>13. Only(c)
  BY <1>1, <1>2, <1>4 DEF Only, Same, TypeOK
<1>14. CallInv(c)' /\ ~Copying(c)'
  <2>1. /\ Len(reports'[c]) = 1 /\ reports'[c] # <<>>
        /\ reports'[c][1][1] = h /\ reports'[c][1][2] = v
    BY <1>12
  <2>2. Delivers(c)'
    BY <1>1, <1>7, <1>12, <2>1 DEF Delivers, Outcome, v
  <2>3. ReportedRight(c)' /\ ~RegisterCall(c)'
    <3>1. req' = req /\ req[c].op /\ req[c].iface = "memory"
      BY <1>1, <1>7
    <3>2. \A i \in 1 .. Len(reports'[c]) : reports'[c][i][1] \in Handlers
      BY <1>8, <2>1
    <3> QED BY <2>1, <3>1, <3>2 DEF ReportedRight, RegisterCall
  <2> QED BY <1>1, <1>7, <1>12, <2>2, <2>3 DEF CallInv, Over, Copying
<1>15. ASSUME NEW b \in Calls PROVE CallInv(b)'
  <2>1. CASE b = c
    BY <1>14, <2>1
  <2>2. CASE b # c
    BY <1>1, <1>13, <2>2, CallFrame DEF IInv, Only
  <2> QED BY <2>1, <2>2
<1>16. OneCopy'
  <2>1. ASSUME NEW b \in Calls, Copying(b)' PROVE Copying(b)
    <3>1. b # c
      BY <1>14, <2>1
    <3> QED BY <1>13, <2>1, <3>1 DEF Only, Same, Copying
  <2> QED BY <1>2, <2>1 DEF OneCopy
<1>17. HandlersThere'
  BY <1>1, <1>2 DEF HandlersThere
<1>18. QueueInv'
  <2>1. ASSUME NEW b \in Calls, b # c, at[b] = "queued"
        PROVE  at'[b] = "queued" /\ req'[b] = req[b]
    BY <1>13, <2>1 DEF Only, Same
  <2> SUFFICES ASSUME NEW e \in Dirs
               PROVE  /\ \A i \in 1 .. Len(queue'[e]) :
                           /\ at'[queue'[e][i]] = "queued"
                           /\ Dir(req'[queue'[e][i]]) = e
                      /\ \A i, j \in 1 .. Len(queue'[e]) :
                           queue'[e][i] = queue'[e][j] => i = j
    BY DEF QueueInv
  <2>2. CASE e # d
    <3>1. queue'[e] = queue[e] /\ queue[e] \in Seq(Calls)
      BY <1>2, <1>10, <2>2 DEF TypeOK
    <3>2. ASSUME NEW i \in 1 .. Len(queue[e])
          PROVE  /\ at'[queue[e][i]] = "queued"
                 /\ Dir(req'[queue[e][i]]) = e
      <4>1. /\ queue[e][i] \in Calls
            /\ at[queue[e][i]] = "queued" /\ Dir(req[queue[e][i]]) = e
        BY <1>2, <3>1 DEF QueueInv
      <4> QED BY <1>5, <2>1, <2>2, <4>1
    <3> QED BY <1>2, <3>1, <3>2 DEF QueueInv
  <2>3. CASE e = d
    <3>1. \A i, j \in 1 .. Len(q) : q[i] = q[j] => i = j
      BY <1>2 DEF QueueInv
    <3>2. \A i \in 1 .. Len(q) : /\ at[q[i]] = "queued" /\ Dir(req[q[i]]) = d
                                 /\ q[i] \in Calls
      BY <1>2, <1>3 DEF QueueInv
    <3> HIDE DEF q
    <3>3. ASSUME NEW i \in 1 .. Len(Tail(q))
          PROVE  /\ at'[Tail(q)[i]] = "queued"
                 /\ Dir(req'[Tail(q)[i]]) = d
      <4>1. Tail(q)[i] = q[i + 1] /\ i + 1 \in 1 .. Len(q)
        BY <1>9
      <4>2. q[i + 1] # c
        BY <1>4, <3>1, <4>1
      <4> QED BY <2>1, <3>2, <4>1, <4>2
    <3>4. ASSUME NEW i \in 1 .. Len(Tail(q)), NEW j \in 1 .. Len(Tail(q)),
                 Tail(q)[i] = Tail(q)[j]
          PROVE  i = j
      <4>1. /\ Tail(q)[i] = q[i + 1] /\ i + 1 \in 1 .. Len(q)
            /\ Tail(q)[j] = q[j + 1] /\ j + 1 \in 1 .. Len(q)
        BY <1>9
      <4>2. i + 1 = j + 1
        BY <3>1, <3>4, <4>1
      <4> QED BY <4>2
    <3>5. queue'[e] = Tail(q)
      BY <1>10, <2>3
    <3> HIDE DEF q
    <3>6. \A i \in 1 .. Len(queue'[e]) :
            at'[queue'[e][i]] = "queued" /\ Dir(req'[queue'[e][i]]) = e
      BY <2>3, <3>3, <3>5
    <3>7. \A i, j \in 1 .. Len(queue'[e]) : queue'[e][i] = queue'[e][j] => i = j
      BY <3>4, <3>5
    <3> QED BY <3>6, <3>7
  <2> QED BY <2>2, <2>3
<1> QED BY <1>11, <1>15, <1>16, <1>17, <1>18 DEF IInv

-----------------------------------------------------------------------------
(***************************************************************************)
(* Register calls.                                                         *)
(***************************************************************************)
LEMMA MmioAccessStep ==
  ASSUME IInv, NEW c \in Calls, MmioAccess(c)
  PROVE  IInv'
<1>1. CallInv(c) /\ TypeOK /\ at[c] = "mmio" /\ left[c] > 0
  BY DEF IInv, MmioAccess
<1>2. /\ req[c] \in Requests /\ req[c].open /\ RegisterCall(c)
      /\ left[c] \in 1 .. req[c].len
      /\ reports[c] = <<>> /\ Prefix(c) /\ Aligned(c) /\ PaddingExact(c)
      /\ req[c].op => registered
  BY <1>1 DEF CallInv, TypeOK
<1>3. PICK r \in Requests : r = req[c]
  BY <1>2
<1>4. PICK l \in 1 .. r.len : l = left[c]
  BY <1>2, <1>3
<1>5. /\ r.src \in Nat /\ r.dst \in Nat /\ r.len \in Nat
      /\ l \in Nat /\ l > 0
  BY <1>4, RequestType
<1>c. PICK s \in Nat, d \in Nat, len \in Nat :
             s = r.src /\ d = r.dst /\ len = r.len
  BY <1>5
<1>a. PICK n \in Nat : n = AccessWidth(l)
  BY <1>5 DEF AccessWidth
<1>b. PICK m \in Nat : len = m + l
  <2>1. len - l \in Nat /\ len = (len - l) + l
    BY <1>4, <1>5, <1>c
  <2> QED BY <2>1
<1>6. Done(c) = m
  BY <1>3, <1>4, <1>5, <1>b, <1>c DEF Done
<1>7. /\ moved' = [moved EXCEPT ![c] = @ \cup Pairs(s + m, d + m, n)]
      /\ padded' = [padded EXCEPT ![c] = @ \cup Padding(r, m, n)]
      /\ left' = [left EXCEPT ![c] = l - n]
      /\ UNCHANGED <<req, at, broken, ret, reports, copyBuffer, queue, handler,
                     registered>>
  <2>1. /\ moved' = [moved EXCEPT ![c] = @ \cup
              Pairs(req[c].src + Done(c), req[c].dst + Done(c), AccessWidth(left[c]))]
        /\ padded' = [padded EXCEPT ![c] = @ \cup Padding(req[c], Done(c), AccessWidth(left[c]))]
        /\ left' = [left EXCEPT ![c] = @ - AccessWidth(left[c])]
        /\ UNCHANGED <<req, at, broken, ret, reports, copyBuffer, queue, handler,
                       registered>>
    BY DEF MmioAccess
  <2> QED BY <1>3, <1>4, <1>6, <1>a, <1>c, <2>1
<1>8. /\ n \in 1 .. l /\ l - n \in Nat
      /\ len - (l - n) = m + n
      /\ l - n >= 8 => (m + n) % 8 = 0
      /\ l - n > 0 => (m + n) % 4 = 0
      /\ l < 4 => n = l /\ m + 4 = 4 * ((len + 3) \div 4)
      /\ ~(l < 4) => ~(n < 4)
  <2>1. (l >= 8 => m % 8 = 0) /\ m % 4 = 0
    BY <1>2, <1>4, <1>5, <1>6 DEF Aligned
  <2>2. /\ len \in Nat /\ m \in Nat /\ l \in Nat /\ n \in Nat
        /\ len = m + l /\ l > 0 /\ n = AccessWidth(l)
    BY <1>5, <1>a, <1>b, <1>c
  <2>3. CASE l >= 8
    <3>1. n = 8 /\ m % 8 = 0
      BY <2>1, <2>2, <2>3 DEF AccessWidth
    <3>2. (m + 8) % 8 = 0 /\ (m + 8) % 4 = 0
      BY <2>2, <3>1
    <3> QED BY <2>2, <2>3, <3>1, <3>2
  <2>4. CASE l < 8 /\ l >= 4
    <3>1. n = 4 /\ (m + 4) % 4 = 0
      BY <2>1, <2>2, <2>4 DEF AccessWidth
    <3> QED BY <2>2, <2>4, <3>1
  <2>5. CASE l < 4
    <3>1. n = l /\ l \in 1 .. 3
      BY <2>2, <2>5 DEF AccessWidth
    <3>2. m + 4 = 4 * ((len + 3) \div 4)
      BY <2>1, <2>2, <3>1
    <3> QED BY <2>2, <2>5, <3>1, <3>2
  <2> QED BY <2>2, <2>3, <2>4, <2>5
<1>9. /\ Padding(r, m, n) \in SUBSET Nat
      /\ ~(l < 4) => Padding(r, m, n) = {}
      /\ \A a \in Padding(r, m, n) :
            /\ a >= d + len
            /\ a - d < 4 * ((len + 3) \div 4)
  <2>1. CASE l < 4
    <3>1. ASSUME NEW k \in l .. 3
          PROVE  /\ (d + m) + k \in Nat
                 /\ (d + m) + k >= d + len
                 /\ ((d + m) + k) - d < m + 4
      BY <1>5, <1>b, <1>c
    <3> QED BY <1>8, <1>c, <2>1, <3>1 DEF Padding
  <2>2. CASE ~(l < 4)
    BY <1>8, <2>2 DEF Padding
  <2> QED BY <2>1, <2>2
<1>10. TypeOK'
  <2>1. Pairs(s + m, d + m, n) \subseteq Nat \X Nat
    BY <1>a, <1>b, <1>c, PairsType
  <2> QED BY <1>1, <1>7, <1>8, <1>9, <2>1 DEF TypeOK
<1>11. /\ req'[c] = r /\ left'[c] = l - n /\ at'[c] = "mmio" /\ reports'[c] = <<>>
       /\ moved'[c] = moved[c] \cup Pairs(s + m, d + m, n)
       /\ padded'[c] = padded[c] \cup Padding(r, m, n)
  BY <1>1, <1>2, <1>3, <1>7 DEF TypeOK
<1>12. Done(c)' = m + n
  BY <1>8, <1>11, <1>b, <1>c DEF Done
<1>13. Prefix(c)'
  <2>1. moved[c] = Pairs(s, d, m)
    BY <1>2, <1>3, <1>6, <1>c DEF Prefix
  <2>2. Pairs(s, d, m) \cup Pairs(s + m, d + m, n)
          = Pairs(s, d, m + n)
    <3>1. s \in Nat /\ d \in Nat /\ m \in Nat /\ n \in Nat
      BY <1>a, <1>b, <1>c
    <3> QED BY <3>1, PairsExtend
  <2> QED BY <1>11, <1>12, <1>c, <2>1, <2>2 DEF Prefix
<1>14. Aligned(c)'
  BY <1>8, <1>11, <1>12, <1>b DEF Aligned
<1>15. PaddingExact(c)'
  <2>1. padded[c] = {}
    BY <1>2, <1>4, <1>5 DEF PaddingExact
  <2>2. l < 4 => left'[c] = 0
    BY <1>5, <1>8, <1>11
  <2> QED BY <1>9, <1>11, <1>c, <2>1, <2>2 DEF PaddingExact
<1>16. Only(c)
  BY <1>1, <1>7 DEF Only, Same, TypeOK
<1>17. CallInv(c)' /\ ~Copying(c)'
  <2>1. left'[c] \in 0 .. req'[c].len
    BY <1>5, <1>8, <1>11, <1>b, <1>c
  <2>2. req'[c].open /\ RegisterCall(c)' /\ (req'[c].op => registered')
    BY <1>2, <1>3, <1>7, <1>11 DEF RegisterCall
  <2> QED BY <1>11, <1>13, <1>14, <1>15, <2>1, <2>2 DEF CallInv, Copying
<1> QED BY <1>1, <1>7, <1>10, <1>16, <1>17, StepFrame

LEMMA MmioEndStep ==
  ASSUME IInv, NEW c \in Calls, MmioFails(c) \/ MmioReturn(c)
  PROVE  IInv'
<1>1. CallInv(c) /\ TypeOK /\ at[c] = "mmio"
  BY DEF IInv, MmioFails, MmioReturn
<1>2. /\ req[c] \in Requests /\ req[c].open /\ RegisterCall(c)
      /\ left[c] \in 0 .. req[c].len
      /\ reports[c] = <<>> /\ Prefix(c) /\ Aligned(c) /\ PaddingExact(c)
      /\ req[c].op => registered
  BY <1>1 DEF CallInv, TypeOK
<1>3. UNCHANGED <<req, left, moved, padded, copyBuffer, queue, handler,
                  registered>>
  BY DEF MmioFails, MmioReturn
<1>4. PICK v \in {0, -1} : /\ Return(c, v, v)
                           /\ v = 0 => left[c] = 0
                           /\ broken' \in [Calls -> BOOLEAN]
                           /\ \A b \in Calls \ {c} : broken'[b] = broken[b]
  <2>1. CASE MmioFails(c)
    <3>1. Return(c, -1, -1) /\ broken' = [broken EXCEPT ![c] = TRUE]
      BY <2>1 DEF MmioFails
    <3> QED BY <1>1, <3>1 DEF TypeOK
  <2>2. CASE MmioReturn(c)
    <3>1. Return(c, 0, 0) /\ broken' = broken /\ left[c] = 0
      BY <2>2 DEF MmioReturn
    <3> QED BY <1>1, <3>1 DEF TypeOK
  <2> QED BY <2>1, <2>2
<1>5. /\ at' \in [Calls -> Places] /\ ret' \in [Calls -> {NULL, 0, -1}]
      /\ reports' \in [Calls -> Seq(Verdicts)]
      /\ at'[c] = "returned"
      /\ ReportedRight(c)' /\ Outcome(c)' = v
      /\ \A b \in Calls \ {c} :
           at'[b] = at[b] /\ ret'[b] = ret[b] /\ reports'[b] = reports[b]
  BY <1>2, <1>3, <1>4, ReturnStep
<1>6. TypeOK'
  BY <1>1, <1>3, <1>4, <1>5 DEF TypeOK, Places, Verdicts
<1>7. Only(c)
  BY <1>3, <1>4, <1>5 DEF Only, Same
<1>8. Prefix(c)' /\ PaddingExact(c)' /\ RegisterCall(c)'
  BY <1>2, <1>3 DEF Prefix, PaddingExact, RegisterCall, Done
<1>9. Delivers(c)'
  <2>1. left[c] = 0 => moved[c] = Bytes(req[c])
    BY <1>2, RequestType DEF Prefix, Done, Bytes
  <2> QED BY <1>2, <1>3, <1>4, <1>5, <2>1 DEF Delivers, RegisterCall, Bytes
<1>10. CallInv(c)' /\ ~Copying(c)'
  BY <1>2, <1>3, <1>5, <1>8, <1>9 DEF CallInv, Over, Copying
<1> QED BY <1>1, <1>3, <1>6, <1>7, <1>10, StepFrame

-----------------------------------------------------------------------------
(***************************************************************************)
(* Copies.                                                                 *)
(***************************************************************************)
LEMMA ChunkType ==
  ASSUME NEW l \in Nat
  PROVE  /\ Chunk(l) \in 0 .. l /\ Chunk(l) \in Nat
         /\ Chunk(l) <= MMD_COPY_BUFFER_SIZE
  BY ApiAssumption DEF Chunk

LEMMA CopyFacts ==
  ASSUME IInv, NEW c \in Calls, Copying(c)
  PROVE  /\ CallInv(c) /\ TypeOK
         /\ req[c] \in Requests /\ req[c].open /\ req[c].fn = "copy"
         /\ left[c] \in 0 .. req[c].len
         /\ reports[c] = <<>> /\ padded[c] = {} /\ Prefix(c)
         /\ req[c].op => registered
         /\ \A b \in Calls \ {c} : ~Copying(b)
<1>1. CallInv(c) /\ TypeOK
  BY DEF IInv
<1>2. \A b \in Calls \ {c} : ~Copying(b)
  BY DEF IInv, OneCopy
<1> QED BY <1>1, <1>2 DEF CallInv, Copying, TypeOK

LEMMA CopyReadStep ==
  ASSUME IInv, NEW c \in Calls, CopyRead(c)
  PROVE  IInv'
<1>1. at[c] = "copy" /\ left[c] # 0 /\ Copying(c)
  BY DEF CopyRead, Copying
<1>2. /\ CallInv(c) /\ TypeOK
      /\ req[c] \in Requests /\ req[c].open /\ req[c].fn = "copy"
      /\ left[c] \in 0 .. req[c].len
      /\ reports[c] = <<>> /\ padded[c] = {} /\ Prefix(c)
      /\ req[c].op => registered
      /\ \A b \in Calls \ {c} : ~Copying(b)
  BY <1>1, CopyFacts
<1>3. /\ copyBuffer' = [i \in DOMAIN copyBuffer |->
             IF i < Chunk(left[c]) THEN req[c].src + Done(c) + i ELSE copyBuffer[i]]
      /\ at' = [at EXCEPT ![c] = "copy_write"]
      /\ UNCHANGED <<req, left, moved, padded, broken, ret, reports, queue,
                     handler, registered>>
  BY DEF CopyRead
<1>4. /\ req[c].src \in Nat /\ req[c].len \in Nat /\ left[c] \in Nat /\ left[c] > 0
      /\ Done(c) \in Nat
      /\ DOMAIN copyBuffer = 0 .. MMD_COPY_BUFFER_SIZE - 1
      /\ MMD_COPY_BUFFER_SIZE \in Nat
  BY <1>1, <1>2, RequestType, ApiAssumption DEF Done, TypeOK
<1>5. TypeOK'
  <2>1. \A i \in 0 .. MMD_COPY_BUFFER_SIZE - 1 :
          copyBuffer'[i] \in {NULL} \cup Nat
    <3> SUFFICES ASSUME NEW i \in 0 .. MMD_COPY_BUFFER_SIZE - 1
                 PROVE  copyBuffer'[i] \in {NULL} \cup Nat
      OBVIOUS
    <3>1. i \in Nat /\ copyBuffer[i] \in {NULL} \cup Nat
      BY <1>2, <1>4 DEF TypeOK
    <3>2. req[c].src + Done(c) + i \in Nat
      BY <1>4, <3>1
    <3>3. copyBuffer'[i] = IF i < Chunk(left[c]) THEN req[c].src + Done(c) + i
                           ELSE copyBuffer[i]
      BY <1>3, <1>4
    <3> QED BY <3>1, <3>2, <3>3
  <2>2. copyBuffer' \in [0 .. MMD_COPY_BUFFER_SIZE - 1 -> {NULL} \cup Nat]
    BY <1>3, <1>4, <2>1
  <2> QED BY <1>2, <1>3, <2>2 DEF TypeOK
<1>6. Buffered(c)'
  <2>1. Chunk(left[c]) <= MMD_COPY_BUFFER_SIZE /\ Chunk(left[c]) \in Nat
    BY <1>4, ChunkType
  <2>2. \A i \in 0 .. Chunk(left[c]) - 1 :
          i \in DOMAIN copyBuffer /\ i < Chunk(left[c])
    BY <1>4, <2>1
  <2>3. \A i \in 0 .. Chunk(left[c]) - 1 :
          copyBuffer'[i] = req[c].src + Done(c) + i
    BY <1>3, <2>2
  <2> QED BY <1>3, <2>3 DEF Buffered, Done, Chunk
<1>7. Only(c) /\ at'[c] = "copy_write"
  BY <1>2, <1>3 DEF Only, Same, TypeOK
<1>8. Prefix(c)'
  BY <1>2, <1>3 DEF Prefix, Done
<1>9. CallInv(c)'
  BY <1>2, <1>3, <1>4, <1>6, <1>7, <1>8 DEF CallInv
<1> QED BY <1>1, <1>2, <1>3, <1>5, <1>7, <1>9, StepFrame

LEMMA CopyWriteStep ==
  ASSUME IInv, NEW c \in Calls, CopyWrite(c)
  PROVE  IInv'
<1>1. at[c] = "copy_write" /\ Copying(c)
  BY DEF CopyWrite, Copying
<1>2. /\ CallInv(c) /\ TypeOK
      /\ req[c] \in Requests /\ req[c].open /\ req[c].fn = "copy"
      /\ left[c] \in 0 .. req[c].len
      /\ reports[c] = <<>> /\ padded[c] = {} /\ Prefix(c)
      /\ req[c].op => registered
      /\ \A b \in Calls \ {c} : ~Copying(b)
  BY <1>1, CopyFacts
<1>3. Buffered(c)
  BY <1>1, <1>2 DEF CallInv
<1>4. PICK s \in Nat, d \in Nat, len \in Nat, l \in Nat :
        s = req[c].src /\ d = req[c].dst /\ len = req[c].len /\ l = left[c]
  BY <1>2, RequestType DEF TypeOK
<1>5. PICK m \in Nat : len = m + l
  <2>1. len - l \in Nat /\ len = (len - l) + l
    BY <1>2, <1>4
  <2> QED BY <2>1
<1>6. PICK n \in 0 .. l : n = Chunk(l)
  BY <1>4, ChunkType
<1>7. Done(c) = m /\ n \in Nat /\ l - n \in Nat
  BY <1>4, <1>5, <1>6 DEF Done
<1>8. /\ moved' = [moved EXCEPT ![c] = @ \cup
            {<<copyBuffer[i], req[c].dst + Done(c) + i>> :
                i \in 0 .. Chunk(left[c]) - 1}]
      /\ left' = [left EXCEPT ![c] = @ - Chunk(@)]
      /\ at' = [at EXCEPT ![c] = "copy"]
      /\ UNCHANGED <<req, padded, broken, ret, reports, copyBuffer, queue,
                     handler, registered>>
  BY DEF CopyWrite
<1>9. {<<copyBuffer[i], req[c].dst + Done(c) + i>> : i \in 0 .. Chunk(left[c]) - 1}
        = Pairs(s + m, d + m, n)
  <2>1. \A i \in 0 .. n - 1 : copyBuffer[i] = (s + m) + i
    BY <1>3, <1>4, <1>6, <1>7 DEF Buffered
  <2> QED BY <1>4, <1>6, <1>7, <2>1 DEF Pairs
<1>10. /\ moved' = [moved EXCEPT ![c] = @ \cup Pairs(s + m, d + m, n)]
       /\ left' = [left EXCEPT ![c] = l - n]
  BY <1>4, <1>6, <1>8, <1>9
<1>11. TypeOK'
  <2>1. Pairs(s + m, d + m, n) \subseteq Nat \X Nat
    <3>1. s + m \in Nat /\ d + m \in Nat
      BY <1>4, <1>5
    <3>2. n \in Nat
      BY <1>7
    <3> QED BY <3>1, <3>2, PairsType
  <2>2. moved' \in [Calls -> SUBSET (Nat \X Nat)]
    <3>1. moved \in [Calls -> SUBSET (Nat \X Nat)]
      BY <1>2 DEF TypeOK
    <3>2. moved[c] \cup Pairs(s + m, d + m, n) \in SUBSET (Nat \X Nat)
      BY <2>1, <3>1
    <3> QED BY <1>10, <3>1, <3>2
  <2>3. left' \in [Calls -> Nat]
    BY <1>2, <1>7, <1>10 DEF TypeOK
  <2>4. at' \in [Calls -> Places]
    BY <1>2, <1>8 DEF TypeOK, Places
  <2> QED BY <1>2, <1>8, <2>2, <2>3, <2>4 DEF TypeOK, Places
<1>12. /\ left'[c] = l - n /\ at'[c] = "copy"
       /\ moved'[c] = moved[c] \cup Pairs(s + m, d + m, n)
  BY <1>2, <1>8, <1>10 DEF TypeOK
<1>13. /\ Done(c)' = m + n
       /\ left'[c] \in 0 .. req'[c].len
  <2>1. req' = req /\ req'[c].len = len
    BY <1>4, <1>8
  <2>2. left'[c] = l - n /\ n \in 0 .. l /\ l \in Nat
    BY <1>4, <1>6, <1>12
  <2>3. len - (l - n) = m + n /\ l - n \in 0 .. len
    BY <1>5, <2>2
  <2>4. Done(c)' = req'[c].len - left'[c]
    BY DEF Done
  <2> QED BY <2>1, <2>2, <2>3, <2>4
<1>14. Prefix(c)'
  <2>1. moved[c] = Pairs(s, d, m)
    BY <1>2, <1>4, <1>7 DEF Prefix
  <2>2. Pairs(s, d, m) \cup Pairs(s + m, d + m, n) = Pairs(s, d, m + n)
    <3>1. s \in Nat /\ d \in Nat /\ m \in Nat /\ n \in Nat
      BY <1>4, <1>5, <1>7
    <3> QED BY <3>1, PairsExtend
  <2> QED BY <1>4, <1>8, <1>12, <1>13, <2>1, <2>2 DEF Prefix
<1>15. Only(c)
  BY <1>2, <1>8, <1>10 DEF Only, Same, TypeOK
<1>16. CallInv(c)'
  BY <1>2, <1>8, <1>12, <1>13, <1>14 DEF CallInv
<1> QED BY <1>1, <1>2, <1>8, <1>11, <1>15, <1>16, StepFrame

LEMMA CopyEndStep ==
  ASSUME IInv, NEW c \in Calls, CopyFails(c) \/ CopyReturn(c)
  PROVE  IInv'
<1>1. Copying(c) /\ at[c] # "queued"
  BY DEF CopyFails, CopyReturn, Copying
<1>2. /\ CallInv(c) /\ TypeOK
      /\ req[c] \in Requests /\ req[c].open /\ req[c].fn = "copy"
      /\ left[c] \in 0 .. req[c].len
      /\ reports[c] = <<>> /\ padded[c] = {} /\ Prefix(c)
      /\ req[c].op => registered
  BY <1>1, CopyFacts
<1>3. /\ Return(c, 0, 0)
      /\ UNCHANGED <<req, left, moved, padded, copyBuffer, queue, handler,
                     registered>>
  BY DEF CopyFails, CopyReturn
<1>4. /\ broken' \in [Calls -> BOOLEAN]
      /\ \A b \in Calls \ {c} : broken'[b] = broken[b]
      /\ broken'[c] \/ left[c] = 0
  <2>1. CASE CopyFails(c)
    <3>1. broken' = [broken EXCEPT ![c] = TRUE]
      BY <2>1 DEF CopyFails
    <3> QED BY <1>2, <3>1 DEF TypeOK
  <2>2. CASE CopyReturn(c)
    BY <1>2, <2>2 DEF CopyReturn, TypeOK
  <2> QED BY <2>1, <2>2
<1>5. /\ at' \in [Calls -> Places] /\ ret' \in [Calls -> {NULL, 0, -1}]
      /\ reports' \in [Calls -> Seq(Verdicts)]
      /\ at'[c] = "returned" /\ ret'[c] = 0
      /\ ReportedRight(c)'
      /\ \A b \in Calls \ {c} :
           at'[b] = at[b] /\ ret'[b] = ret[b] /\ reports'[b] = reports[b]
  BY <1>2, <1>3, ReturnStep
<1>6. TypeOK'
  BY <1>2, <1>3, <1>4, <1>5 DEF TypeOK, Places, Verdicts
<1>7. Only(c)
  BY <1>3, <1>4, <1>5 DEF Only, Same
<1>8. Delivers(c)'
  <2>1. left[c] = 0 => moved[c] = Bytes(req[c])
    BY <1>2, RequestType DEF Prefix, Done, Bytes
  <2>2. moved'[c] = Pairs(req'[c].src, req'[c].dst, Done(c)')
    BY <1>2, <1>3 DEF Prefix, Done
  <2>3. broken'[c] \/ moved'[c] = Bytes(req'[c])
    BY <1>3, <1>4, <2>1
  <2>4. req'[c].fn = "copy"
    BY <1>2, <1>3
  <2> QED BY <2>2, <2>3, <2>4 DEF Delivers, Bytes
<1>9. CallInv(c)' /\ ~Copying(c)'
  BY <1>2, <1>3, <1>5, <1>8 DEF CallInv, Over, Copying, RegisterCall
<1> QED BY <1>1, <1>3, <1>6, <1>7, <1>9, StepFrame

LEMMA CopyRefusedStep ==
  ASSUME IInv, NEW c \in Calls, CopyRefused(c)
  PROVE  IInv'
<1>1. /\ CallInv(c) /\ TypeOK /\ at[c] = "refused"
      /\ Return(c, -1, 0)
      /\ UNCHANGED <<req, left, moved, padded, broken, copyBuffer, queue,
                     handler, registered>>
  BY DEF IInv, CopyRefused
<1>2. /\ req[c] \in Requests /\ req[c].open /\ req[c].fn = "copy"
      /\ Untouched(c) /\ left[c] = req[c].len /\ left[c] \in 0 .. req[c].len
      /\ req[c].op => registered
  BY <1>1 DEF CallInv
<1>3. /\ at' \in [Calls -> Places] /\ ret' \in [Calls -> {NULL, 0, -1}]
      /\ reports' \in [Calls -> Seq(Verdicts)]
      /\ at'[c] = "returned" /\ ret'[c] = -1
      /\ ReportedRight(c)'
      /\ \A b \in Calls \ {c} :
           at'[b] = at[b] /\ ret'[b] = ret[b] /\ reports'[b] = reports[b]
  BY <1>1, <1>2, ReturnStep DEF Untouched
<1>4. TypeOK'
  BY <1>1, <1>3 DEF TypeOK, Places, Verdicts
<1>5. Only(c)
  BY <1>1, <1>3 DEF Only, Same
<1>6. Delivers(c)'
  <2>1. Done(c)' = 0
    BY <1>1, <1>2, RequestType DEF Done
  <2>2. moved'[c] = Pairs(req'[c].src, req'[c].dst, 0)
    BY <1>1, <1>2, RequestType, NoPairs DEF Untouched
  <2>3. ret'[c] # 0 /\ req'[c].fn = "copy"
    BY <1>1, <1>2, <1>3
  <2> QED BY <2>1, <2>2, <2>3 DEF Delivers
<1>7. CallInv(c)' /\ ~Copying(c)'
  BY <1>1, <1>2, <1>3, <1>6 DEF CallInv, Over, Copying, RegisterCall
<1> QED BY <1>1, <1>4, <1>5, <1>7, StepFrame

-----------------------------------------------------------------------------
(***************************************************************************)
(* Invariance.                                                             *)
(***************************************************************************)
LEMMA StepInv ==
  ASSUME IInv, [Next]_vars
  PROVE  IInv'
<1>1. CASE (\E h \in Handlers : SetStatusHandler(h)) \/ Program
  BY <1>1, HandlerStep
<1>2. ASSUME NEW c \in Calls, NEW r \in Requests, Start(c, r)
      PROVE  IInv'
  BY <1>2, StartStep
<1>3. ASSUME NEW c \in Calls, Step(c)
      PROVE  IInv'
  BY <1>3, BlockingStep, MmioAccessStep, MmioEndStep, CopyReadStep,
     CopyWriteStep, CopyEndStep, CopyRefusedStep DEF Step
<1>4. ASSUME NEW d \in Dirs, NEW ok \in BOOLEAN, Worker(d, ok)
      PROVE  IInv'
  BY <1>4, WorkerStep
<1>5. CASE UNCHANGED vars
  <2>1. UNCHANGED <<req, at, left, moved, padded, broken, ret, reports,
                    copyBuffer, queue, handler, registered>>
    BY <1>5 DEF vars, callVars
  <2>2. ASSUME NEW c \in Calls PROVE CallInv(c)'
    BY <2>1, CallFrame DEF IInv, Same
  <2>3. TypeOK' /\ QueueInv' /\ OneCopy' /\ HandlersThere'
    BY <2>1 DEF IInv, TypeOK, QueueInv, OneCopy, Copying, HandlersThere
  <2> QED BY <2>2, <2>3 DEF IInv
<1> QED BY <1>1, <1>2, <1>3, <1>4, <1>5 DEF Next, Finished

\* Where each data call is and what it has done so far (mmd.cpp:1186-1330,
\* mmd_device.cpp:1040-1270), for any calls, requests and handlers and any
\* size of mmd_copy_buffer.
THEOREM ApiInvariance == Spec => []IInv
<1>1. Init => IInv
  BY InitInv
<1>2. IInv /\ [Next]_vars => IInv'
  BY StepInv
<1> QED BY <1>1, <1>2, PTL DEF Spec

\* size and bytes_left, which are unsigned, never go below 0 in read_mmio,
\* write_mmio and copy_block.
THEOREM ApiTypes == Spec => []TypeOK
<1>1. IInv => TypeOK
  BY DEF IInv
<1> QED BY <1>1, ApiInvariance, PTL

\* A write or read that ends with status 0 has moved its bytes and no others,
\* a copy a prefix of its bytes (mmd.cpp:1214, 1262, 1308).
THEOREM CallsAlwaysDeliver == Spec => []CallsDeliver
<1>1. IInv => CallsDeliver
  <2> SUFFICES ASSUME IInv, NEW c \in Calls PROVE Delivers(c)
    BY DEF CallsDeliver
  <2>1. CallInv(c)
    BY DEF IInv
  <2> QED BY <2>1 DEF CallInv, Over, Delivers
<1> QED BY <1>1, ApiInvariance, PTL

\* Registers are accessed in order, aligned, and a write zeroes no more than
\* what completes its last register (mmd_device.cpp:1143, 1211).
THEOREM RegistersExact == Spec => []MmioExact
<1>1. IInv => MmioExact
  <2> SUFFICES ASSUME IInv, NEW c \in Calls, req[c] # NULL, RegisterCall(c)
               PROVE  /\ Prefix(c)
                      /\ at[c] = "mmio" => Aligned(c)
                      /\ PaddingExact(c)
    BY DEF MmioExact, RegisterCall, Prefix, Aligned, PaddingExact
  <2>1. CallInv(c) /\ at[c] \in Places
    BY DEF IInv, TypeOK, Places
  <2>2. at[c] \in {"mmio", "returned"}
    BY <2>1 DEF CallInv, RegisterCall, Places
  <2> QED BY <2>1, <2>2 DEF CallInv, Over
<1> QED BY <1>1, ApiInvariance, PTL

\* A call is reported at most once, to a handler of the host, and by its end
\* if it has an operation and a device (mmd.cpp:1186-1193).
THEOREM ReportedOnce == Spec => []OneReport
<1>1. IInv => OneReport
  <2> SUFFICES ASSUME IInv, NEW c \in Calls
               PROVE  /\ Len(reports[c]) <= 1
                      /\ \A i \in 1 .. Len(reports[c]) :
                           req[c].op /\ reports[c][i][1] \in Handlers
                      /\ (at[c] = "returned" /\ req[c].op /\ req[c].open)
                            => reports[c] # <<>>
    BY DEF OneReport
  <2>1. CallInv(c) /\ at[c] \in Places
    BY DEF IInv, TypeOK, Places
  <2>2. CASE at[c] = "returned"
    BY <2>1, <2>2 DEF CallInv, Over, ReportedRight
  <2>3. CASE at[c] # "returned"
    <3>1. reports[c] = <<>>
      BY <2>1, <2>3 DEF CallInv, Untouched, Places
    <3>2. Len(reports[c]) = 0
      BY <3>1
    <3> QED BY <2>3, <3>2
  <2> QED BY <2>2, <2>3
<1> QED BY <1>1, ApiInvariance, PTL

-----------------------------------------------------------------------------
(***************************************************************************)
(* What OpsAnswered rests on: a distance to the end of a call that no step *)
(* makes longer, and every step of the call, or of the work thread in      *)
(* whose queue it waits, shorter.  A running call always has a step: the   *)
(* guards of Step(c) leave none of its places out.                         *)
(***************************************************************************)
\* Steps to the end of a call: a chunk takes two, and one is left to return.
ToReturn(c) ==
  IF Running(c) THEN 2 * left[c] + (IF at[c] = "copy_write" THEN 1 ELSE 2) ELSE 0

\* Call c is the k-th in the queue of its direction.
InLine(c, k) ==
  /\ at[c] = "queued"
  /\ k \in 1 .. Len(queue[Dir(req[c])])
  /\ queue[Dir(req[c])][k] = c

Served(c) == at[c] = "returned" /\ reports[c] # <<>>

QueuedInv == \A c \in Calls : at[c] = "queued" => \E k \in Nat : InLine(c, k)

RunProgress(c) ==
  Running(c) => /\ ToReturn(c)' <= ToReturn(c)
                /\ Step(c) => ToReturn(c)' < ToReturn(c)

LineProgress(c, k) ==
  InLine(c, k) =>
    /\ InLine(c, k)' \/ (k > 1 /\ InLine(c, k - 1)') \/ (k = 1 /\ Served(c)')
    /\ (\E ok \in BOOLEAN : Worker(Dir(req[c]), ok)) => ~InLine(c, k)'

CallProgress ==
  \A c \in Calls :
    /\ RunProgress(c)
    /\ at[c] = "queued" => \E k \in Nat : InLine(c, k)
    /\ \A k \in Nat : LineProgress(c, k)

\* The variables of a call that its distance depends on.
LEMMA ProgressTypes ==
  ASSUME IInv
  PROVE  /\ at \in [Calls -> Places] /\ left \in [Calls -> Nat]
         /\ queue \in [Dirs -> Seq(Calls)] /\ reports \in [Calls -> Seq(Verdicts)]
         /\ \A c \in Calls : at[c] # "new" => req[c] \in Requests
         /\ \A c \in Calls : Dir(req[c]) \in Dirs
<1>1. TypeOK /\ \A c \in Calls : CallInv(c)
  BY DEF IInv
<1> QED BY <1>1 DEF TypeOK, Places, Verdicts, CallInv, Dir, Dirs

\* Each step of a call is one towards its end.
LEMMA StepNearer ==
  ASSUME IInv, NEW c \in Calls, Step(c)
  PROVE  Running(c) /\ ToReturn(c)' < ToReturn(c) /\ ToReturn(c)' <= ToReturn(c)
<1>1. at \in [Calls -> Places] /\ left \in [Calls -> Nat] /\ left[c] \in Nat
  BY ProgressTypes
<1> USE DEF ToReturn, Running
<1>2. CASE at'[c] = "returned" /\ Running(c)
  <2>1. ToReturn(c)' = 0 /\ (ToReturn(c) = 2 * left[c] + 1 \/ ToReturn(c) = 2 * left[c] + 2)
    BY <1>2
  <2> QED BY <1>1, <1>2, <2>1
<1>3. CASE \/ \E ok \in BOOLEAN : BlockingDma(c, ok)
           \/ MmioFails(c) \/ MmioReturn(c) \/ CopyFails(c) \/ CopyReturn(c) \/ CopyRefused(c)
  <2>1. at'[c] = "returned" /\ Running(c)
    BY <1>1, <1>3 DEF BlockingDma, MmioFails, MmioReturn, CopyFails, CopyReturn, CopyRefused, Return
  <2> QED BY <1>2, <2>1
<1>4. CASE MmioAccess(c)
  <2> DEFINE n == AccessWidth(left[c])
  <2>1. n \in 1 .. left[c]
    BY <1>1, <1>4 DEF MmioAccess, AccessWidth
  <2>2. at[c] = "mmio" /\ at' = at /\ left'[c] = left[c] - n
    BY <1>1, <1>4 DEF MmioAccess
  <2> HIDE DEF n
  <2>3. ToReturn(c) = 2 * left[c] + 2 /\ ToReturn(c)' = 2 * (left[c] - n) + 2
    BY <2>2
  <2> QED BY <1>1, <2>1, <2>2, <2>3
<1>5. CASE CopyRead(c)
  <2>1. at[c] = "copy" /\ at'[c] = "copy_write" /\ left' = left
    BY <1>1, <1>5 DEF CopyRead
  <2>2. ToReturn(c) = 2 * left[c] + 2 /\ ToReturn(c)' = 2 * left[c] + 1
    BY <2>1
  <2> QED BY <1>1, <2>1, <2>2
<1>6. CASE CopyWrite(c)
  <2> DEFINE n == Chunk(left[c])
  <2>1. at[c] = "copy_write" /\ at'[c] = "copy" /\ left'[c] = left[c] - n
    BY <1>1, <1>6 DEF CopyWrite
  <2>2. left[c] > 0
    BY <2>1 DEF IInv, CallInv
  <2>3. n \in 1 .. left[c]
    BY <1>1, <2>2, ApiAssumption DEF Chunk
  <2> HIDE DEF n
  <2>4. ToReturn(c) = 2 * left[c] + 1 /\ ToReturn(c)' = 2 * (left[c] - n) + 2
    BY <2>1
  <2> QED BY <1>1, <2>1, <2>3, <2>4
<1> QED BY <1>3, <1>4, <1>5, <1>6 DEF Step

\* A step of call b changes the place of b only.
LEMMA StepIsLocal ==
  ASSUME IInv, NEW b \in Calls, Step(b)
  PROVE  /\ at[b] # "queued" /\ UNCHANGED <<req, queue>>
         /\ \A c \in Calls \ {b} : at'[c] = at[c] /\ left'[c] = left[c]
<1>1. at \in [Calls -> Places] /\ left \in [Calls -> Nat]
  BY ProgressTypes
<1>2. CASE \E ok \in BOOLEAN : BlockingDma(b, ok)
  BY <1>1, <1>2 DEF BlockingDma
<1>3. CASE MmioAccess(b) \/ CopyRead(b) \/ CopyWrite(b)
  BY <1>1, <1>3 DEF MmioAccess, CopyRead, CopyWrite
<1>4. CASE MmioFails(b) \/ MmioReturn(b) \/ CopyFails(b) \/ CopyReturn(b) \/ CopyRefused(b)
  BY <1>1, <1>4 DEF MmioFails, MmioReturn, CopyFails, CopyReturn, CopyRefused, Return
<1> QED BY <1>2, <1>3, <1>4 DEF Step

\* What a work thread ends: the first call of its queue.
LEMMA WorkerMoves ==
  ASSUME IInv, NEW d \in Dirs, NEW ok \in BOOLEAN, Worker(d, ok)
  PROVE  \E b \in Calls :
           /\ queue[d] # <<>> /\ b = queue[d][1] /\ InLine(b, 1) /\ Dir(req[b]) = d
           /\ Served(b)'
           /\ UNCHANGED <<req, left>>
           /\ \A c \in Calls \ {b} : at'[c] = at[c]
           /\ queue' = [queue EXCEPT ![d] = Tail(queue[d])]
<1>1. /\ at \in [Calls -> Places] /\ queue[d] \in Seq(Calls)
      /\ reports \in [Calls -> Seq(Verdicts)]
  BY ProgressTypes
<1>2. PICK b \in Calls : b = Head(queue[d]) /\ queue[d] # <<>>
  BY <1>1 DEF Worker
<1>3. b = queue[d][1] /\ 1 \in 1 .. Len(queue[d])
  BY <1>1, <1>2
<1>4. at[b] = "queued" /\ Dir(req[b]) = d
  BY <1>3 DEF IInv, QueueInv
<1>5. /\ at' = [at EXCEPT ![b] = "returned"]
      /\ reports' = [reports EXCEPT ![b] = Append(reports[b], <<handler[d], IF ok THEN 0 ELSE -1>>)]
      /\ queue' = [queue EXCEPT ![d] = Tail(queue[d])]
      /\ UNCHANGED <<req, left>>
  BY <1>2 DEF Worker, Report
<1>6. reports'[b] # <<>>
  <2>1. reports[b] = <<>>
    BY <1>4 DEF IInv, CallInv, Untouched
  <2>2. \A v : Append(<<>>, v) # <<>>
    OBVIOUS
  <2> QED BY <1>1, <1>5, <2>1, <2>2
<1>7. at'[b] = "returned" /\ \A c \in Calls \ {b} : at'[c] = at[c]
  BY <1>1, <1>5
<1> QED BY <1>2, <1>3, <1>4, <1>5, <1>6, <1>7 DEF InLine, Served

\* A call in the queue stays in line, and moves up with each that is ended.
LEMMA LineStep ==
  ASSUME IInv, [Next]_vars, NEW c \in Calls, NEW k \in Nat, InLine(c, k)
  PROVE  /\ InLine(c, k)' \/ (k > 1 /\ InLine(c, k - 1)') \/ (k = 1 /\ Served(c)')
         /\ (\E ok \in BOOLEAN : Worker(Dir(req[c]), ok)) => ~InLine(c, k)'
<1> DEFINE d == Dir(req[c])
<1>1. /\ d \in Dirs /\ queue \in [Dirs -> Seq(Calls)] /\ queue[d] \in Seq(Calls)
      /\ at[c] = "queued" /\ k \in 1 .. Len(queue[d]) /\ queue[d][k] = c
      /\ at \in [Calls -> Places] /\ req \in [Calls -> {NULL} \cup Requests]
  BY ProgressTypes DEF InLine, IInv, TypeOK
<1> HIDE DEF d
<1>2. ASSUME NEW ok \in BOOLEAN, Worker(d, ok)
      PROVE  ~InLine(c, k)' /\ ((k > 1 /\ InLine(c, k - 1)') \/ (k = 1 /\ Served(c)'))
  <2>1. PICK b \in Calls :
          /\ queue[d] # <<>> /\ b = queue[d][1]
          /\ Served(b)' /\ UNCHANGED <<req, left>>
          /\ \A e \in Calls \ {b} : at'[e] = at[e]
          /\ queue' = [queue EXCEPT ![d] = Tail(queue[d])]
    BY <1>1, <1>2, WorkerMoves
  <2>2. d' = d /\ queue'[d] = Tail(queue[d])
    BY <1>1, <2>1 DEF d
  <2>3. CASE b = c
    <3>1. 1 \in 1 .. Len(queue[d]) /\ queue[d][1] = queue[d][k]
      BY <1>1, <2>1, <2>3
    <3>2. k = 1
      BY <1>1, <3>1 DEF IInv, QueueInv
    <3> QED BY <2>1, <2>3, <3>2 DEF InLine, Served
  <2>4. CASE b # c
    <3>1. k # 1 /\ at'[c] = "queued"
      BY <1>1, <2>1, <2>4
    <3>2. /\ Len(Tail(queue[d])) = Len(queue[d]) - 1
          /\ \A j \in 1 .. Len(queue[d]) - 1 : Tail(queue[d])[j] = queue[d][j + 1]
      BY <1>1, <2>1
    <3>3. k - 1 \in 1 .. Len(queue'[d]) /\ queue'[d][k - 1] = c
      BY <1>1, <2>2, <3>1, <3>2
    <3>4. InLine(c, k - 1)'
      BY <2>1, <3>1, <3>3 DEF InLine, d
    <3>5. ~InLine(c, k)'
      <4>1. SUFFICES ASSUME k \in 1 .. Len(queue'[d]), queue'[d][k] = c PROVE FALSE
        BY <2>1 DEF InLine, d
      <4>2. k + 1 \in 1 .. Len(queue[d]) /\ queue[d][k + 1] = c
        BY <1>1, <2>2, <3>2, <4>1
      <4>3. k + 1 = k
        BY <1>1, <4>2 DEF IInv, QueueInv
      <4> QED BY <1>1, <4>3
    <3> QED BY <1>1, <3>1, <3>4, <3>5
  <2> QED BY <2>3, <2>4
<1>3. ASSUME NEW e \in Dirs \ {d}, NEW ok \in BOOLEAN, Worker(e, ok)
      PROVE  InLine(c, k)'
  <2>1. PICK b \in Calls :
          /\ Dir(req[b]) = e /\ UNCHANGED <<req, left>>
          /\ \A a \in Calls \ {b} : at'[a] = at[a]
          /\ queue' = [queue EXCEPT ![e] = Tail(queue[e])]
    BY <1>3, WorkerMoves
  <2>2. b # c /\ queue'[d] = queue[d]
    BY <1>1, <2>1 DEF d
  <2> QED BY <1>1, <2>1, <2>2 DEF InLine, d
<1>4. ASSUME NEW b \in Calls, Step(b) PROVE InLine(c, k)'
  <2>1. b # c /\ UNCHANGED <<req, queue>> /\ at'[c] = at[c]
    BY <1>1, <1>4, StepIsLocal
  <2> QED BY <1>1, <2>1 DEF InLine, d
<1>5. ASSUME NEW b \in Calls, NEW r \in Requests, Start(b, r) PROVE InLine(c, k)'
  <2>1. Only(b) /\ at[b] = "new"
    BY <1>5, StartTypes
  <2>2. b # c /\ at'[c] = at[c] /\ req'[c] = req[c]
    BY <1>1, <2>1 DEF Only, Same
  <2>3. queue' = queue \/ \E e \in Dirs : queue' = [queue EXCEPT ![e] = Append(queue[e], b)]
    BY <1>5 DEF Start, StartUnknown, StartQueued, StartBlocking, StartMmio, StartCopy, Dir, Dirs
  <2>4. queue'[d] = queue[d] \/ queue'[d] = Append(queue[d], b)
    BY <1>1, <2>3
  <2>5. k \in 1 .. Len(queue'[d]) /\ queue'[d][k] = c
    BY <1>1, <2>4
  <2> QED BY <1>1, <2>2, <2>5 DEF InLine, d
<1>6. ASSUME UNCHANGED <<req, at, queue>> PROVE InLine(c, k)'
  <2>1. req'[c] = req[c] /\ at'[c] = at[c] /\ queue'[d] = queue[d]
    BY <1>6
  <2> QED BY <1>1, <2>1 DEF InLine, d
<1>7. ASSUME \/ \E h \in Handlers : SetStatusHandler(h)
             \/ Program \/ Finished \/ UNCHANGED vars
      PROVE  InLine(c, k)'
  BY <1>6, <1>7 DEF SetStatusHandler, Program, Finished, vars, callVars
<1>8. ASSUME \E ok \in BOOLEAN : Worker(d, ok)
      PROVE  ~InLine(c, k)' /\ ((k > 1 /\ InLine(c, k - 1)') \/ (k = 1 /\ Served(c)'))
  BY <1>2, <1>8
<1>9. ASSUME ~ \E ok \in BOOLEAN : Worker(d, ok)
      PROVE  InLine(c, k)'
  <2>1. ASSUME NEW e \in Dirs, NEW ok \in BOOLEAN, Worker(e, ok) PROVE InLine(c, k)'
    BY <1>3, <1>9, <2>1
  <2>2. CASE \E e \in Dirs, ok \in BOOLEAN : Worker(e, ok)
    BY <2>1, <2>2
  <2>3. CASE \E b \in Calls : Step(b) \/ \E r \in Requests : Start(b, r)
    BY <1>4, <1>5, <2>3
  <2> QED BY <1>7, <2>2, <2>3 DEF Next
<1> QED BY <1>8, <1>9 DEF d

\* A running call is only moved by its own steps.
LEMMA RunStep ==
  ASSUME IInv, [Next]_vars, NEW c \in Calls
  PROVE  RunProgress(c)
<1> SUFFICES ASSUME Running(c)
             PROVE  /\ ToReturn(c)' <= ToReturn(c)
                    /\ Step(c) => ToReturn(c)' < ToReturn(c)
  BY DEF RunProgress
<1>1. CASE Step(c)
  BY <1>1, StepNearer
<1>2. CASE ~Step(c)
  <2>1. at[c] # "new" /\ at[c] # "queued" /\ left[c] \in Nat
    BY ProgressTypes DEF Running
  <2>2. at'[c] = at[c] /\ left'[c] = left[c]
    <3>1. ASSUME NEW b \in Calls, Step(b) PROVE at'[c] = at[c] /\ left'[c] = left[c]
      BY <1>2, <3>1, StepIsLocal
    <3>2. ASSUME NEW b \in Calls, NEW r \in Requests, Start(b, r)
          PROVE  at'[c] = at[c] /\ left'[c] = left[c]
      BY <2>1, <3>2, StartTypes DEF Only, Same
    <3>3. ASSUME NEW d \in Dirs, NEW ok \in BOOLEAN, Worker(d, ok)
          PROVE  at'[c] = at[c] /\ left'[c] = left[c]
      BY <2>1, <3>3, WorkerMoves DEF InLine
    <3>4. CASE \/ \E h \in Handlers : SetStatusHandler(h)
               \/ Program \/ Finished \/ UNCHANGED vars
      BY <3>4 DEF SetStatusHandler, Program, Finished, vars, callVars
    <3> QED BY <3>1, <3>2, <3>3, <3>4 DEF Next
  <2>3. ToReturn(c)' = ToReturn(c) /\ ToReturn(c) \in Int
    BY <2>1, <2>2 DEF ToReturn, Running
  <2> QED BY <1>2, <2>3
<1> QED BY <1>1, <1>2

\* Only an accepted call is queued, and it is queued at the end.
LEMMA QueuedStep ==
  ASSUME IInv, QueuedInv, [Next]_vars
  PROVE  QueuedInv'
<1> SUFFICES ASSUME NEW c \in Calls, at'[c] = "queued"
             PROVE  \E k \in Nat : InLine(c, k)'
  BY DEF QueuedInv
<1>1. CASE at[c] = "queued"
  <2>1. PICK k \in Nat : InLine(c, k)
    BY <1>1 DEF QueuedInv
  <2>2. InLine(c, k)' \/ (k > 1 /\ InLine(c, k - 1)') \/ (k = 1 /\ Served(c)')
    BY <2>1, LineStep
  <2>3. ~Served(c)'
    BY DEF Served
  <2>4. k > 1 => k - 1 \in Nat
    OBVIOUS
  <2> QED BY <2>2, <2>3, <2>4
<1>2. CASE at[c] # "queued"
  <2>1. /\ at \in [Calls -> Places] /\ queue \in [Dirs -> Seq(Calls)]
        /\ req \in [Calls -> {NULL} \cup Requests]
    BY ProgressTypes DEF IInv, TypeOK
  <2>2. ASSUME NEW b \in Calls, Step(b) PROVE FALSE
    <3>1. CASE b = c
      <4>1. at'[c] # "queued"
        BY <2>1, <2>2, <3>1, <1>2
        DEF Step, BlockingDma, MmioAccess, MmioFails, MmioReturn, CopyRead, CopyWrite, CopyFails,
            CopyReturn, CopyRefused, Return
      <4> QED BY <4>1
    <3>2. CASE b # c
      BY <1>2, <2>2, <3>2, StepIsLocal
    <3> QED BY <3>1, <3>2
  <2>3. ASSUME NEW d \in Dirs, NEW ok \in BOOLEAN, Worker(d, ok) PROVE FALSE
    <3>1. PICK b \in Calls : Served(b)' /\ \A e \in Calls \ {b} : at'[e] = at[e]
      BY <2>3, WorkerMoves
    <3> QED BY <1>2, <3>1 DEF Served
  <2>4. ~(\/ \E h \in Handlers : SetStatusHandler(h)
          \/ Program \/ Finished \/ UNCHANGED vars)
    BY <1>2 DEF SetStatusHandler, Program, Finished, vars, callVars
  <2>5. PICK b \in Calls, r \in Requests : Start(b, r)
    BY <2>2, <2>3, <2>4 DEF Next
  <2>6. b = c
    BY <1>2, <2>5, StartTypes DEF Only, Same
  <2>7. StartQueued(c, r) /\ req' = [req EXCEPT ![c] = r]
    BY <2>1, <2>5, <2>6 DEF Start, StartUnknown, StartQueued, StartBlocking, StartMmio, StartCopy
  <2>8. Dir(r) \in Dirs /\ queue[Dir(r)] \in Seq(Calls) /\ req'[c] = r
    BY <2>1, <2>7 DEF Dir, Dirs
  <2>9. queue'[Dir(r)] = Append(queue[Dir(r)], c)
    BY <2>1, <2>7, <2>8 DEF StartQueued
  <2>10. PICK k \in Nat : k = Len(queue[Dir(r)]) + 1
    BY <2>8
  <2>11. k \in 1 .. Len(queue'[Dir(r)]) /\ queue'[Dir(r)][k] = c
    BY <2>8, <2>9, <2>10
  <2>12. InLine(c, k)'
    BY <2>8, <2>11 DEF InLine
  <2> QED BY <2>12
<1> QED BY <1>1, <1>2

(***************************************************************************)
(* Every call comes nearer to its end with every step of its own, and a    *)
(* queued one with every transfer its work thread ends: it is in the queue *)
(* of its direction, nobody overtakes it, and when it is the first it is   *)
(* ended and reported.  No step of another call takes any of them further  *)
(* away.  With fairness of the threads this is OpsAnswered.                *)
(***************************************************************************)
THEOREM CallsApproached == Spec => [][CallProgress]_vars
<1>1. Init => QueuedInv
  BY DEF Init, QueuedInv
<1>2. IInv /\ QueuedInv /\ [Next]_vars => QueuedInv'
  BY QueuedStep
<1>3. IInv /\ QueuedInv /\ [Next]_vars => [CallProgress]_vars
  BY LineStep, RunStep DEF CallProgress, LineProgress, QueuedInv
<1> QED BY <1>1, <1>2, <1>3, ApiInvariance, PTL DEF Spec
===============================================================================
