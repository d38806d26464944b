---------------------------- MODULE EventLogProofs ----------------------------
(***************************************************************************)
(* What holds of the events file for every size of it, every number of     *)
(* events and of threads, and every length of an answer.                   *)
(***************************************************************************)
EXTENDS EventLog, SequenceTheorems, TLAPS

\* What is in the file, or held in the buffer of trim_eventfile() to go back to it.
Holds(c) == \/ \E j \in DOMAIN file : file[j] = c
            \/ \E j \in DOMAIN buf : buf[j] = c

\* What is held has been logged, and the message of an event half written is not yet.
Pending ==
    /\ \A t \in Threads : writing[t] <= n
    /\ \A t, u \in Threads : writing[t] = writing[u] /\ writing[t] # 0 => t = u
    /\ \A j \in DOMAIN file : file[j][1] <= n
    /\ \A j \in DOMAIN buf : buf[j][1] <= n
    /\ \A t \in Threads : writing[t] # 0 => ~ Holds(<<writing[t], "message">>)

\* The buffer is a copy of what is before the position, until the file is truncated.
Trimming ==
    /\ pos <= Len(file)
    /\ Apart(file) /\ Apart(buf)
    /\ trim \in {"no", "report"} => buf = <<>>
    /\ trim = "read" => /\ Len(buf) <= Keep
                        /\ \A j \in DOMAIN buf : \E k \in 1 .. pos : buf[j] = file[k]
    /\ trim = "write" => \A j \in DOMAIN buf : \A k \in DOMAIN file : buf[j] # file[k]

\* The slot d lines behind, or e lines ahead of the index.
Behind(d) == IF i >= d THEN i - d ELSE i - d + NLE
Ahead(e)  == IF i + e >= NLE THEN i + e - NLE ELSE i + e

\* While lines are read the last NLE of them are behind the index; while they are
\* sent the next ones are ahead of it.
Ring ==
    /\ reader = "read" =>
          /\ nrec = Len(read) /\ answer = <<>>
          /\ nrec < NLE => i = nrec
          /\ nrec = NLE => i = 0
          /\ \A d \in 1 .. NLE : d <= nrec => le[Behind(d)] = read[nrec - d + 1]
    /\ reader = "send" =>
          /\ nrec = Len(read) - Last /\ Len(answer) <= nrec
          /\ \A e \in 0 .. NLE - 1 : Len(answer) + e < nrec
                => le[Ahead(e)] = read[Last + Len(answer) + e + 1]
          /\ LastLines

IInv == TypeOK /\ Pending /\ Trimming /\ Ring

-----------------------------------------------------------------------------
(* Appending *)

\* What Append adds at the end, and nothing else.
LEMMA Appended ==
    ASSUME TypeOK, NEW s \in Seq(Chunk), Appends(s)
    PROVE  /\ file' \in Seq(Chunk) /\ Len(file') = Len(file) + Len(s) /\ pos' = Len(file')
           /\ \A j \in DOMAIN file : j \in DOMAIN file' /\ file'[j] = file[j]
           /\ \A j \in DOMAIN file' : IF j \in DOMAIN file THEN file'[j] = file[j]
                                      ELSE j - Len(file) \in DOMAIN s /\ file'[j] = s[j - Len(file)]
<1>1. file \in Seq(Chunk)
  BY DEF TypeOK
<1>2. file' = file \o s /\ pos' = Len(file')
  BY DEF Appends
<1>3. /\ file' \in Seq(Chunk)
      /\ Len(file') = Len(file) + Len(s)
      /\ \A j \in 1 .. Len(file) + Len(s) :
            file'[j] = IF j <= Len(file) THEN file[j] ELSE s[j - Len(file)]
  BY <1>1, <1>2, ConcatProperties
<1>4. /\ DOMAIN file = 1 .. Len(file) /\ DOMAIN s = 1 .. Len(s)
      /\ DOMAIN file' = 1 .. Len(file')
      /\ Len(file) \in Nat /\ Len(s) \in Nat
  BY <1>1, <1>3, LenProperties
<1>5. QED
  BY <1>2, <1>3, <1>4

\* A sequence without repetitions put after another, none of it being there.
LEMMA AppendedApart ==
    ASSUME TypeOK, NEW s \in Seq(Chunk), Appends(s), Apart(file), Apart(s),
           \A j \in DOMAIN s : \A k \in DOMAIN file : s[j] # file[k]
    PROVE  Apart(file')
<1> SUFFICES ASSUME NEW j \in DOMAIN file', NEW k \in DOMAIN file', file'[j] = file'[k]
             PROVE  j = k
  BY DEF Apart
<1>1. /\ IF j \in DOMAIN file THEN file'[j] = file[j]
         ELSE j - Len(file) \in DOMAIN s /\ file'[j] = s[j - Len(file)]
      /\ IF k \in DOMAIN file THEN file'[k] = file[k]
         ELSE k - Len(file) \in DOMAIN s /\ file'[k] = s[k - Len(file)]
  BY Appended
<1>2. j \in Int /\ k \in Int /\ Len(file) \in Int
  BY Appended, LenProperties DEF TypeOK
<1>3. CASE j \in DOMAIN file /\ k \in DOMAIN file
  BY <1>1, <1>3 DEF Apart
<1>4. CASE j \notin DOMAIN file /\ k \notin DOMAIN file
  <2>1. j - Len(file) = k - Len(file)
    BY <1>1, <1>4 DEF Apart
  <2>2. QED
    BY <2>1, <1>2
<1>5. QED
  BY <1>1, <1>3, <1>4

LEMMA OneChunk ==
    ASSUME NEW c \in Chunk
    PROVE  <<c>> \in Seq(Chunk) /\ Len(<<c>>) = 1 /\ DOMAIN <<c>> = {1} /\ <<c>>[1] = c /\ Apart(<<c>>)
BY DEF Apart

LEMMA OneAppended ==
    ASSUME TypeOK, NEW c \in Chunk, Appends(<<c>>), ~ Holds(c), Apart(file)
    PROVE  /\ file' \in Seq(Chunk) /\ pos' = Len(file') /\ Apart(file')
           /\ \A j \in DOMAIN file' : file'[j] = c \/ \E k \in DOMAIN file : file'[j] = file[k]
           /\ \A j \in DOMAIN file : j \in DOMAIN file' /\ file'[j] = file[j]
<1>1. /\ <<c>> \in Seq(Chunk) /\ DOMAIN <<c>> = {1} /\ <<c>>[1] = c /\ Apart(<<c>>)
  BY OneChunk
<1>2. \A j \in DOMAIN <<c>> : \A k \in DOMAIN file : <<c>>[j] # file[k]
  BY <1>1 DEF Holds
<1>3. Apart(file')
  BY <1>1, <1>2, AppendedApart
<1>4. PICK s \in Seq(Chunk) : s = <<c>>
  BY <1>1
<1>5. DOMAIN s = {1} /\ s[1] = c /\ Appends(s)
  BY <1>1, <1>4
<1>6. /\ file' \in Seq(Chunk) /\ pos' = Len(file')
      /\ \A j \in DOMAIN file : j \in DOMAIN file' /\ file'[j] = file[j]
      /\ \A j \in DOMAIN file' : IF j \in DOMAIN file THEN file'[j] = file[j]
                                 ELSE j - Len(file) \in DOMAIN s /\ file'[j] = s[j - Len(file)]
  BY <1>5, Appended, Zenon
<1>7. \A j \in DOMAIN file' : file'[j] = c \/ \E k \in DOMAIN file : file'[j] = file[k]
  BY <1>5, <1>6, Zenon
<1>8. QED
  BY <1>3, <1>6, <1>7, Zenon

-----------------------------------------------------------------------------
(* The lines of a client *)

LEMMA NLENat == NLE \in Nat \ {0} /\ Slots = 0 .. NLE - 1
BY EventAssumption DEF Slots

LEMMA ReadLine ==
    ASSUME TypeOK, NEW s \in Seq(Chunk), read' = Append(read, s)
    PROVE  /\ read' \in Seq(Seq(Chunk)) /\ Len(read') = Len(read) + 1
           /\ \A j \in 1 .. Len(read) : read'[j] = read[j]
           /\ read'[Len(read) + 1] = s
BY AppendProperties DEF TypeOK

\* A line that is stored is behind the index, and the others one further.
LEMMA Stored ==
    ASSUME TypeOK, Ring, reader = "read", NEW s \in Seq(Chunk), Store(s)
    PROVE  /\ le' \in [Slots -> Seq(Chunk)] /\ i' \in Slots /\ nrec' \in Nat
           /\ line' \in Seq(Chunk) /\ read' \in Seq(Seq(Chunk))
           /\ nrec' = Len(read')
           /\ nrec' < NLE => i' = nrec'
           /\ nrec' = NLE => i' = 0
           /\ \A d \in 1 .. NLE : d <= nrec' => le'[Behind(d)'] = read'[nrec' - d + 1]
<1> USE NLENat
<1>1. /\ le' = [le EXCEPT ![i] = s] /\ nrec' = nrec + 1 /\ read' = Append(read, s)
      /\ line' = <<>>
      /\ i' = IF i + 1 >= NLE THEN 0 ELSE i + 1
  BY DEF Store, NextSlot
<1>2. /\ le \in [Slots -> Seq(Chunk)] /\ i \in Slots /\ nrec \in Nat
      /\ read \in Seq(Seq(Chunk)) /\ Len(read) \in Nat
  BY LenProperties DEF TypeOK
<1>3. /\ read' \in Seq(Seq(Chunk)) /\ Len(read') = Len(read) + 1
      /\ \A j \in 1 .. Len(read) : read'[j] = read[j]
      /\ read'[Len(read) + 1] = s
  BY <1>1, ReadLine
<1>4. /\ nrec = Len(read)
      /\ nrec < NLE => i = nrec
      /\ nrec = NLE => i = 0
      /\ \A d \in 1 .. NLE : d <= nrec => le[Behind(d)] = read[nrec - d + 1]
  BY DEF Ring
<1>5. i' \in Slots /\ nrec' \in Nat /\ nrec' = Len(read')
  BY <1>1, <1>2, <1>3, <1>4
<1>6. le' \in [Slots -> Seq(Chunk)] /\ line' \in Seq(Chunk)
  BY <1>1, <1>2
<1>7. (nrec' < NLE => i' = nrec') /\ (nrec' = NLE => i' = 0)
  <2>1. /\ nrec \in Nat /\ i \in Nat /\ NLE \in Nat
        /\ nrec' = nrec + 1 /\ i' = IF i + 1 >= NLE THEN 0 ELSE i + 1
    BY <1>1, <1>2
  <2>2. nrec < NLE => i = nrec
    BY <1>4
  <2>3. QED
    BY <2>1, <2>2
<1>8. ASSUME NEW d \in 1 .. NLE, d <= nrec'
      PROVE  le'[Behind(d)'] = read'[nrec' - d + 1]
  <2>1. CASE d = 1
    <3>1. Behind(d)' = i
      BY <1>1, <1>2, <2>1 DEF Behind
    <3>2. QED
      BY <1>1, <1>2, <1>3, <1>4, <2>1, <3>1
  <2>2. CASE d > 1
    <3>1. d - 1 \in 1 .. NLE /\ d - 1 <= nrec /\ d - 1 < NLE
      BY <1>1, <1>2, <1>8, <2>2
    <3>2. Behind(d)' = Behind(d - 1)
      BY <1>1, <1>2, <2>2, <1>8 DEF Behind
    <3>3. Behind(d - 1) \in Slots /\ Behind(d - 1) # i
      BY <1>2, <3>1 DEF Behind
    <3>4. le'[Behind(d)'] = le[Behind(d - 1)]
      BY <1>1, <1>2, <3>2, <3>3
    <3>5. le[Behind(d - 1)] = read[nrec - (d - 1) + 1]
      BY <1>4, <3>1
    <3>6. /\ nrec - (d - 1) + 1 \in 1 .. Len(read)
          /\ nrec - (d - 1) + 1 = nrec' - d + 1
      BY <1>1, <1>2, <1>4, <3>1
    <3>7. QED
      BY <1>3, <3>4, <3>5, <3>6
  <2>3. QED
    BY <2>1, <2>2
<1>9. QED
  BY <1>3, <1>5, <1>6, <1>7, <1>8

\* Counting from the other end.
LEMMA Shift ==
    ASSUME NEW a \in Nat, NEW b \in Nat, NEW l \in Nat, NEW e \in Nat, NEW k \in Nat,
           b = a - l, b <= k, e < b
    PROVE  b - e \in 1 .. k /\ b - e <= a /\ a - (b - e) + 1 = l + e + 1
OBVIOUS

\* When the last line is read the oldest of those kept is at the index.
LEMMA Turned ==
    ASSUME TypeOK, Ring, reader = "read", UNCHANGED <<le, read, answer>>, answer = <<>>,
           i' = IF nrec > NLE THEN i ELSE 0,
           nrec' = IF nrec > NLE THEN NLE ELSE nrec
    PROVE  /\ i' \in Slots /\ nrec' \in Nat
           /\ nrec' = Len(read') - Last' /\ Len(answer') <= nrec'
           /\ \A e \in 0 .. NLE - 1 : Len(answer') + e < nrec'
                => le'[Ahead(e)'] = read'[Last' + Len(answer') + e + 1]
           /\ \A j \in DOMAIN answer' : answer'[j] = read'[Last' + j]
<1> USE NLENat
<1>1. /\ le \in [Slots -> Seq(Chunk)] /\ i \in Slots /\ nrec \in Nat
      /\ read \in Seq(Seq(Chunk)) /\ Len(read) \in Nat
  BY LenProperties DEF TypeOK
<1>2. /\ nrec = Len(read)
      /\ nrec < NLE => i = nrec
      /\ nrec = NLE => i = 0
      /\ \A d \in 1 .. NLE : d <= nrec => le[Behind(d)] = read[nrec - d + 1]
  BY DEF Ring
<1>3. Len(answer') = 0 /\ DOMAIN answer' = {}
  OBVIOUS
<1>4. /\ i' \in Slots /\ nrec' \in Nat /\ Last' \in Nat
      /\ nrec' = Len(read) - Last' /\ 0 <= nrec' /\ nrec' <= NLE
  BY <1>1, <1>2 DEF Last
<1>5. ASSUME NEW e \in 0 .. NLE - 1, e < nrec'
      PROVE  le'[Ahead(e)'] = read'[Last' + e + 1]
  <2>1. /\ nrec' - e \in 1 .. NLE /\ nrec' - e <= nrec
        /\ nrec - (nrec' - e) + 1 = Last' + e + 1
    <3>1. /\ nrec \in Nat /\ nrec' \in Nat /\ Last' \in Nat /\ e \in Nat /\ NLE \in Nat
          /\ nrec' = nrec - Last' /\ nrec' <= NLE /\ e < nrec'
      BY <1>1, <1>2, <1>4, <1>5
    <3>2. PICK l \in Nat : l = Last'
      BY <3>1
    <3>3. PICK b \in Nat : b = nrec'
      BY <3>1
    <3>4. nrec \in Nat /\ e \in Nat /\ NLE \in Nat /\ b = nrec - l /\ b <= NLE /\ e < b
      BY <3>1, <3>2, <3>3
    <3>5. b - e \in 1 .. NLE /\ b - e <= nrec /\ nrec - (b - e) + 1 = l + e + 1
      BY <3>4, Shift
    <3>6. QED
      BY <3>2, <3>3, <3>5
  <2>2. le[Behind(nrec' - e)] = read[Last' + e + 1]
    BY <1>2, <2>1
  <2>3. Behind(nrec' - e) = Ahead(e)'
    <3>1. CASE nrec > NLE
      BY <1>1, <1>5, <3>1 DEF Behind, Ahead
    <3>2. CASE nrec <= NLE
      <4>1. nrec < NLE => i = nrec
        BY <1>2
      <4>2. nrec = NLE => i = 0
        BY <1>2
      <4>3. /\ nrec \in Nat /\ i \in Nat /\ NLE \in Nat /\ e \in Nat
            /\ i' = 0 /\ nrec' = nrec /\ e < nrec
        BY <1>1, <1>5, <3>2
      <4>4. CASE nrec < NLE
        BY <4>1, <4>3, <4>4 DEF Behind, Ahead
      <4>5. CASE nrec = NLE
        BY <4>2, <4>3, <4>5 DEF Behind, Ahead
      <4>6. QED
        BY <3>2, <4>3, <4>4, <4>5
    <3>3. QED
      <4>1. nrec \in Nat /\ NLE \in Nat
        BY <1>1
      <4>2. nrec > NLE \/ nrec <= NLE
        BY <4>1
      <4>3. QED
        BY <3>1, <3>2, <4>2
  <2>4. QED
    BY <2>2, <2>3
<1>6. QED
  BY <1>3, <1>4, <1>5

-----------------------------------------------------------------------------
(* What each step keeps *)

LEMMA RingStays == Ring /\ UNCHANGED client => Ring'
BY DEF Ring, client, ring, LastLines, Last, Behind, Ahead

LEMMA LogStays == Pending /\ Trimming /\ UNCHANGED <<log, trimmer>> => Pending' /\ Trimming'
BY DEF Pending, Trimming, Holds, Apart, log, trimmer

\* A part of a sequence repeats nothing that the sequence does not.
LEMMA Part ==
    ASSUME NEW q \in Seq(Chunk), Apart(q),
           NEW a \in 1 .. Len(q) + 1, NEW b \in 0 .. Len(q)
    PROVE  /\ SubSeq(q, a, b) \in Seq(Chunk)
           /\ Len(SubSeq(q, a, b)) = IF a <= b THEN b - a + 1 ELSE 0
           /\ \A j \in DOMAIN SubSeq(q, a, b) : /\ a + j - 1 \in DOMAIN q
                                              /\ a + j - 1 \in a .. b
                                              /\ SubSeq(q, a, b)[j] = q[a + j - 1]
           /\ Apart(SubSeq(q, a, b))
<1>1. Len(q) \in Nat /\ DOMAIN q = 1 .. Len(q) /\ \A j \in a .. b : q[j] \in Chunk
  BY LenProperties
<1>2. /\ SubSeq(q, a, b) \in Seq(Chunk)
      /\ Len(SubSeq(q, a, b)) = IF a <= b THEN b - a + 1 ELSE 0
      /\ \A j \in 1 .. b - a + 1 : SubSeq(q, a, b)[j] = q[a + j - 1]
  BY <1>1, SubSeqProperties
<1>3. DOMAIN SubSeq(q, a, b) = 1 .. Len(SubSeq(q, a, b))
  BY <1>2, LenProperties
<1>4. \A j \in DOMAIN SubSeq(q, a, b) : /\ a + j - 1 \in DOMAIN q
                                         /\ a + j - 1 \in a .. b
                                         /\ SubSeq(q, a, b)[j] = q[a + j - 1]
  BY <1>1, <1>2, <1>3
<1>5. Apart(SubSeq(q, a, b))
  <2> SUFFICES ASSUME NEW j \in DOMAIN SubSeq(q, a, b), NEW k \in DOMAIN SubSeq(q, a, b),
                      SubSeq(q, a, b)[j] = SubSeq(q, a, b)[k]
               PROVE  j = k
    BY DEF Apart
  <2>1. a + j - 1 = a + k - 1
    BY <1>4 DEF Apart
  <2>2. j \in Int /\ k \in Int
    BY <1>3
  <2>3. QED
    BY <2>1, <2>2
<1>6. QED
  BY <1>2, <1>4, <1>5

\* Nothing new is held.
LEMMA HeldOnly ==
    ASSUME Pending, n' = n, writing' = writing,
           \A j \in DOMAIN file' : Holds(file'[j]),
           \A j \in DOMAIN buf' : Holds(buf'[j])
    PROVE  Pending'
<1>1. \A c : Holds(c)' => Holds(c)
  BY DEF Holds
<1>2. \A c : Holds(c) => c[1] <= n
  BY DEF Holds, Pending
<1>3. QED
  BY <1>1, <1>2 DEF Pending

\* A chunk that is held nowhere is added at the end of the file.
LEMMA Logged ==
    ASSUME IInv, NEW c \in Chunk, Appends(<<c>>), ~ Holds(c), buf' = buf,
           trim' = trim \/ (trim = "report" /\ trim' = "no")
    PROVE  /\ file' \in Seq(Chunk) /\ pos' \in Nat
           /\ \A j \in DOMAIN file' : file'[j] = c \/ \E k \in DOMAIN file : file'[j] = file[k]
           /\ Trimming'
<1>1. /\ file' \in Seq(Chunk) /\ pos' = Len(file') /\ Apart(file')
      /\ \A j \in DOMAIN file' : file'[j] = c \/ \E k \in DOMAIN file : file'[j] = file[k]
      /\ \A j \in DOMAIN file : j \in DOMAIN file' /\ file'[j] = file[j]
  BY OneAppended DEF IInv, Trimming
<1>2. /\ Len(file') \in Nat /\ DOMAIN file' = 1 .. Len(file')
      /\ Len(file) \in Nat /\ DOMAIN file = 1 .. Len(file) /\ pos \in Nat /\ pos <= Len(file)
  BY <1>1, LenProperties DEF IInv, TypeOK, Trimming
<1>3. pos' <= Len(file')
  BY <1>1, <1>2
<1>4. Apart(buf') /\ (trim' \in {"no", "report"} => buf' = <<>>)
  BY DEF IInv, Trimming, Apart
<1>5. ASSUME trim' = "read"
      PROVE  /\ Len(buf') <= Keep
             /\ \A j \in DOMAIN buf' : \E k \in 1 .. pos' : buf'[j] = file'[k]
  <2>1. trim = "read"
    BY <1>5
  <2>2. Len(buf') <= Keep /\ \A j \in DOMAIN buf : \E k \in 1 .. pos : buf[j] = file[k]
    BY <2>1 DEF IInv, Trimming
  <2>3. \A k \in 1 .. pos : k \in 1 .. pos' /\ file'[k] = file[k]
    BY <1>1, <1>2
  <2>4. QED
    BY <2>2, <2>3
<1>6. ASSUME trim' = "write"
      PROVE  \A j \in DOMAIN buf' : \A k \in DOMAIN file' : buf'[j] # file'[k]
  <2>1. \A j \in DOMAIN buf : \A k \in DOMAIN file : buf[j] # file[k]
    BY <1>6 DEF IInv, Trimming
  <2>2. \A j \in DOMAIN buf : buf[j] # c
    BY DEF Holds
  <2>3. QED
    BY <1>1, <2>1, <2>2
<1>7. QED
  BY <1>1, <1>2, <1>3, <1>4, <1>5, <1>6 DEF Trimming

LEMMA DateLogged ==
    ASSUME IInv, NEW t \in Threads, LogDate(t)
    PROVE  file' \in Seq(Chunk) /\ pos' \in Nat /\ Pending' /\ Trimming'
<1>0. PICK c : c = <<n + 1, "date">>
  OBVIOUS
<1>1. /\ n \in Nat /\ LogMax \in Nat /\ n < LogMax /\ n' = n + 1 /\ Appends(<<c>>)
      /\ writing' = [writing EXCEPT ![t] = n + 1]
      /\ trim' = trim /\ buf' = buf
  BY <1>0, EventAssumption DEF LogDate, IInv, TypeOK, trimmer
<1>2. c \in Chunk
  BY <1>0, <1>1 DEF Chunk
<1>3. /\ writing \in [Threads -> Nat]
      /\ \A u \in Threads : writing[u] <= n
  BY DEF IInv, TypeOK, Pending
<1>4. \A j \in DOMAIN file : file[j] \in Chunk /\ file[j][1] <= n
  BY LenProperties DEF IInv, TypeOK, Pending
<1>5. \A j \in DOMAIN buf : buf[j] \in Chunk /\ buf[j][1] <= n
  BY LenProperties DEF IInv, TypeOK, Pending
<1>6. ~ Holds(c) /\ ~ Holds(<<n + 1, "message">>)
  BY <1>0, <1>1, <1>4, <1>5 DEF Holds
<1>7. /\ file' \in Seq(Chunk) /\ pos' \in Nat /\ Trimming'
      /\ \A j \in DOMAIN file' : file'[j] = c \/ \E k \in DOMAIN file : file'[j] = file[k]
  BY <1>1, <1>2, <1>6, Logged
<1>8. \A s : s # c /\ ~ Holds(s) => ~ Holds(s)'
  BY <1>1, <1>7 DEF Holds
<1>9. Pending'
  <2>1. \A u \in Threads : writing'[u] <= n'
    BY <1>1, <1>3
  <2>2. \A u, v \in Threads : writing'[u] = writing'[v] /\ writing'[u] # 0 => u = v
    <3> SUFFICES ASSUME NEW u \in Threads, NEW v \in Threads,
                        writing'[u] = writing'[v], writing'[u] # 0
                 PROVE  u = v
      OBVIOUS
    <3>1. writing[u] # n + 1 /\ writing[v] # n + 1
      BY <1>1, <1>3
    <3>2. QED
      BY <1>1, <1>3, <3>1 DEF IInv, Pending
  <2>3. \A j \in DOMAIN file' : file'[j][1] <= n'
    <3>1. ASSUME NEW j \in DOMAIN file' PROVE file'[j][1] <= n'
      <4>1. CASE file'[j] = c
        BY <1>0, <1>1, <4>1
      <4>2. CASE \E k \in DOMAIN file : file'[j] = file[k]
        <5>1. PICK k \in DOMAIN file : file'[j] = file[k]
          BY <4>2
        <5>2. file[k][1] \in Nat /\ file[k][1] <= n
          BY <1>4 DEF Chunk
        <5>3. QED
          BY <1>1, <5>1, <5>2
      <4>3. QED
        BY <1>7, <4>1, <4>2
    <3>2. QED
      BY <3>1
  <2>4. \A j \in DOMAIN buf' : buf'[j][1] <= n'
    <3>1. \A j \in DOMAIN buf : buf[j][1] \in Nat /\ buf[j][1] <= n
      BY <1>5 DEF Chunk
    <3>2. QED
      BY <1>1, <3>1
  <2>5. ASSUME NEW u \in Threads, writing'[u] # 0
        PROVE  (~ Holds(<<writing[u], "message">>))'
    <3>1. PICK s : s = <<writing'[u], "message">>
      OBVIOUS
    <3>2. ~ Holds(s)
      BY <1>1, <1>3, <1>6, <2>5, <3>1 DEF IInv, Pending
    <3>3. s # c
      BY <1>0, <3>1
    <3>4. ~ Holds(s)'
      BY <1>8, <3>2, <3>3
    <3>5. QED
      BY <3>1, <3>4 DEF Holds
  <2>6. QED
    BY <2>1, <2>2, <2>3, <2>4, <2>5 DEF Pending
<1>10. QED
  BY <1>7, <1>9

LEMMA MessageLogged ==
    ASSUME IInv, NEW t \in Threads, LogMessage(t)
    PROVE  file' \in Seq(Chunk) /\ pos' \in Nat /\ Pending' /\ Trimming'
<1>0. PICK c : c = <<writing[t], "message">>
  OBVIOUS
<1>1. /\ writing[t] # 0 /\ Free(t) /\ n' = n /\ Appends(<<c>>)
      /\ writing' = [writing EXCEPT ![t] = 0]
      /\ buf' = buf /\ trim' = IF t = Device THEN "no" ELSE trim
  BY <1>0 DEF LogMessage
<1>2. writing \in [Threads -> 0 .. LogMax] /\ n \in Nat /\ LogMax \in Nat
  BY EventAssumption DEF IInv, TypeOK
<1>3. c \in Chunk
  BY <1>0, <1>1, <1>2 DEF Chunk
<1>4. ~ Holds(c)
  BY <1>0, <1>1 DEF IInv, Pending
<1>5. trim' = trim \/ (trim = "report" /\ trim' = "no")
  BY <1>1 DEF Free
<1>6. /\ file' \in Seq(Chunk) /\ pos' \in Nat /\ Trimming'
      /\ \A j \in DOMAIN file' : file'[j] = c \/ \E k \in DOMAIN file : file'[j] = file[k]
  BY <1>1, <1>3, <1>4, <1>5, Logged
<1>7. \A s : s # c /\ ~ Holds(s) => ~ Holds(s)'
  BY <1>1, <1>6 DEF Holds
<1>8. Pending'
  <2>1. \A u \in Threads : writing'[u] <= n'
    BY <1>1, <1>2 DEF IInv, Pending
  <2>2. \A u, v \in Threads : writing'[u] = writing'[v] /\ writing'[u] # 0 => u = v
    BY <1>1, <1>2 DEF IInv, Pending
  <2>3. \A j \in DOMAIN file' : file'[j][1] <= n'
    BY <1>0, <1>1, <1>6 DEF IInv, Pending
  <2>4. \A j \in DOMAIN buf' : buf'[j][1] <= n'
    BY <1>1 DEF IInv, Pending
  <2>5. ASSUME NEW u \in Threads, writing'[u] # 0
        PROVE  (~ Holds(<<writing[u], "message">>))'
    <3>1. PICK s : s = <<writing'[u], "message">>
      OBVIOUS
    <3>2. u # t /\ writing'[u] = writing[u]
      BY <1>1, <1>2, <2>5
    <3>3. ~ Holds(s)
      BY <2>5, <3>1, <3>2 DEF IInv, Pending
    <3>4. s # c
      BY <1>0, <1>1, <2>5, <3>1, <3>2 DEF IInv, Pending
    <3>5. ~ Holds(s)'
      BY <1>7, <3>3, <3>4
    <3>6. QED
      BY <3>1, <3>5 DEF Holds
  <2>6. QED
    BY <2>1, <2>2, <2>3, <2>4, <2>5 DEF Pending
<1>9. QED
  BY <1>6, <1>8

LEMMA Started ==
    ASSUME IInv, TrimStarts
    PROVE  pos' \in Nat /\ Pending' /\ Trimming'
<1>1. /\ trim = "no" /\ trim' = "read" /\ Len(file) > Max /\ pos' = Len(file) - Keep
      /\ file' = file /\ buf' = buf /\ n' = n /\ writing' = writing
  BY DEF TrimStarts
<1>2. Max \in Nat /\ Keep \in Nat /\ Keep <= Max /\ Len(file) \in Nat
  BY EventAssumption, LenProperties DEF IInv, TypeOK
<1>3. pos' \in Nat /\ pos' <= Len(file)
  BY <1>1, <1>2
<1>4. buf = <<>> /\ Len(buf) = 0 /\ DOMAIN buf = {}
  BY <1>1 DEF IInv, Trimming
<1>5. Trimming'
  BY <1>1, <1>2, <1>3, <1>4 DEF IInv, Trimming, Apart
<1>6. Pending'
  BY <1>1 DEF IInv, Pending, Holds
<1>7. QED
  BY <1>3, <1>5, <1>6

LEMMA TailCopied ==
    ASSUME IInv, TrimReads
    PROVE  pos' \in Nat /\ buf' \in Seq(Chunk) /\ Pending' /\ Trimming'
<1>1. PICK m \in 1 .. Keep - Len(buf) :
          /\ pos + m <= Len(file)
          /\ buf' = buf \o SubSeq(file, pos + 1, pos + m)
          /\ pos' = pos + m
  BY DEF TrimReads
<1>2. /\ trim = "read" /\ trim' = "read" /\ file' = file /\ n' = n /\ writing' = writing
  BY DEF TrimReads
<1>3. /\ file \in Seq(Chunk) /\ buf \in Seq(Chunk) /\ pos \in Nat
      /\ Len(file) \in Nat /\ Len(buf) \in Nat /\ Keep \in Nat /\ m \in Nat /\ m # 0
      /\ DOMAIN file = 1 .. Len(file) /\ DOMAIN buf = 1 .. Len(buf)
  BY EventAssumption, LenProperties DEF IInv, TypeOK
<1>4. PICK s : s = SubSeq(file, pos + 1, pos + m)
  OBVIOUS
<1>5. /\ s \in Seq(Chunk) /\ Len(s) = m /\ DOMAIN s = 1 .. m /\ Apart(s)
      /\ \A j \in DOMAIN s : pos + j \in DOMAIN file /\ s[j] = file[pos + j]
  <2>0. PICK a \in 1 .. Len(file) + 1, b \in 0 .. Len(file) : a = pos + 1 /\ b = pos + m
    BY <1>1, <1>3
  <2>1. Apart(file) /\ s = SubSeq(file, a, b)
    BY <1>4, <2>0 DEF IInv, Trimming
  <2>2. /\ s \in Seq(Chunk) /\ Apart(s)
        /\ Len(s) = IF a <= b THEN b - a + 1 ELSE 0
        /\ \A j \in DOMAIN s : a + j - 1 \in DOMAIN file /\ s[j] = file[a + j - 1]
    BY <1>3, <2>1, Part
  <2>3. Len(s) = m
    BY <1>3, <2>0, <2>2
  <2>4. DOMAIN s = 1 .. m
    BY <2>2, <2>3, LenProperties
  <2>5. \A j \in 1 .. m : a + j - 1 = pos + j
    BY <1>3, <2>0
  <2>6. QED
    BY <2>2, <2>3, <2>4, <2>5
<1>6. /\ buf' \in Seq(Chunk) /\ Len(buf') = Len(buf) + m
      /\ DOMAIN buf' = 1 .. Len(buf) + m
      /\ \A j \in 1 .. Len(buf) + m :
            buf'[j] = IF j <= Len(buf) THEN buf[j] ELSE s[j - Len(buf)]
  BY <1>1, <1>3, <1>4, <1>5, ConcatProperties, LenProperties
<1>7. ASSUME NEW j \in DOMAIN buf'
      PROVE  \/ /\ j \in DOMAIN buf /\ buf'[j] = buf[j]
                /\ \E k \in 1 .. pos : buf'[j] = file[k]
             \/ /\ j \notin DOMAIN buf /\ j - Len(buf) \in 1 .. m
                /\ buf'[j] = file[pos + (j - Len(buf))]
  <2>1. CASE j <= Len(buf)
    <3>1. j \in DOMAIN buf /\ buf'[j] = buf[j]
      BY <1>3, <1>6, <2>1
    <3>2. \E k \in 1 .. pos : buf[j] = file[k]
      BY <1>2, <3>1 DEF IInv, Trimming
    <3>3. QED
      BY <3>1, <3>2
  <2>2. CASE ~ (j <= Len(buf))
    <3>1. j - Len(buf) \in 1 .. m /\ j \notin DOMAIN buf /\ buf'[j] = s[j - Len(buf)]
      BY <1>3, <1>6, <2>2
    <3>2. QED
      BY <1>5, <3>1
  <2>3. QED
    BY <2>1, <2>2
<1>8. Apart(buf')
  <2> SUFFICES ASSUME NEW j \in DOMAIN buf', NEW k \in DOMAIN buf', buf'[j] = buf'[k]
               PROVE  j = k
    BY DEF Apart
  <2>1. Apart(buf) /\ Apart(file)
    BY DEF IInv, Trimming
  <2>2. j \in Int /\ k \in Int
    BY <1>3, <1>6
  <2>3. \A a \in 1 .. pos, b \in 1 .. m : file[a] # file[pos + b]
    <3>1. \A a \in 1 .. pos, b \in 1 .. m : a \in DOMAIN file /\ pos + b \in DOMAIN file
                                         /\ a # pos + b
      BY <1>1, <1>3
    <3>2. QED
      BY <2>1, <3>1 DEF Apart
  <2>4. CASE j \in DOMAIN buf /\ k \in DOMAIN buf
    BY <1>7, <2>1, <2>4 DEF Apart
  <2>5. CASE j \notin DOMAIN buf /\ k \notin DOMAIN buf
    <3>1. /\ j - Len(buf) \in 1 .. m /\ k - Len(buf) \in 1 .. m
          /\ file[pos + (j - Len(buf))] = file[pos + (k - Len(buf))]
      BY <1>7, <2>5
    <3>2. pos + (j - Len(buf)) \in DOMAIN file /\ pos + (k - Len(buf)) \in DOMAIN file
      <4>1. \A b \in 1 .. m : pos + b \in DOMAIN file
        BY <1>1, <1>3
      <4>2. QED
        BY <3>1, <4>1
    <3>3. pos + (j - Len(buf)) = pos + (k - Len(buf))
      BY <2>1, <3>1, <3>2 DEF Apart
    <3>4. QED
      BY <1>3, <2>2, <3>3
  <2>6. CASE j \in DOMAIN buf /\ k \notin DOMAIN buf
    BY <1>7, <2>3, <2>6
  <2>7. CASE j \notin DOMAIN buf /\ k \in DOMAIN buf
    BY <1>7, <2>3, <2>7
  <2>8. QED
    BY <2>4, <2>5, <2>6, <2>7
<1>9. Trimming'
  <2>1. pos' <= Len(file') /\ Apart(file') /\ Len(buf') <= Keep
    BY <1>1, <1>2, <1>3, <1>6 DEF IInv, Trimming, Apart
  <2>2. ASSUME NEW j \in DOMAIN buf' PROVE \E k \in 1 .. pos' : buf'[j] = file'[k]
    <3>1. 1 .. pos \subseteq 1 .. pos' /\ \A b \in 1 .. m : pos + b \in 1 .. pos'
      BY <1>1, <1>3
    <3>2. QED
      BY <1>2, <1>7, <3>1
  <2>3. QED
    BY <1>2, <1>8, <2>1, <2>2 DEF Trimming
<1>10. Pending'
  <2>1. \A j \in DOMAIN file' : Holds(file'[j])
    BY <1>2 DEF Holds
  <2>2. \A j \in DOMAIN buf' : Holds(buf'[j])
    <3>1. /\ 1 .. pos \subseteq DOMAIN file
          /\ \A b \in 1 .. m : pos + b \in DOMAIN file
      BY <1>1, <1>3
    <3>2. QED
      BY <1>7, <3>1 DEF Holds
  <2>3. QED
    BY <1>2, <2>1, <2>2, HeldOnly DEF IInv
<1>11. QED
  BY <1>1, <1>3, <1>6, <1>9, <1>10

LEMMA Truncated ==
    ASSUME IInv, TrimTruncates
    PROVE  /\ file' \in Seq(Chunk) /\ buf' \in Seq(Chunk) /\ pos' \in Nat
           /\ Pending' /\ Trimming'
<1>1. PICK k \in 0 .. Len(buf) : buf' = SubSeq(buf, k + 1, Len(buf))
  BY DEF TrimTruncates, WithoutSkipped
<1>2. /\ trim' = "write" /\ file' = <<>> /\ pos' = 0 /\ n' = n /\ writing' = writing
  BY DEF TrimTruncates
<1>3. buf \in Seq(Chunk) /\ Len(buf) \in Nat /\ Apart(buf)
  BY LenProperties DEF IInv, TypeOK, Trimming
<1>4. PICK a \in 1 .. Len(buf) + 1, b \in 0 .. Len(buf) : a = k + 1 /\ b = Len(buf)
  BY <1>3
<1>5. /\ buf' \in Seq(Chunk) /\ Apart(buf')
      /\ \A j \in DOMAIN buf' : a + j - 1 \in DOMAIN buf /\ buf'[j] = buf[a + j - 1]
  BY <1>1, <1>3, <1>4, Part
<1>6. file' \in Seq(Chunk) /\ Len(file') = 0 /\ DOMAIN file' = {}
  BY <1>2
<1>7. Trimming'
  BY <1>2, <1>5, <1>6 DEF Trimming, Apart
<1>8. Pending'
  <2>1. \A j \in DOMAIN buf' : Holds(buf'[j])
    BY <1>5 DEF Holds
  <2>2. QED
    BY <1>2, <1>6, <2>1, HeldOnly DEF IInv
<1>9. QED
  BY <1>2, <1>5, <1>6, <1>7, <1>8

\* All of the tail is written back, or the beginning of it.
LEMMA WrittenBack ==
    ASSUME IInv, trim = "write", NEW m \in 0 .. Len(buf), Appends(SubSeq(buf, 1, m)),
           buf' = <<>>, trim' \in {"no", "report"}, n' = n, writing' = writing
    PROVE  file' \in Seq(Chunk) /\ pos' \in Nat /\ Pending' /\ Trimming'
<1>1. PICK s : s = SubSeq(buf, 1, m)
  OBVIOUS
<1>2. buf \in Seq(Chunk) /\ Len(buf) \in Nat /\ Apart(buf) /\ Apart(file)
  BY LenProperties DEF IInv, TypeOK, Trimming
<1>3. PICK a \in 1 .. Len(buf) + 1 : a = 1
  BY <1>2
<1>4. /\ s \in Seq(Chunk) /\ Apart(s)
      /\ \A j \in DOMAIN s : a + j - 1 \in DOMAIN buf /\ s[j] = buf[a + j - 1]
  BY <1>1, <1>2, <1>3, Part
<1>5. \A j \in DOMAIN s : \A k \in DOMAIN file : s[j] # file[k]
  BY <1>4 DEF IInv, Trimming
<1>6. Appends(s)
  BY <1>1
<1>7. /\ file' \in Seq(Chunk) /\ pos' = Len(file')
      /\ \A j \in DOMAIN file' : IF j \in DOMAIN file THEN file'[j] = file[j]
                                ELSE j - Len(file) \in DOMAIN s /\ file'[j] = s[j - Len(file)]
  BY <1>4, <1>6, Appended DEF IInv
<1>8. Apart(file')
  BY <1>2, <1>4, <1>5, <1>6, AppendedApart DEF IInv
<1>9. Len(file') \in Nat /\ pos' \in Nat /\ pos' <= Len(file')
  BY <1>7, LenProperties
<1>10. Apart(buf') /\ DOMAIN buf' = {}
  BY DEF Apart
<1>11. Trimming'
  BY <1>8, <1>9, <1>10 DEF Trimming
<1>12. Pending'
  <2>1. \A j \in DOMAIN file' : Holds(file'[j])
    BY <1>4, <1>7 DEF Holds
  <2>2. QED
    BY <1>10, <2>1, HeldOnly DEF IInv
<1>13. QED
  BY <1>7, <1>9, <1>11, <1>12

\* SubSeq() of all of the buffer.
LEMMA WholeTail ==
    ASSUME IInv
    PROVE  SubSeq(buf, 1, Len(buf)) = buf /\ Len(buf) \in 0 .. Len(buf)
BY SubSeqFull, LenProperties DEF IInv, TypeOK

-----------------------------------------------------------------------------
(* The inductive invariant *)

\* The types of the two halves of the state.
LogTypes ==
    /\ file \in Seq(Chunk) /\ buf \in Seq(Chunk) /\ pos \in Nat /\ n \in 0 .. LogMax
    /\ writing \in [Threads -> 0 .. LogMax]
    /\ trim \in {"no", "read", "write", "report"} /\ mixed \in BOOLEAN
ClientTypes ==
    /\ reader \in {"none", "read", "send"} /\ roff \in Nat /\ line \in Seq(Chunk)
    /\ le \in [Slots -> Seq(Chunk)] /\ i \in Slots /\ nrec \in Nat
    /\ answer \in Seq(Seq(Chunk)) /\ read \in Seq(Seq(Chunk))

LEMMA Types == TypeOK <=> LogTypes /\ ClientTypes
BY DEF TypeOK, LogTypes, ClientTypes

LEMMA TypesStay ==
    /\ LogTypes /\ UNCHANGED <<log, trimmer>> => LogTypes'
    /\ ClientTypes /\ UNCHANGED client => ClientTypes'
BY DEF LogTypes, ClientTypes, log, trimmer, client, ring

LEMMA InitInv == Init => IInv
<1> SUFFICES ASSUME Init PROVE IInv
  OBVIOUS
<1> USE EventAssumption DEF Init
<1>1. /\ DOMAIN file = {} /\ DOMAIN buf = {} /\ Len(file) = 0
  OBVIOUS
<1>2. TypeOK
  <2>1. 0 \in Slots /\ LogMax \in Nat
    BY DEF Slots
  <2>2. <<>> \in Seq(Chunk) /\ <<>> \in Seq(Seq(Chunk))
    OBVIOUS
  <2>3. LogTypes
    <3>1. mixed \in BOOLEAN
      OBVIOUS
    <3>2. /\ file \in Seq(Chunk) /\ buf \in Seq(Chunk) /\ pos \in Nat /\ n \in 0 .. LogMax
          /\ trim \in {"no", "read", "write", "report"}
      BY <2>1, <2>2
    <3>3. writing \in [Threads -> 0 .. LogMax]
      BY <2>1
    <3>4. QED
      BY <3>1, <3>2, <3>3 DEF LogTypes
  <2>4. ClientTypes
    BY <2>1, <2>2 DEF ClientTypes
  <2>5. QED
    BY <2>3, <2>4, Types
<1>3. Pending
  BY <1>1 DEF Pending
<1>4. Trimming
  BY <1>1 DEF Trimming, Apart
<1>5. Ring
  BY DEF Ring
<1>6. QED
  BY <1>2, <1>3, <1>4, <1>5 DEF IInv

\* The steps of the threads that log.
LEMMA LogStep ==
    ASSUME IInv,
           \/ \E t \in Threads : LogDate(t) \/ LogMessage(t)
           \/ TrimStarts \/ TrimReads \/ TrimTruncates \/ TrimWrites \/ TrimFails
    PROVE  LogTypes' /\ Pending' /\ Trimming' /\ UNCHANGED client
<1> USE DEF LogTypes, IInv, TypeOK
<1>1. ASSUME NEW t \in Threads, LogDate(t)
      PROVE  LogTypes' /\ Pending' /\ Trimming' /\ UNCHANGED client
  <2>1. file' \in Seq(Chunk) /\ pos' \in Nat /\ Pending' /\ Trimming'
    BY <1>1, DateLogged
  <2>2. n' \in 0 .. LogMax /\ writing' \in [Threads -> 0 .. LogMax] /\ mixed' \in BOOLEAN
    BY <1>1, EventAssumption DEF LogDate, Meets
  <2>3. QED
    BY <1>1, <2>1, <2>2 DEF LogDate, trimmer
<1>2. ASSUME NEW t \in Threads, LogMessage(t)
      PROVE  LogTypes' /\ Pending' /\ Trimming' /\ UNCHANGED client
  <2>1. file' \in Seq(Chunk) /\ pos' \in Nat /\ Pending' /\ Trimming'
    BY <1>2, MessageLogged
  <2>2. writing' \in [Threads -> 0 .. LogMax] /\ mixed' \in BOOLEAN
    BY <1>2, EventAssumption DEF LogMessage, Meets
  <2>3. QED
    BY <1>2, <2>1, <2>2 DEF LogMessage
<1>3. CASE TrimStarts
  BY <1>3, Started DEF TrimStarts
<1>4. CASE TrimReads
  BY <1>4, TailCopied DEF TrimReads
<1>5. CASE TrimTruncates
  BY <1>5, Truncated DEF TrimTruncates
<1>6. CASE TrimWrites
  <2>1. Appends(SubSeq(buf, 1, Len(buf))) /\ Len(buf) \in 0 .. Len(buf)
    BY <1>6, WholeTail DEF TrimWrites
  <2>2. file' \in Seq(Chunk) /\ pos' \in Nat /\ Pending' /\ Trimming'
    BY <1>6, <2>1, WrittenBack DEF TrimWrites
  <2>3. QED
    BY <1>6, <2>2 DEF TrimWrites
<1>7. CASE TrimFails
  <2>1. PICK m \in 0 .. Len(buf) - 1 : Appends(SubSeq(buf, 1, m))
    BY <1>7 DEF TrimFails
  <2>2. m \in 0 .. Len(buf)
    BY LenProperties
  <2>3. file' \in Seq(Chunk) /\ pos' \in Nat /\ Pending' /\ Trimming'
    BY <1>7, <2>1, <2>2, WrittenBack DEF TrimFails
  <2>4. QED
    BY <1>7, <2>3 DEF TrimFails
<1>8. QED
  BY <1>1, <1>2, <1>3, <1>4, <1>5, <1>6, <1>7

\* A line is sent: the next one is at the index.
LEMMA Sent ==
    ASSUME IInv, SendEvent
    PROVE  ClientTypes' /\ Ring'
<1> USE NLENat
<1>1. /\ reader = "send" /\ Len(answer) < nrec
      /\ answer' = Append(answer, le[i])
      /\ i' = IF i + 1 >= NLE THEN 0 ELSE i + 1
      /\ reader' = "send" /\ UNCHANGED <<roff, line, le, nrec, read>>
  BY DEF SendEvent, NextSlot
<1>2. /\ le \in [Slots -> Seq(Chunk)] /\ i \in Slots /\ nrec \in Nat
      /\ answer \in Seq(Seq(Chunk)) /\ Len(answer) \in Nat /\ DOMAIN answer = 1 .. Len(answer)
      /\ read \in Seq(Seq(Chunk)) /\ Len(read) \in Nat
      /\ Last \in Nat
  BY LenProperties DEF IInv, TypeOK, Last
<1>3. /\ nrec = Len(read) - Last
      /\ \A e \in 0 .. NLE - 1 : Len(answer) + e < nrec
             => le[Ahead(e)] = read[Last + Len(answer) + e + 1]
      /\ \A j \in DOMAIN answer : answer[j] = read[Last + j]
  BY <1>1 DEF IInv, Ring, LastLines
<1>4. Last' = Last
  BY <1>1 DEF Last
<1>5. le[i] \in Seq(Chunk)
  BY <1>2
<1>6. /\ answer' \in Seq(Seq(Chunk)) /\ Len(answer') = Len(answer) + 1
      /\ \A j \in 1 .. Len(answer) : answer'[j] = answer[j]
      /\ answer'[Len(answer) + 1] = le[i]
  BY <1>1, <1>2, <1>5, AppendProperties
<1>7. i' \in Slots
  BY <1>1, <1>2
<1>8. ClientTypes'
  BY <1>1, <1>6, <1>7 DEF ClientTypes, IInv, TypeOK
<1>9. le[i] = read[Last + Len(answer) + 1]
  <2>1. Ahead(0) = i /\ 0 \in 0 .. NLE - 1 /\ Len(answer) + 0 < nrec
    BY <1>1, <1>2 DEF Ahead
  <2>2. le[Ahead(0)] = read[Last + Len(answer) + 0 + 1]
    BY <1>3, <2>1
  <2>3. Last + Len(answer) + 0 + 1 = Last + Len(answer) + 1
    BY <1>2
  <2>4. QED
    BY <2>1, <2>2, <2>3
<1>10. \A j \in DOMAIN answer' : answer'[j] = read'[Last' + j]
  <2>1. DOMAIN answer' = 1 .. Len(answer) + 1
    BY <1>6, LenProperties
  <2>2. ASSUME NEW j \in 1 .. Len(answer) + 1 PROVE answer'[j] = read[Last + j]
    <3>1. CASE j \in 1 .. Len(answer)
      BY <1>2, <1>3, <1>6, <3>1
    <3>2. CASE j = Len(answer) + 1
      <4>1. Last + j = Last + Len(answer) + 1
        BY <1>2, <3>2
      <4>2. QED
        BY <1>6, <1>9, <3>2, <4>1
    <3>3. j \in 1 .. Len(answer) \/ j = Len(answer) + 1
      BY <1>2
    <3>4. QED
      BY <3>1, <3>2, <3>3
  <2>3. QED
    BY <1>1, <1>4, <2>1, <2>2
<1>11. ASSUME NEW e \in 0 .. NLE - 1, Len(answer') + e < nrec'
       PROVE  le'[Ahead(e)'] = read'[Last' + Len(answer') + e + 1]
  <2>1. e + 1 \in 0 .. NLE - 1
    <3>1. nrec <= NLE
      BY <1>2, <1>3 DEF Last
    <3>2. QED
      BY <1>1, <1>2, <1>6, <1>11, <3>1
  <2>2. Len(answer) + (e + 1) < nrec
    BY <1>1, <1>2, <1>6, <1>11
  <2>3. le[Ahead(e + 1)] = read[Last + Len(answer) + (e + 1) + 1]
    BY <1>3, <2>1, <2>2
  <2>4. Ahead(e)' = Ahead(e + 1)
    BY <1>1, <1>2, <2>1 DEF Ahead
  <2>5. Last + Len(answer) + (e + 1) + 1 = Last' + Len(answer') + e + 1
    BY <1>2, <1>4, <1>6
  <2>6. QED
    BY <1>1, <2>3, <2>4, <2>5
<1>12. nrec' = Len(read') - Last' /\ Len(answer') <= nrec'
  BY <1>1, <1>2, <1>3, <1>4, <1>6
<1>13. Ring'
  BY <1>1, <1>10, <1>11, <1>12 DEF Ring, LastLines
<1>14. QED
  BY <1>8, <1>13

\* The steps of the client's thread.
LEMMA ClientStep ==
    ASSUME IInv, ReadStarts \/ ReadChunk \/ ReadEnds \/ SendEvent \/ SendEnds
    PROVE  ClientTypes' /\ Ring' /\ UNCHANGED <<log, trimmer>>
<1>0. /\ file \in Seq(Chunk) /\ line \in Seq(Chunk) /\ roff \in Nat /\ answer \in Seq(Seq(Chunk))
      /\ Len(file) \in Nat /\ DOMAIN file = 1 .. Len(file)
  BY LenProperties DEF IInv, TypeOK
<1>1. CASE ReadStarts
  <2>1. /\ reader' = "read" /\ roff' = 0 /\ line' = <<>>
        /\ le' = [k \in Slots |-> <<>>] /\ i' = 0 /\ nrec' = 0
        /\ answer' = <<>> /\ read' = <<>>
    BY <1>1 DEF ReadStarts
  <2>2. ClientTypes'
    BY <2>1, NLENat DEF ClientTypes
  <2>3. Ring'
    BY <2>1, NLENat DEF Ring
  <2>4. QED
    BY <1>1, <2>2, <2>3 DEF ReadStarts
<1>2. CASE ReadChunk
  <2>1. /\ reader = "read" /\ reader' = "read" /\ roff' = roff + 1 /\ answer' = answer
        /\ roff < Len(file)
    BY <1>2 DEF ReadChunk
  <2>2. PICK s : s = Append(line, file[roff + 1])
    OBVIOUS
  <2>3. s \in Seq(Chunk)
    <3>1. file[roff + 1] \in Chunk
      BY <1>0, <2>1, ElementOfSeq
    <3>2. QED
      BY <1>0, <2>2, <3>1, AppendProperties
  <2>4. CASE Store(s)
    <3>1. /\ le' \in [Slots -> Seq(Chunk)] /\ i' \in Slots /\ nrec' \in Nat
          /\ line' \in Seq(Chunk) /\ read' \in Seq(Seq(Chunk))
          /\ nrec' = Len(read')
          /\ nrec' < NLE => i' = nrec'
          /\ nrec' = NLE => i' = 0
          /\ \A d \in 1 .. NLE : d <= nrec' => le'[Behind(d)'] = read'[nrec' - d + 1]
      BY <2>1, <2>3, <2>4, Stored DEF IInv
    <3>2. ClientTypes' /\ Ring'
      <4>1. answer = <<>>
        BY <2>1 DEF IInv, Ring
      <4>2. ClientTypes'
        BY <1>0, <2>1, <3>1 DEF ClientTypes
      <4>3. Ring'
        BY <2>1, <3>1, <4>1 DEF Ring
      <4>4. QED
        BY <4>2, <4>3
    <3>3. QED
      BY <1>2, <3>2 DEF ReadChunk
  <2>5. CASE line' = s /\ UNCHANGED <<le, i, nrec, read>>
    <3>1. ClientTypes'
      BY <1>0, <2>1, <2>3, <2>5 DEF ClientTypes, IInv, TypeOK
    <3>2. Ring'
      BY <2>1, <2>5 DEF IInv, Ring, Behind
    <3>3. QED
      BY <1>2, <3>1, <3>2 DEF ReadChunk
  <2>6. QED
    BY <1>2, <2>2, <2>4, <2>5 DEF ReadChunk
<1>3. CASE ReadEnds
  <2>1. CASE line # <<>>
    <3>1. /\ reader = "read" /\ reader' = "read" /\ roff' = roff /\ answer' = answer
          /\ Store(line)
      BY <1>3, <2>1 DEF ReadEnds
    <3>2. /\ le' \in [Slots -> Seq(Chunk)] /\ i' \in Slots /\ nrec' \in Nat
          /\ line' \in Seq(Chunk) /\ read' \in Seq(Seq(Chunk))
          /\ nrec' = Len(read')
          /\ nrec' < NLE => i' = nrec'
          /\ nrec' = NLE => i' = 0
          /\ \A d \in 1 .. NLE : d <= nrec' => le'[Behind(d)'] = read'[nrec' - d + 1]
      BY <1>0, <3>1, Stored DEF IInv
    <3>3. ClientTypes' /\ Ring'
      <4>1. answer = <<>>
        BY <3>1 DEF IInv, Ring
      <4>2. ClientTypes'
        BY <1>0, <3>1, <3>2 DEF ClientTypes
      <4>3. Ring'
        BY <3>1, <3>2, <4>1 DEF Ring
      <4>4. QED
        BY <4>2, <4>3
    <3>4. QED
      BY <1>3, <3>3 DEF ReadEnds
  <2>2. CASE line = <<>>
    <3>1. /\ reader = "read" /\ reader' = "send" /\ roff' = roff /\ line' = line
          /\ le' = le /\ read' = read /\ answer' = answer
          /\ i' = IF nrec > NLE THEN i ELSE 0
          /\ nrec' = IF nrec > NLE THEN NLE ELSE nrec
      BY <1>3, <2>2 DEF ReadEnds
    <3>2. answer = <<>>
      BY <3>1 DEF IInv, Ring
    <3>3. /\ i' \in Slots /\ nrec' \in Nat
          /\ nrec' = Len(read') - Last' /\ Len(answer') <= nrec'
          /\ \A e \in 0 .. NLE - 1 : Len(answer') + e < nrec'
               => le'[Ahead(e)'] = read'[Last' + Len(answer') + e + 1]
          /\ \A j \in DOMAIN answer' : answer'[j] = read'[Last' + j]
      BY <3>1, <3>2, Turned DEF IInv
    <3>4. ClientTypes'
      BY <3>1, <3>3 DEF ClientTypes, IInv, TypeOK
    <3>5. Ring'
      BY <3>1, <3>3 DEF Ring, LastLines
    <3>6. QED
      BY <1>3, <3>4, <3>5 DEF ReadEnds
  <2>3. QED
    BY <2>1, <2>2
<1>4. CASE SendEvent
  BY <1>4, Sent DEF SendEvent
<1>5. CASE SendEnds
  <2>1. ClientTypes'
    BY <1>5 DEF SendEnds, ClientTypes, IInv, TypeOK, ring
  <2>2. Ring'
    BY <1>5 DEF SendEnds, Ring
  <2>3. QED
    BY <1>5, <2>1, <2>2 DEF SendEnds
<1>6. QED
  BY <1>1, <1>2, <1>3, <1>4, <1>5

LEMMA StepInv == IInv /\ [Next]_vars => IInv'
<1> SUFFICES ASSUME IInv, [Next]_vars PROVE IInv'
  OBVIOUS
<1>1. LogTypes /\ ClientTypes
  BY Types DEF IInv
<1>2. CASE \/ \E t \in Threads : LogDate(t) \/ LogMessage(t)
           \/ TrimStarts \/ TrimReads \/ TrimTruncates \/ TrimWrites \/ TrimFails
  <2>1. LogTypes' /\ Pending' /\ Trimming' /\ UNCHANGED client
    BY <1>2, LogStep
  <2>2. ClientTypes' /\ Ring'
    BY <1>1, <2>1, TypesStay, RingStays DEF IInv
  <2>3. TypeOK'
    BY <2>1, <2>2, Types, PTL
  <2>4. QED
    BY <2>1, <2>2, <2>3 DEF IInv
<1>3. CASE ReadStarts \/ ReadChunk \/ ReadEnds \/ SendEvent \/ SendEnds
  <2>1. ClientTypes' /\ Ring' /\ UNCHANGED <<log, trimmer>>
    BY <1>3, ClientStep
  <2>2. LogTypes' /\ Pending' /\ Trimming'
    BY <1>1, <2>1, TypesStay, LogStays DEF IInv
  <2>3. TypeOK'
    BY <2>1, <2>2, Types, PTL
  <2>4. QED
    BY <2>1, <2>2, <2>3 DEF IInv
<1>4. CASE UNCHANGED vars
  <2>1. UNCHANGED <<log, trimmer>> /\ UNCHANGED client
    BY <1>4 DEF vars
  <2>2. LogTypes' /\ ClientTypes' /\ Pending' /\ Trimming' /\ Ring'
    BY <1>1, <2>1, TypesStay, LogStays, RingStays DEF IInv
  <2>3. TypeOK'
    BY <2>2, Types, PTL
  <2>4. QED
    BY <2>2, <2>3 DEF IInv
<1>5. QED
  BY <1>2, <1>3, <1>4 DEF Next

LEMMA Invariance == Spec => []IInv
BY InitInv, StepInv, PTL DEF Spec

-----------------------------------------------------------------------------
(* Theorems *)

\* The types, and the ring of lines indexed within its bounds, for every length of an
\* answer (output_events(), apcevents.c:120-171).
THEOREM EventTypeCorrect == Spec => []TypeOK
<1>1. IInv => TypeOK
  BY DEF IInv
<1>2. QED
  BY <1>1, Invariance, PTL

\* However many threads log while the file is trimmed, and whatever part of its tail
\* the disk takes back, nothing is in it twice (apcevents.c:61-99, apclog.c:66-75).
THEOREM StoredOnce == Spec => []NothingTwice
<1>1. IInv => NothingTwice
  BY DEF IInv, Trimming, NothingTwice
<1>2. QED
  BY <1>1, Invariance, PTL

\* A client is sent the last lines that were read for it (apcevents.c:135-155).
THEOREM ClientGetsLast == Spec => []LastLines
<1>1. IInv => LastLines
  BY DEF IInv, Ring, LastLines
<1>2. QED
  BY <1>1, Invariance, PTL

-----------------------------------------------------------------------------
(* The end of the log *)

\* The p-th chunk ever logged, if every event is written at a stretch.
Piece(p) == <<(p + 1) \div 2, IF p % 2 = 1 THEN "date" ELSE "message">>
Stretch(s, b) == \A j \in DOMAIN s : s[j] = Piece(b + j)

\* The number of chunks logged so far, and a sequence of the last ones that begins with
\* a whole line, and with the first one unless it is long enough.
Total == IF \E t \in Threads : writing[t] # 0 THEN 2 * n - 1 ELSE 2 * n
EndOfLog(s) == \E c \in Nat : /\ 2 * c + Len(s) = Total /\ Stretch(s, 2 * c)
                              /\ (c = 0 \/ Len(s) >= Keep - 2)

\* Nobody has logged into a line of another, or into a trim.
Alone ==
    /\ \A t, u \in Threads : writing[t] # 0 /\ writing[u] # 0 => t = u
    /\ \A t \in Threads : writing[t] # 0 => writing[t] = n
    /\ trim # "no" => \A t \in Threads : writing[t] = 0

\* The end of the log is in the file, or in the buffer when the file is truncated. The
\* buffer fills with the last Keep chunks.
Kept ==
    /\ trim # "report"
    /\ trim \in {"no", "read"} => EndOfLog(file)
    /\ trim = "read" => /\ Len(file) > Max /\ pos = Len(file) - Keep + Len(buf)
                        /\ \A j \in DOMAIN buf : buf[j] = file[Len(file) - Keep + j]
    /\ trim = "write" => file = <<>> /\ EndOfLog(buf)

Orderly == ~ mixed => Alone /\ Kept

\* The chunks of an event.
LEMMA Pieces ==
    ASSUME NEW c \in Nat
    PROVE  Piece(2 * c + 1) = <<c + 1, "date">> /\ Piece(2 * c + 2) = <<c + 1, "message">>
<1>1. (2 * c + 1) % 2 = 1 /\ ((2 * c + 1) + 1) \div 2 = c + 1
  OBVIOUS
<1>2. (2 * c + 2) % 2 = 0 /\ ((2 * c + 2) + 1) \div 2 = c + 1
  OBVIOUS
<1>3. QED
  BY <1>1, <1>2 DEF Piece

\* An even number or an odd one.
LEMMA Halves ==
    ASSUME NEW p \in Nat
    PROVE  \E h \in Nat : p = 2 * h \/ p = 2 * h + 1
<1>1. p \div 2 \in Nat /\ (p = 2 * (p \div 2) \/ p = 2 * (p \div 2) + 1)
  OBVIOUS
<1>2. QED
  BY <1>1

\* The numbers in play.
LEMMA LogNumbers ==
    ASSUME TypeOK
    PROVE  /\ n \in Nat /\ Total \in Int /\ Keep \in Nat \ {0} /\ Max \in Nat /\ Keep <= Max
           /\ file \in Seq(Chunk) /\ Len(file) \in Nat /\ DOMAIN file = 1 .. Len(file)
           /\ buf \in Seq(Chunk) /\ Len(buf) \in Nat /\ DOMAIN buf = 1 .. Len(buf)
           /\ writing \in [Threads -> Nat] /\ pos \in Nat
BY EventAssumption, LenProperties DEF TypeOK, Total

\* The next chunk is added to the end of the log.
LEMMA NextPiece ==
    ASSUME TypeOK, TypeOK', EndOfLog(file), NEW c \in Chunk, Appends(<<c>>),
           Total' = Total + 1, c = Piece(Total + 1)
    PROVE  EndOfLog(file)'
<1>1. PICK k \in Nat : 2 * k + Len(file) = Total /\ Stretch(file, 2 * k)
                       /\ (k = 0 \/ Len(file) >= Keep - 2)
  BY DEF EndOfLog
<1>2. /\ <<c>> \in Seq(Chunk) /\ Len(<<c>>) = 1 /\ DOMAIN <<c>> = {1} /\ <<c>>[1] = c
  BY OneChunk
<1>3. /\ Len(file') = Len(file) + 1
      /\ \A j \in DOMAIN file' : IF j \in DOMAIN file THEN file'[j] = file[j]
                                 ELSE j - Len(file) \in DOMAIN <<c>> /\ file'[j] = <<c>>[j - Len(file)]
  BY <1>2, Appended
<1>4. /\ Total \in Int /\ Keep \in Nat /\ Len(file) \in Nat
      /\ DOMAIN file' = 1 .. Len(file')
  BY <1>3, LogNumbers, Appended, <1>2, LenProperties
<1>5. ASSUME NEW j \in DOMAIN file' PROVE file'[j] = Piece(2 * k + j)
  <2>1. CASE j \in DOMAIN file
    BY <1>1, <1>3, <2>1 DEF Stretch
  <2>2. CASE j \notin DOMAIN file
    <3>1. j - Len(file) = 1 /\ file'[j] = c
      BY <1>2, <1>3, <2>2
    <3>2. 2 * k + j = Total + 1
      BY <1>1, <1>4, <3>1
    <3>3. QED
      BY <3>1, <3>2
  <2>3. QED
    BY <2>1, <2>2
<1>6. 2 * k + Len(file') = Total' /\ (k = 0 \/ Len(file') >= Keep - 2)
  BY <1>1, <1>3, <1>4
<1>7. Stretch(file', 2 * k)
  BY <1>5 DEF Stretch
<1>8. QED
  BY <1>6, <1>7 DEF EndOfLog

\* A date, then its message, when nobody else is in a line.
LEMMA OrderlyDate ==
    ASSUME IInv, IInv', Orderly, NEW t \in Threads, LogDate(t)
    PROVE  Orderly'
<1> SUFFICES ASSUME ~ mixed'
             PROVE  Alone' /\ Kept'
  BY DEF Orderly
<1>1. /\ trim = "no" /\ \A u \in Threads : writing[u] = 0
      /\ Alone /\ Kept
  BY DEF LogDate, Meets, Orderly
<1>2. /\ n' = n + 1 /\ Appends(<< <<n + 1, "date">> >>)
      /\ writing' = [writing EXCEPT ![t] = n + 1] /\ trim' = trim
      /\ n < LogMax
  BY DEF LogDate, trimmer
<1>3. n \in Nat /\ writing \in [Threads -> Nat] /\ LogMax \in Nat /\ TypeOK /\ TypeOK'
  BY LogNumbers, EventAssumption DEF IInv
<1>4. /\ \A u \in Threads : writing'[u] = IF u = t THEN n + 1 ELSE 0
  BY <1>1, <1>2, <1>3
<1>5. Total = 2 * n /\ Total' = 2 * n + 1
  <2>1. writing'[t] # 0
    BY <1>3, <1>4
  <2>2. Total' = 2 * n' - 1
    BY <2>1 DEF Total
  <2>3. Total = 2 * n
    BY <1>1 DEF Total
  <2>4. QED
    BY <1>2, <1>3, <2>2, <2>3
<1>6. <<n + 1, "date">> = Piece(Total + 1) /\ <<n + 1, "date">> \in Chunk
  BY <1>2, <1>3, <1>5, Pieces DEF Chunk
<1>7. EndOfLog(file)'
  <2>1. EndOfLog(file)
    BY <1>1 DEF Kept
  <2>2. PICK c \in Chunk : c = <<n + 1, "date">>
    BY <1>6
  <2>3. Appends(<<c>>) /\ Total' = Total + 1 /\ c = Piece(Total + 1)
    BY <1>2, <1>5, <1>3, <1>6, <2>2
  <2>4. QED
    BY <1>3, <2>1, <2>3, NextPiece
<1>8. Alone'
  BY <1>1, <1>2, <1>3, <1>4 DEF Alone
<1>9. Kept'
  BY <1>1, <1>2, <1>7 DEF Kept
<1>10. QED
  BY <1>8, <1>9

\* The message ends the line.
LEMMA OrderlyMessage ==
    ASSUME IInv, IInv', Orderly, NEW t \in Threads, LogMessage(t)
    PROVE  Orderly'
<1> SUFFICES ASSUME ~ mixed'
             PROVE  Alone' /\ Kept'
  BY DEF Orderly
<1>1. /\ trim = "no" /\ \A u \in Threads \ {t} : writing[u] = 0
      /\ Alone /\ Kept /\ writing[t] # 0
  BY DEF LogMessage, Meets, Orderly
<1>2. /\ n' = n /\ Appends(<< <<writing[t], "message">> >>)
      /\ writing' = [writing EXCEPT ![t] = 0] /\ trim' = "no"
  BY <1>1 DEF LogMessage
<1>3. n \in Nat /\ writing \in [Threads -> Nat] /\ TypeOK /\ TypeOK'
  BY LogNumbers DEF IInv
<1>4. writing[t] = n /\ n > 0 /\ \A u \in Threads : writing'[u] = 0
  BY <1>1, <1>2, <1>3 DEF Alone
<1>5. Total = 2 * n - 1 /\ Total' = 2 * n
  BY <1>1, <1>2, <1>4 DEF Total
<1>6. PICK c \in Chunk : c = <<n, "message">>
  <2>1. n \in 1 .. LogMax
    BY <1>3, <1>4, EventAssumption DEF IInv, TypeOK
  <2>2. <<n, "message">> \in Chunk
    BY <2>1 DEF Chunk
  <2>3. QED
    BY <2>2
<1>7. c = Piece(Total + 1)
  <2>1. PICK m \in Nat : n = m + 1
    <3>1. n - 1 \in Nat /\ n = (n - 1) + 1
      BY <1>3, <1>4
    <3>2. QED
      BY <3>1
  <2>2. Total + 1 = 2 * m + 2
    BY <1>5, <2>1
  <2>3. QED
    BY <1>6, <2>1, <2>2, Pieces
<1>8. EndOfLog(file)'
  <2>1. EndOfLog(file)
    BY <1>1 DEF Kept
  <2>2. Appends(<<c>>) /\ Total' = Total + 1
    BY <1>2, <1>3, <1>4, <1>5, <1>6
  <2>3. QED
    BY <1>3, <1>7, <2>1, <2>2, NextPiece
<1>9. Alone'
  BY <1>2, <1>4 DEF Alone
<1>10. Kept'
  BY <1>2, <1>8 DEF Kept
<1>11. QED
  BY <1>9, <1>10

\* What the end of the log is does not depend on where it is kept.
LEMMA SameEnd ==
    ASSUME NEW s, EndOfLog(s), n' = n, writing' = writing, s' = s
    PROVE  EndOfLog(s)'
BY DEF EndOfLog, Total, Stretch, Piece

\* A trim begins while nobody writes.
LEMMA OrderlyStart ==
    ASSUME IInv, Orderly, TrimStarts
    PROVE  Orderly'
<1> SUFFICES ASSUME ~ mixed'
             PROVE  Alone' /\ Kept'
  BY DEF Orderly
<1>1. /\ trim = "no" /\ \A t \in Threads : writing[t] = 0
      /\ Alone /\ Kept
  BY DEF TrimStarts, Orderly
<1>2. /\ Len(file) > Max /\ trim' = "read" /\ pos' = Len(file) - Keep
      /\ UNCHANGED <<file, n, writing, buf>>
  BY DEF TrimStarts
<1>3. buf = <<>> /\ Len(buf) = 0 /\ DOMAIN buf = {}
  BY <1>1 DEF IInv, Trimming
<1>4. Alone'
  BY <1>1, <1>2 DEF Alone
<1>5. EndOfLog(file)'
  BY <1>1, <1>2 DEF Kept, EndOfLog, Total, Stretch
<1>6. pos' = Len(file') - Keep + Len(buf')
  BY <1>2, <1>3, LogNumbers DEF IInv
<1>7. Kept'
  BY <1>2, <1>3, <1>5, <1>6 DEF Kept
<1>8. QED
  BY <1>4, <1>7

\* The buffer goes on where it stopped.
LEMMA OrderlyReads ==
    ASSUME IInv, Orderly, TrimReads
    PROVE  Orderly'
<1> SUFFICES ASSUME ~ mixed'
             PROVE  Alone' /\ Kept'
  BY DEF Orderly
<1>1. /\ trim = "read" /\ Alone /\ Kept
      /\ UNCHANGED <<file, n, writing, trim>>
  BY DEF TrimReads, Orderly
<1>2. PICK m \in 1 .. Keep - Len(buf) :
          /\ pos + m <= Len(file)
          /\ buf' = buf \o SubSeq(file, pos + 1, pos + m)
          /\ pos' = pos + m
  BY DEF TrimReads
<1>3. /\ Keep \in Nat /\ pos \in Nat /\ m \in Nat \ {0}
      /\ file \in Seq(Chunk) /\ Len(file) \in Nat /\ DOMAIN file = 1 .. Len(file)
      /\ buf \in Seq(Chunk) /\ Len(buf) \in Nat /\ DOMAIN buf = 1 .. Len(buf)
  BY LogNumbers DEF IInv
<1>4. PICK s : s = SubSeq(file, pos + 1, pos + m)
  OBVIOUS
<1>5. /\ s \in Seq(Chunk) /\ Len(s) = m
      /\ \A j \in 1 .. m : s[j] = file[pos + j]
  <2>1. PICK a \in Nat, b \in Nat : a = pos + 1 /\ b = pos + m
    BY <1>3
  <2>2. \A j \in a .. b : file[j] \in Chunk
    BY <1>2, <1>3, <2>1
  <2>3. /\ s = SubSeq(file, a, b)
        /\ s \in Seq(Chunk) /\ Len(s) = IF a <= b THEN b - a + 1 ELSE 0
        /\ \A j \in 1 .. b - a + 1 : s[j] = file[a + j - 1]
    BY <1>4, <2>1, <2>2, SubSeqProperties
  <2>4. b - a + 1 = m /\ a <= b /\ \A j \in 1 .. m : a + j - 1 = pos + j
    BY <1>3, <2>1
  <2>5. QED
    BY <2>3, <2>4
<1>6. /\ Len(buf') = Len(buf) + m /\ buf' \in Seq(Chunk)
      /\ DOMAIN buf' = 1 .. Len(buf) + m
      /\ \A j \in 1 .. Len(buf) + m :
            buf'[j] = IF j <= Len(buf) THEN buf[j] ELSE s[j - Len(buf)]
  BY <1>2, <1>3, <1>4, <1>5, ConcatProperties, LenProperties
<1>7. /\ pos = Len(file) - Keep + Len(buf) /\ Len(file) > Max
      /\ \A j \in DOMAIN buf : buf[j] = file[Len(file) - Keep + j]
  BY <1>1 DEF Kept
<1>8. ASSUME NEW j \in DOMAIN buf' PROVE buf'[j] = file[Len(file) - Keep + j]
  <2>1. CASE j <= Len(buf)
    BY <1>3, <1>6, <1>7, <2>1
  <2>2. CASE ~ (j <= Len(buf))
    <3>1. j - Len(buf) \in 1 .. m /\ pos + (j - Len(buf)) = Len(file) - Keep + j
      BY <1>3, <1>6, <1>7, <2>2
    <3>2. QED
      BY <1>5, <1>6, <2>2, <3>1
  <2>3. QED
    BY <2>1, <2>2
<1>9. pos' = Len(file') - Keep + Len(buf')
  BY <1>1, <1>2, <1>3, <1>6, <1>7
<1>10. Alone'
  BY <1>1 DEF Alone
<1>11. EndOfLog(file)'
  BY <1>1 DEF Kept, EndOfLog, Total, Stretch
<1>12. Kept'
  BY <1>1, <1>7, <1>8, <1>9, <1>11 DEF Kept
<1>13. QED
  BY <1>10, <1>12

\* Whole lines before it leave a chunk's place in its line as it is.
LEMMA Shifted ==
    ASSUME NEW c \in Nat, NEW j \in Nat, j >= 1
    PROVE  (2 * c + j) % 2 = j % 2 /\ ((2 * c + j) + 1) \div 2 = (c + 1) + (j - 1) \div 2
<1>1. PICK m \in Nat : j = 2 * m + 1 \/ j = 2 * m + 2
  <2>1. (j - 1) \div 2 \in Nat /\ (j = 2 * ((j - 1) \div 2) + 1 \/ j = 2 * ((j - 1) \div 2) + 2)
    OBVIOUS
  <2>2. QED
    BY <2>1
<1>2. CASE j = 2 * m + 1
  <2>1. j % 2 = 1 /\ (j - 1) \div 2 = m
    BY <1>2
  <2>2. (2 * c + j) % 2 = 1 /\ ((2 * c + j) + 1) \div 2 = c + m + 1
    BY <1>2
  <2>3. QED
    BY <2>1, <2>2
<1>3. CASE j = 2 * m + 2
  <2>1. j % 2 = 0 /\ (j - 1) \div 2 = m
    BY <1>3
  <2>2. (2 * c + j) % 2 = 0 /\ ((2 * c + j) + 1) \div 2 = c + m + 1
    BY <1>3
  <2>3. QED
    BY <2>1, <2>2
<1>4. QED
  BY <1>1, <1>2, <1>3

\* The tail ends with a message, so that a whole line begins in it after one chunk or
\* after two.
LEMMA OrderlyTruncates ==
    ASSUME IInv, Orderly, TrimTruncates
    PROVE  Orderly'
<1> SUFFICES ASSUME ~ mixed'
             PROVE  Alone' /\ Kept'
  BY DEF Orderly
<1>1. /\ trim = "read" /\ trim' = "write" /\ Alone /\ Kept /\ file' = <<>>
      /\ UNCHANGED <<n, writing>>
      /\ \A t \in Threads : writing[t] = 0
  BY DEF TrimTruncates, TailRead, Orderly, Alone
<1>2. /\ Keep \in Nat \ {0} /\ Max \in Nat /\ Keep <= Max /\ pos \in Nat /\ n \in Nat
      /\ file \in Seq(Chunk) /\ Len(file) \in Nat /\ DOMAIN file = 1 .. Len(file)
      /\ buf \in Seq(Chunk) /\ Len(buf) \in Nat /\ DOMAIN buf = 1 .. Len(buf)
  <2>1. TypeOK
    BY DEF IInv
  <2>2. QED
    BY <2>1, LogNumbers
<1>3. /\ pos = Len(file) - Keep + Len(buf) /\ Len(file) > Max
      /\ \A j \in DOMAIN buf : buf[j] = file[Len(file) - Keep + j]
  <2>1. trim = "read" /\ Kept
    BY <1>1
  <2>2. QED
    BY <2>1 DEF Kept
<1>4. Len(buf) = Keep
  <2>1. Len(buf) <= Keep
    BY <1>1 DEF IInv, Trimming
  <2>2. Len(buf) = Keep \/ pos >= Len(file)
    BY DEF TrimTruncates, TailRead
  <2>. DEFINE l == Len(file)
              b == Len(buf)
  <2>3. l \in Nat /\ b \in Nat /\ Keep \in Nat
    BY <1>2
  <2>4. b <= Keep /\ (b = Keep \/ l - Keep + b >= l)
    BY <1>3, <2>1, <2>2
  <2>. HIDE DEF l, b
  <2>5. b = Keep
    BY <2>3, <2>4
  <2>6. QED
    BY <2>5 DEF b
<1>5. PICK c \in Nat : 2 * c + Len(file) = Total /\ Stretch(file, 2 * c)
  BY <1>1 DEF Kept, EndOfLog
<1>6. Total = 2 * n
  BY <1>1 DEF Total
<1>7. PICK q \in Nat : q = 2 * c + Len(file) - Keep
  <2>1. 2 * c + Len(file) - Keep \in Nat
    BY <1>2, <1>3
  <2>2. QED
    BY <2>1
<1>8. q + Keep = 2 * n
  BY <1>2, <1>5, <1>6, <1>7
<1>9. \A j \in DOMAIN buf : buf[j] = Piece(q + j)
  <2> SUFFICES ASSUME NEW j \in DOMAIN buf
               PROVE  buf[j] = Piece(q + j)
    OBVIOUS
  <2>1. Len(file) - Keep + j \in DOMAIN file
    BY <1>2, <1>3, <1>4
  <2>2. file[Len(file) - Keep + j] = Piece(2 * c + (Len(file) - Keep + j))
    BY <1>5, <2>1 DEF Stretch
  <2>3. 2 * c + (Len(file) - Keep + j) = q + j
    BY <1>2, <1>7
  <2>4. QED
    BY <1>3, <2>2, <2>3
<1>10. PICK h \in Nat : q = 2 * h \/ q = 2 * h + 1
  BY Halves
<1>11. \A j \in DOMAIN buf : buf[j][2] = "message" <=> (q + j) % 2 = 0
  <2> SUFFICES ASSUME NEW j \in DOMAIN buf
               PROVE  buf[j][2] = "message" <=> (q + j) % 2 = 0
    OBVIOUS
  <2>1. buf[j][2] = IF (q + j) % 2 = 1 THEN "date" ELSE "message"
    BY <1>9 DEF Piece
  <2>2. (q + j) % 2 \in {0, 1}
    BY <1>2
  <2>3. QED
    BY <2>1, <2>2
<1>12. PICK k \in 0 .. Len(buf) : Skips(buf, k) /\ buf' = SubSeq(buf, k + 1, Len(buf))
  BY DEF TrimTruncates, WithoutSkipped
<1>13. /\ k # 0 /\ buf[k][2] = "message" /\ \A j \in 1 .. k - 1 : buf[j][2] # "message"
  <2>1. Keep \in DOMAIN buf /\ (q + Keep) % 2 = 0
    BY <1>2, <1>4, <1>8
  <2>2. \E j \in DOMAIN buf : buf[j][2] = "message"
    BY <1>11, <2>1
  <2>3. QED
    BY <1>12, <2>2 DEF Skips
<1>14. k \in {1, 2} /\ (q + k) % 2 = 0
  <2>1. k \in DOMAIN buf /\ (q + k) % 2 = 0
    <3>1. k \in DOMAIN buf
      BY <1>2, <1>13
    <3>2. QED
      BY <1>11, <1>13, <3>1
  <2>2. ASSUME k > 2 PROVE FALSE
    <3>1. 1 \in DOMAIN buf /\ 2 \in DOMAIN buf /\ 1 \in 1 .. k - 1 /\ 2 \in 1 .. k - 1
      BY <1>2, <2>1, <2>2
    <3>2. (q + 1) % 2 # 0 /\ (q + 2) % 2 # 0
      BY <1>11, <1>13, <3>1
    <3>3. QED
      BY <1>10, <3>2
  <2>3. QED
    BY <1>2, <2>1, <2>2
<1>15. PICK b \in Nat : q + k = 2 * b
  BY <1>10, <1>14
<1>16. /\ buf' \in Seq(Chunk) /\ Len(buf') = Keep - k /\ DOMAIN buf' = 1 .. Keep - k
       /\ \A j \in DOMAIN buf' : k + j \in DOMAIN buf /\ buf'[j] = buf[k + j]
  <2>1. PICK f \in 1 .. Len(buf) + 1 : f = k + 1
    BY <1>2
  <2>2. PICK g \in 0 .. Len(buf) : g = Len(buf)
    <3>1. Len(buf) \in 0 .. Len(buf)
      BY <1>2
    <3>2. QED
      BY <3>1
  <2>3. /\ buf' \in Seq(Chunk) /\ Len(buf') = IF f <= g THEN g - f + 1 ELSE 0
        /\ \A j \in DOMAIN buf' : f + j - 1 \in DOMAIN buf /\ buf'[j] = buf[f + j - 1]
    <3>1. buf \in Seq(Chunk) /\ Apart(buf)
      BY <1>2 DEF IInv, Trimming
    <3>2. buf' = SubSeq(buf, f, g)
      BY <1>12, <2>1, <2>2
    <3>3. QED
      BY <3>1, <3>2, Part, Zenon
  <2>4. Len(buf') = Keep - k
    <3>1. (IF k + 1 <= Keep THEN Keep - (k + 1) + 1 ELSE 0) = Keep - k
      BY <1>2, <1>13, <1>4
    <3>2. g = Keep
      BY <1>4, <2>2
    <3>3. QED
      BY <2>1, <2>3, <3>1, <3>2
  <2>5. DOMAIN buf' = 1 .. Keep - k
    BY <2>3, <2>4, LenProperties
  <2>6. \A j \in DOMAIN buf' : f + j - 1 = k + j
    BY <1>2, <2>1, <2>5
  <2>7. QED
    BY <2>3, <2>4, <2>5, <2>6
<1>17. Stretch(buf', 2 * b)
  <2>1. ASSUME NEW j \in DOMAIN buf' PROVE buf'[j] = Piece(2 * b + j)
    <3>1. buf'[j] = Piece(q + (k + j))
      BY <1>9, <1>16
    <3>2. q + (k + j) = 2 * b + j
      BY <1>15, <1>16
    <3>3. QED
      BY <3>1, <3>2
  <2>2. QED
    BY <2>1 DEF Stretch
<1>18. 2 * b + Len(buf') = Total' /\ Len(buf') >= Keep - 2
  <2>1. Total' = 2 * n
    BY <1>1 DEF Total
  <2>2. QED
    BY <1>2, <1>8, <1>14, <1>15, <1>16, <2>1
<1>19. EndOfLog(buf)'
  BY <1>17, <1>18 DEF EndOfLog
<1>20. Alone'
  BY <1>1 DEF Alone
<1>21. Kept'
  BY <1>1, <1>19 DEF Kept
<1>22. QED
  BY <1>20, <1>21

\* The buffer becomes the file.
LEMMA OrderlyWrites ==
    ASSUME IInv, Orderly, TrimWrites
    PROVE  Orderly'
<1> SUFFICES ASSUME ~ mixed'
             PROVE  Alone' /\ Kept'
  BY DEF Orderly
<1>1. /\ trim = "write" /\ trim' = "no" /\ Alone /\ Kept /\ UNCHANGED <<n, writing>>
      /\ file' = file \o buf
  BY DEF TrimWrites, Orderly, Appends
<1>2. file = <<>> /\ EndOfLog(buf)
  BY <1>1 DEF Kept
<1>3. file' = buf
  BY <1>1, <1>2, LogNumbers DEF IInv
<1>4. EndOfLog(file)'
  BY <1>1, <1>2, <1>3 DEF EndOfLog, Total, Stretch
<1>5. Alone'
  BY <1>1 DEF Alone
<1>6. Kept'
  BY <1>1, <1>4 DEF Kept
<1>7. QED
  BY <1>5, <1>6

LEMMA OrderlyInit == Init => Orderly
<1> SUFFICES ASSUME Init
             PROVE  Alone /\ Kept
  BY DEF Orderly
<1>1. Total = 0 /\ file = <<>> /\ Len(file) = 0 /\ DOMAIN file = {}
  BY DEF Init, Total
<1>2. EndOfLog(file)
  <2>1. 2 * 0 + Len(file) = Total /\ Stretch(file, 2 * 0)
    BY <1>1 DEF Stretch
  <2>2. QED
    BY <2>1 DEF EndOfLog
<1>3. QED
  BY <1>1, <1>2 DEF Init, Alone, Kept

LEMMA OrderlyStep == IInv /\ IInv' /\ Orderly /\ [Next]_vars => Orderly'
<1> SUFFICES ASSUME IInv, IInv', Orderly, [Next]_vars
             PROVE  Orderly'
  OBVIOUS
<1>1. CASE \E t \in Threads : LogDate(t) \/ LogMessage(t)
  BY <1>1, OrderlyDate, OrderlyMessage
<1>2. CASE TrimStarts \/ TrimReads \/ TrimTruncates \/ TrimWrites
  BY <1>2, OrderlyStart, OrderlyReads, OrderlyTruncates, OrderlyWrites
<1>3. CASE TrimFails
  BY <1>3 DEF TrimFails, Orderly
<1>4. CASE UNCHANGED <<log, trimmer>>
  BY <1>4 DEF log, trimmer, Orderly, Alone, Kept, EndOfLog, Total, Stretch
<1>5. QED
  BY <1>1, <1>2, <1>3, <1>4
     DEF Next, vars, ReadStarts, ReadChunk, ReadEnds, SendEvent, SendEnds, log, trimmer

\* While no thread logs into the line of another or into a trim, the file holds the
\* last events in whole lines, and gives up old ones only as far as EVENTSFILEMAX asks
\* for, whatever the sizes and however the tail is read (apcevents.c:61-99).
THEOREM EndOfLogKept == Spec => []EndKept
<1>1. IInv /\ Orderly => EndKept
  <2> SUFFICES ASSUME IInv, Orderly, Quiet, ~ mixed
               PROVE  \E k \in 1 .. n + 1 : /\ file = Lines(k, n)
                                            /\ k = 1 \/ Len(file) >= Keep - 2
    BY DEF EndKept
  <2>1. EndOfLog(file) /\ Total = 2 * n
    BY DEF Quiet, Orderly, Kept, Total
  <2>2. PICK c \in Nat : 2 * c + Len(file) = 2 * n /\ Stretch(file, 2 * c)
                         /\ (c = 0 \/ Len(file) >= Keep - 2)
    BY <2>1 DEF EndOfLog
  <2>3. /\ n \in Nat /\ file \in Seq(Chunk) /\ Len(file) \in Nat
        /\ DOMAIN file = 1 .. Len(file)
    BY LogNumbers DEF IInv
  <2>4. c + 1 \in 1 .. n + 1 /\ Len(file) = 2 * (n - (c + 1) + 1)
    <3>. DEFINE l == Len(file)
    <3>1. l \in Nat
      BY <2>3
    <3>2. 2 * c + l = 2 * n /\ n \in Nat
      BY <2>2, <2>3
    <3>. HIDE DEF l
    <3>3. l = 2 * (n - c) /\ n - c \in Nat
      BY <3>1, <3>2
    <3>4. c + 1 \in 1 .. n + 1 /\ n - (c + 1) + 1 = n - c
      BY <3>2, <3>3
    <3>5. QED
      BY <3>3, <3>4 DEF l
  <2>5. \A j \in DOMAIN file :
          file[j] = <<(c + 1) + (j - 1) \div 2, IF j % 2 = 1 THEN "date" ELSE "message">>
    <3> SUFFICES ASSUME NEW j \in DOMAIN file
                 PROVE  file[j] = <<(c + 1) + (j - 1) \div 2,
                                    IF j % 2 = 1 THEN "date" ELSE "message">>
      OBVIOUS
    <3>1. j \in Nat /\ j >= 1
      BY <2>3
    <3>2. (2 * c + j) % 2 = j % 2 /\ ((2 * c + j) + 1) \div 2 = (c + 1) + (j - 1) \div 2
      BY <3>1, Shifted
    <3>3. QED
      BY <2>2, <3>2 DEF Stretch, Piece
  <2>6. file = Lines(c + 1, n)
    <3>1. file = [j \in 1 .. Len(file) |-> file[j]]
      BY <2>3
    <3>2. Lines(c + 1, n) = [j \in 1 .. Len(file) |->
              <<(c + 1) + (j - 1) \div 2, IF j % 2 = 1 THEN "date" ELSE "message">>]
      BY <2>4 DEF Lines
    <3>3. QED
      BY <2>3, <2>5, <3>1, <3>2
  <2>7. QED
    BY <2>2, <2>4, <2>6
<1>2. QED
  BY <1>1, OrderlyInit, OrderlyStep, Invariance, PTL DEF Spec

\* "preserving lines at end of the file" (apcevents.c:30-31): as long as no thread logs into
\* the line of another or into a trim, and what is kept has room for a line and the rest of
\* the one before it, the last event is there. EventTrim shows why the first is needed.
THEOREM LastEventKept ==
    ASSUME Keep >= 3
    PROVE  Spec => [](~ mixed => LastKept)
<1>1. IInv /\ EndKept /\ ~ mixed => LastKept
  <2> SUFFICES ASSUME IInv, EndKept, ~ mixed, Quiet, n > 0
               PROVE  \A s \in {"date", "message"} : \E j \in DOMAIN file : file[j] = <<n, s>>
    BY DEF LastKept
  <2>1. PICK k \in 1 .. n + 1 : file = Lines(k, n) /\ (k = 1 \/ Len(file) >= Keep - 2)
    BY DEF EndKept
  <2>2. n \in Nat /\ k \in Nat /\ k >= 1 /\ Keep \in Nat
    BY <2>1, LogNumbers, EventAssumption DEF IInv
  <2> DEFINE m == n - k + 1
  <2>3. m \in Nat
    BY <2>1, <2>2
  <2>4. /\ DOMAIN file = 1 .. 2 * m /\ Len(file) = 2 * m
        /\ \A j \in 1 .. 2 * m :
              file[j] = <<k + (j - 1) \div 2, IF j % 2 = 1 THEN "date" ELSE "message">>
    BY <2>1, <2>3 DEF Lines
  <2>5. m >= 1
    BY <2>1, <2>2, <2>3, <2>4
  <2>6. /\ 2 * m - 1 \in 1 .. 2 * m /\ 2 * m \in 1 .. 2 * m
        /\ (2 * m - 1) % 2 = 1 /\ (2 * m) % 2 = 0
        /\ (2 * m - 1 - 1) \div 2 = m - 1 /\ (2 * m - 1) \div 2 = m - 1
        /\ k + (m - 1) = n
    BY <2>2, <2>3, <2>5
  <2>7. file[2 * m - 1] = <<n, "date">>
    <3>1. file[2 * m - 1] = <<k + ((2 * m - 1) - 1) \div 2,
                              IF (2 * m - 1) % 2 = 1 THEN "date" ELSE "message">>
      BY <2>4, <2>6, Zenon
    <3>2. QED
      BY <2>6, <3>1
  <2>8. file[2 * m] = <<n, "message">>
    <3>1. file[2 * m] = <<k + (2 * m - 1) \div 2,
                          IF (2 * m) % 2 = 1 THEN "date" ELSE "message">>
      BY <2>4, <2>6, Zenon
    <3>2. QED
      BY <2>6, <3>1
  <2>9. QED
    BY <2>4, <2>6, <2>7, <2>8
<1>2. QED
  BY <1>1, EndOfLogKept, Invariance, PTL
=============================================================================
