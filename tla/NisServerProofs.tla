--------------------------- MODULE NisServerProofs ---------------------------
(***************************************************************************)
(* What NisServer promises for every number of clients, fields and room in *)
(* the buffer.                                                             *)
(***************************************************************************)
EXTENDS NisServer, FiniteSetTheorems, TLAPS

Places == {"none", "queued", "leaked", "attach"} \cup Attached

Users == {c \in Clients : h[c] \in Attached}

LEMMA UsersFinite == IsFiniteSet(Users)
  BY NisAssumption, FS_Subset DEF Users

\* A thread that begins to use UPSINFO makes one user more.
LEMMA UserAdded ==
    ASSUME NEW c \in Clients, h \in [Clients -> Places], h[c] \notin Attached,
           NEW w, w \in Attached, h' = [h EXCEPT ![c] = w]
    PROVE  Cardinality(Users') = Cardinality(Users) + 1
  <1>1. Users' = Users \cup {c} /\ c \notin Users
    BY DEF Users
  <1>2. QED
    BY <1>1, UsersFinite, FS_AddElement

\* One that stops makes one less, and there was at least one.
LEMMA UserRemoved ==
    ASSUME NEW c \in Clients, h \in [Clients -> Places], h[c] \in Attached,
           NEW w, w \notin Attached, h' = [h EXCEPT ![c] = w]
    PROVE  /\ Cardinality(Users') = Cardinality(Users) - 1
           /\ Cardinality(Users) >= 1
  <1>1. Users' = Users \ {c} /\ c \in Users
    BY DEF Users
  <1>2. Cardinality(Users') = Cardinality(Users) - 1
    BY <1>1, UsersFinite, FS_RemoveElement
  <1>3. Cardinality(Users) >= 1
    <2>1. Users # {}
      BY <1>1
    <2>2. Cardinality(Users) \in Nat /\ Cardinality(Users) # 0
      BY <2>1, UsersFinite, FS_CardinalityType, FS_EmptySet
    <2>3. QED
      BY <2>2
  <1>4. QED
    BY <1>2, <1>3

\* One that moves between two places where it uses UPSINFO, or does not, changes nothing.
LEMMA UsersSame ==
    ASSUME NEW c \in Clients, h \in [Clients -> Places],
           NEW w, w \in Attached <=> h[c] \in Attached, h' = [h EXCEPT ![c] = w]
    PROVE  Users' = Users
  BY DEF Users

\* The types without those of the buffers, which RefcntExact needs.
PlacesOK == /\ h \in [Clients -> Places] /\ refcnt \in Nat
            /\ server \in {"none", "failed", "attach", "accept"}
            /\ core \in {"start", "prep", "wait", "write", "lost", "abort"}
            /\ core = "start" <=> server = "none"

\* No step of a client's thread but Attach and Close begins or ends its use of UPSINFO.
LEMMA UsingSteps ==
    ASSUME PlacesOK, NEW c \in Clients, Handler(c), ~ Attach(c), ~ Close(c)
    PROVE  /\ \E w \in Places : (w \in Attached <=> h[c] \in Attached) /\ h' = [h EXCEPT ![c] = w]
           /\ UNCHANGED <<refcnt, freed, server, core>>
  <1> USE DEF PlacesOK, Places, Attached, Reporting, At, Goto, GiveBack, Keeps, shared, device, report
  <1>0. h = [h EXCEPT ![c] = h[c]] /\ h[c] \in Places
    BY DEF PlacesOK
  <1>1. CASE Receive(c)
    BY <1>1 DEF Receive
  <1>3. CASE status_open(c)
    BY <1>3 DEF status_open
  <1>4. CASE read_lock(c)
    BY <1>4 DEF read_lock
  <1>5. CASE WriteField(c)
    BY <1>0, <1>5 DEF WriteField
  <1>6. CASE read_unlock(c)
    BY <1>6 DEF read_unlock
  <1>8. CASE SendHeader(c)
    BY <1>8 DEF SendHeader, Header
  <1>9. CASE SendLine(c)
    BY <1>0, <1>9 DEF SendLine
  <1>10. CASE SendZero(c)
    BY <1>10 DEF SendZero
  <1>11. QED
    BY <1>1, <1>3, <1>4, <1>5, <1>6, <1>8, <1>9, <1>10 DEF Handler

Refs == RefcntExact

\* The count of UPSINFO is that of its users, and a process that lives never frees it,
\* for any set of clients.
LEMMA RefsStep ==
    ASSUME PlacesOK, Refs, [Next]_vars
    PROVE  PlacesOK' /\ Refs'
  <1> USE DEF Refs
  <1>n. Cardinality(Users) \in Nat /\ h \in [Clients -> Places]
    BY UsersFinite, FS_CardinalityType DEF PlacesOK
  <1>r. RefcntExact <=> /\ refcnt = 1 + (IF server = "accept" THEN 1 ELSE 0) + Cardinality(Users)
                        /\ ~ freed
    BY DEF RefcntExact, Users
  <1>r1. RefcntExact' <=> /\ refcnt' = 1 + (IF server' = "accept" THEN 1 ELSE 0) + Cardinality(Users')
                          /\ ~ freed'
    BY DEF RefcntExact, Users
  <1>1. CASE Device
    <2>1. UNCHANGED <<h, refcnt, freed>>
      BY <1>1 DEF Device, start_thread, prep_device, write_lock, Writes, write_unlock, LinkLost, LinkBack, Abort, InCore, TakeUps, GiveUps, Others, shared, handler
    <2>2. server' = server \/ (server = "none" /\ server' \in {"attach", "failed"} /\ core' = "prep")
      BY <1>1 DEF Device, start_thread, prep_device, write_lock, Writes, write_unlock, LinkLost, LinkBack, Abort, InCore, TakeUps, GiveUps, Others, PlacesOK
    <2>3. PlacesOK'
      BY <1>1, <2>1 DEF Device, start_thread, prep_device, write_lock, Writes, write_unlock, LinkLost, LinkBack, Abort, InCore, TakeUps, GiveUps, Others, PlacesOK
    <2>4. Users' = Users
      BY <2>1 DEF Users
    <2>5. QED
      BY <1>r, <1>r1, <2>1, <2>2, <2>3, <2>4
  <1>2. CASE ServerAttaches
    <2>1. Users' = Users
      BY <1>2 DEF ServerAttaches, handler, Users
    <2>2. QED
      BY <1>2, <1>n, <1>r, <1>r1, <2>1 DEF ServerAttaches, attach_ups, PlacesOK, device, handler
  <1>3. CASE \E c \in Clients : Handler(c)
    <2> PICK c \in Clients : Handler(c)
      BY <1>3
    <2>1. CASE Attach(c)
      <3>1. h[c] = "attach" /\ h' = [h EXCEPT ![c] = "recv"]
        BY <2>1 DEF Attach, At, Goto
      <3>2. Cardinality(Users') = Cardinality(Users) + 1
        BY <1>n, <3>1, UserAdded DEF Attached, Reporting
      <3>3. refcnt' = refcnt + 1 /\ freed' = freed /\ server' = server /\ core' = core
        BY <2>1 DEF Attach, attach_ups, Keeps, device
      <3>4. PlacesOK'
        BY <3>1, <3>3 DEF PlacesOK, Places, Attached
      <3>5. QED
        BY <1>n, <1>r, <1>r1, <3>2, <3>3, <3>4 DEF PlacesOK
    <2>2. CASE Close(c)
      <3>1. h[c] = "close" /\ h' = [h EXCEPT ![c] = "none"]
        BY <2>2 DEF Close, At, Goto
      <3>2. Cardinality(Users') = Cardinality(Users) - 1 /\ Cardinality(Users) >= 1
        BY <1>n, <3>1, UserRemoved DEF Attached, Reporting
      <3>3. refcnt' = refcnt - 1 /\ freed' = (freed \/ refcnt = 1) /\ server' = server /\ core' = core
        BY <2>2 DEF Close, detach_ups, device
      <3>4. PlacesOK' /\ refcnt # 1
        BY <1>n, <1>r, <3>1, <3>2, <3>3 DEF PlacesOK, Places
      <3>5. ~ freed'
        BY <1>r, <3>3, <3>4
      <3>6. QED
        BY <1>n, <1>r, <1>r1, <3>2, <3>3, <3>4, <3>5 DEF PlacesOK
    <2>3. CASE ~ Attach(c) /\ ~ Close(c)
      <3>1. PICK w \in Places : (w \in Attached <=> h[c] \in Attached) /\ h' = [h EXCEPT ![c] = w]
        BY <2>3, UsingSteps
      <3>2. UNCHANGED <<refcnt, freed, server, core>>
        BY <2>3, UsingSteps
      <3>3. Users' = Users
        BY <1>n, <3>1, UsersSame
      <3>4. QED
        BY <1>r, <1>r1, <3>1, <3>2, <3>3 DEF PlacesOK
    <2>4. QED
      BY <2>1, <2>2, <2>3
  <1>4. CASE \E c \in Clients : Accept(c) \/ Connect(c)
    <2> PICK c \in Clients : Accept(c) \/ Connect(c)
      BY <1>4
    <2>1. PICK w \in {"attach", "leaked", "queued"} : h' = [h EXCEPT ![c] = w]
      BY DEF Accept, Connect, Goto
    <2>2. h[c] \in {"queued", "none"} /\ UNCHANGED <<refcnt, freed, server, core>>
      BY DEF Accept, Connect, shared, device
    <2>3. Users' = Users
      BY <1>n, <2>1, <2>2, UsersSame DEF Attached, Reporting
    <2>4. QED
      BY <1>r, <1>r1, <2>1, <2>2, <2>3 DEF PlacesOK, Places
  <1>5. CASE Ends
    <2>1. h' = [c \in Clients |-> "none"] /\ core' = "start" /\ server' = "none" /\ refcnt' = 1
          /\ freed' = FALSE
      BY <1>5 DEF Ends, Clean, Blank
    <2>2. Users' = {}
      BY <2>1 DEF Users, Attached, Reporting
    <2>3. QED
      BY <1>r1, <2>1, <2>2, FS_EmptySet DEF PlacesOK, Places
  <1>6. CASE (\E c \in Clients : Behaves(c)) \/ Signal \/ clean_threads
             \/ UNCHANGED vars
    <2>1. UNCHANGED <<h, refcnt, freed, server, core>>
      BY <1>6 DEF Behaves, Signal, clean_threads, Step, vars, shared, handler, device
    <2>2. QED
      BY <1>r, <1>r1, <2>1 DEF PlacesOK, Users
  <1>7. QED
    BY <1>1, <1>2, <1>3, <1>4, <1>5, <1>6 DEF Next, device_close, ErrorExit

LEMMA RefsInit == Init => PlacesOK /\ Refs
  <1> SUFFICES ASSUME Init PROVE PlacesOK /\ Refs
    OBVIOUS
  <1>1. Users = {}
    BY DEF Init, Clean, Users, Attached, Reporting
  <1>2. RefcntExact <=> /\ refcnt = 1 + (IF server = "accept" THEN 1 ELSE 0) + Cardinality(Users)
                        /\ ~ freed
    BY DEF RefcntExact, Users
  <1>3. QED
    BY <1>1, <1>2, FS_EmptySet DEF Init, Clean, PlacesOK, Places, Refs

\* UPSINFO is counted exactly and never freed under a thread, for any set of clients.
THEOREM ReferencesCounted == Spec => []RefcntExact
  <1>1. Spec => [](PlacesOK /\ Refs)
    BY RefsInit, RefsStep, PTL DEF Spec
  <1>2. QED
    BY <1>1, PTL DEF Refs

-----------------------------------------------------------------------------
(* Types, and the answers *)

\* Both mutexes are held where the code says, and nowhere else.
Owners ==
    /\ \A c \in Clients : /\ mutex = c <=> h[c] \in Reporting
                          /\ upslock = c <=> h[c] = "fill"
    /\ upslock = Core <=> core \in {"write", "abort"}

\* What a client has got so far are lines of the buffer, which has more for it
\* until the number in the header is reached.
Full == IF Fields < Room THEN Fields + 1 ELSE Room
Sending(c) ==
    h[c] = "lines" => /\ got[c].recs = Full /\ Len(largebuf) = Full
                      /\ Len(got[c].lines) <= Full
                      /\ \A i \in 1 .. Len(got[c].lines) : got[c].lines[i] = largebuf[i]

\* Until the UPS has been set up, the fields are blank or of the first reading; then those
\* that were written and those that were not are of two readings, which differ in every
\* field.  Only the driver that gives UPSINFO up leaves something half written.
Early == core \in {"start", "prep"}
Reading ==
    /\ Early => \A i \in 1 .. Fields : ups[i] = IF i <= changed THEN 1 ELSE Blank
    /\ ~ Early => \A i, j \in 1 .. Fields :
          ups[i] \in 1 .. 2 /\ (ups[i] = ups[j] <=> (i <= changed <=> j <= changed))
    /\ core \notin {"prep", "write", "lost"} => changed = 0
    /\ core = "prep" => changed < Fields
    /\ core = "lost" => driver \in Giving

\* What the device thread writes into a field is the value of a reading.
LEMMA ReadingTypes ==
    ASSUME TypeOK, Reading, Device
    PROVE  ups' \in [1 .. Fields -> 0 .. 2]
<1>1. CASE prep_device
  <2>1. changed + 1 \in 1 .. Fields
    BY <1>1, NisAssumption DEF prep_device, InCore, TypeOK, Reading
  <2>2. QED
    BY <1>1, <2>1 DEF prep_device, TypeOK
<1>2. CASE Writes
  <2>1. changed + 1 \in 1 .. Fields /\ ~ Early
    BY <1>2, NisAssumption DEF Writes, InCore, TypeOK, Early
  <2>2. ups[changed + 1] \in 1 .. 2
    BY <2>1 DEF Reading
  <2>3. 3 - ups[changed + 1] \in 0 .. 2
    BY <2>2
  <2>4. QED
    BY <1>2, <2>1, <2>3 DEF Writes, TypeOK
<1>3. CASE ups' = ups
  BY <1>3 DEF TypeOK
<1>4. QED
  BY <1>1, <1>2, <1>3
  DEF Device, start_thread, write_lock, write_unlock, LinkLost, LinkBack, Abort

LEMMA NothingOK == Nothing \in [recs : 0 .. Room, lines : Seq(Line)]
  BY NisAssumption DEF Nothing

\* A line that fits is added to the report, any other is dropped.
LEMMA LineWritten ==
    ASSUME TypeOK, NEW l \in Line, status_write(l)
    PROVE  largebuf' \in Seq(Line) /\ Len(largebuf') <= Room
<1>1. /\ largebuf \in Seq(Line) /\ Len(largebuf) \in Nat /\ Len(largebuf) <= Room
      /\ Room \in Nat
  BY NisAssumption DEF TypeOK
<1>2. CASE Len(largebuf) < Room
  <2>1. largebuf' = Append(largebuf, l)
    BY <1>2 DEF status_write
  <2>2. largebuf' \in Seq(Line) /\ Len(largebuf') = Len(largebuf) + 1
    BY <1>1, <2>1
  <2>3. QED
    BY <1>1, <1>2, <2>2
<1>3. CASE ~ (Len(largebuf) < Room)
  BY <1>1, <1>3 DEF status_write
<1>4. QED
  BY <1>2, <1>3

LEMMA EndIsLine == END \in Line
  BY DEF Line, END

\* The field a client is about to write is a line.
LEMMA FieldLine ==
    ASSUME TypeOK, NEW c \in Clients, at[c] < Fields
    PROVE  at[c] + 1 \in 1 .. Fields /\ ups[at[c] + 1] \in Line
<1>1. Fields \in Nat /\ at[c] \in 0 .. Fields /\ ups \in [1 .. Fields -> 0 .. 2]
  BY NisAssumption DEF TypeOK
<1>2. at[c] + 1 \in 1 .. Fields
  BY <1>1
<1>3. QED
  BY <1>1, <1>2 DEF Line, END

\* A client that has been sent the header expects no more lines than the buffer has.
LEMMA HeaderSent ==
    ASSUME TypeOK, NEW c \in Clients, SendHeader(c)
    PROVE  /\ got' \in [Clients -> [recs : 0 .. Room, lines : Seq(Line)]]
           /\ largebuf' \in Seq(Line) /\ Len(largebuf') <= Room
<1>1. got \in [Clients -> [recs : 0 .. Room, lines : Seq(Line)]] /\ Room \in Nat
  BY NisAssumption DEF TypeOK
<1>2. CASE Header(c)
  <2>1. largebuf' \in Seq(Line) /\ Len(largebuf') <= Room
    BY <1>2, EndIsLine, LineWritten DEF Header
  <2>2. [recs |-> Len(largebuf'), lines |-> <<>>] \in [recs : 0 .. Room, lines : Seq(Line)]
    BY <1>1, <2>1
  <2>3. QED
    BY <1>1, <1>2, <2>1, <2>2 DEF Header
<1>3. CASE got' = got /\ largebuf' = <<>>
  BY <1>1, <1>3
<1>4. QED
  BY <1>2, <1>3 DEF SendHeader, GiveBack

\* A line that is sent is one of the buffer.
LEMMA LineSent ==
    ASSUME TypeOK, NEW c \in Clients, Sending(c), SendLine(c)
    PROVE  got' \in [Clients -> [recs : 0 .. Room, lines : Seq(Line)]]
<1>1. /\ got \in [Clients -> [recs : 0 .. Room, lines : Seq(Line)]]
      /\ got[c].lines \in Seq(Line) /\ largebuf \in Seq(Line)
  BY DEF TypeOK
<1>2. CASE got' = got
  BY <1>1, <1>2
<1>3. CASE /\ Len(got[c].lines) # got[c].recs
           /\ got' = [got EXCEPT ![c].lines = Append(@, largebuf[Len(got[c].lines) + 1])]
  <2>1. Len(got[c].lines) + 1 \in 1 .. Len(largebuf)
    BY <1>1, <1>3 DEF SendLine, At, Sending
  <2>2. largebuf[Len(got[c].lines) + 1] \in Line
    BY <1>1, <2>1
  <2>3. Append(got[c].lines, largebuf[Len(got[c].lines) + 1]) \in Seq(Line)
    BY <1>1, <2>2
  <2>4. [got[c] EXCEPT !.lines = Append(@, largebuf[Len(got[c].lines) + 1])]
           \in [recs : 0 .. Room, lines : Seq(Line)]
    BY <1>1, <2>3
  <2>5. QED
    BY <1>1, <1>3, <2>4
<1>4. QED
  BY <1>2, <1>3 DEF SendLine

\* The types are kept, for any set of clients, any number of fields and any room.
LEMMA TypesStep ==
    ASSUME PlacesOK, Refs, TypeOK, Reading, \A c \in Clients : Sending(c), [Next]_vars
    PROVE  TypeOK'
  <1>p. PlacesOK' /\ Refs'
    BY RefsStep
  <1>n. refcnt' \in Nat /\ h' \in [Clients -> Places]
        /\ server' \in {"none", "failed", "attach", "accept"}
        /\ core' \in {"start", "prep", "wait", "write", "lost", "abort"}
    BY <1>p DEF PlacesOK
  <1>1. CASE Device
    <2>1. changed' \in 0 .. Fields
      BY <1>1, NisAssumption DEF TypeOK, Reading, Device, start_thread, prep_device, write_lock, Writes, write_unlock, LinkLost, LinkBack, Abort, InCore, TakeUps, GiveUps, Others
    <2>2. ups' \in [1 .. Fields -> 0 .. 2]
      BY <1>1, ReadingTypes
    <2>3. upslock' \in {upslock, Core, NoOne}
      BY <1>1 DEF Device, start_thread, prep_device, write_lock, Writes, write_unlock, LinkLost, LinkBack, Abort, InCore, TakeUps, GiveUps, Others, shared
    <2>4. UNCHANGED <<driver, freed, at, got, mutex, largebuf, cl, term>>
      BY <1>1 DEF Device, start_thread, prep_device, write_lock, Writes, write_unlock, LinkLost, LinkBack, Abort, InCore, TakeUps, GiveUps, Others, shared, handler, report
    <2>5. QED
      BY <1>n, <2>1, <2>2, <2>3, <2>4 DEF TypeOK, Places
  <1>2. CASE ServerAttaches
    BY <1>2, <1>n DEF TypeOK, Places, ServerAttaches, attach_ups, device, handler, report
  <1>3. CASE \E c \in Clients : Handler(c)
    <2> PICK c \in Clients : Handler(c)
      BY <1>3
    <2> USE <1>n DEF TypeOK, Places, At, Keeps, GiveBack, Goto, Sent, Broken, shared, device, report
    <2>1. CASE Attach(c)
      BY <2>1 DEF Attach, attach_ups
    <2>2. CASE Receive(c)
      BY <2>2 DEF Receive
    <2>4. CASE Close(c)
      BY <2>4 DEF Close, detach_ups
    <2>5. CASE status_open(c)
      BY <2>5, NisAssumption DEF status_open
    <2>6. CASE read_lock(c)
      BY <2>6 DEF read_lock
    <2>7. CASE WriteField(c)
      <3>2. largebuf' \in Seq(Line) /\ Len(largebuf') <= Room
        BY <2>7, FieldLine, LineWritten DEF WriteField
      <3>3. at' \in [Clients -> 0 .. Fields]
        <4>1. at[c] + 1 \in 0 .. Fields /\ at' = [at EXCEPT ![c] = at[c] + 1]
          BY <2>7, FieldLine DEF WriteField
        <4>2. QED
          BY <4>1
      <3>4. UNCHANGED <<h, got, shared, mutex, device, server, cl, term>>
        BY <2>7 DEF WriteField
      <3>5. QED
        BY <3>2, <3>3, <3>4
    <2>8. CASE read_unlock(c)
      BY <2>8, NisAssumption DEF read_unlock
    <2>10. CASE SendHeader(c)
      <3>1. /\ got' \in [Clients -> [recs : 0 .. Room, lines : Seq(Line)]]
            /\ largebuf' \in Seq(Line) /\ Len(largebuf') <= Room
        BY <2>10, HeaderSent
      <3>2. mutex' \in {mutex, NoOne} /\ UNCHANGED <<at, shared, device, server, cl, term>>
        BY <2>10 DEF SendHeader, Header
      <3>3. QED
        BY <3>1, <3>2
    <2>11. CASE SendLine(c)
      <3>1. got' \in [Clients -> [recs : 0 .. Room, lines : Seq(Line)]]
        BY <2>11, LineSent
      <3>2. UNCHANGED <<at, shared, report, device, server, cl, term>>
        BY <2>11 DEF SendLine
      <3>3. QED
        BY <3>1, <3>2
    <2>12. CASE SendZero(c)
      <3>1. got' \in [Clients -> [recs : 0 .. Room, lines : Seq(Line)]]
        BY <2>12, NothingOK DEF SendZero
      <3>2. largebuf' \in Seq(Line) /\ Len(largebuf') <= Room
        <4>1. largebuf' = <<>> BY <2>12 DEF SendZero
        <4>2. QED BY <4>1, NisAssumption, SMTT(30)
      <3>3. mutex' = NoOne /\ UNCHANGED <<at, shared, device, server, cl, term>>
        BY <2>12 DEF SendZero
      <3>4. QED
        BY <3>1, <3>2, <3>3
    <2>13. QED
      BY <2>1, <2>2, <2>4, <2>5, <2>6, <2>7, <2>8, <2>10, <2>11, <2>12 DEF Handler
  <1>4. CASE \E c \in Clients : Accept(c) \/ Connect(c) \/ Behaves(c)
    <2>1. cl' \in [Clients -> {"reads", "stalled", "gone"}]
      BY <1>4 DEF TypeOK, Accept, Connect, Behaves
    <2>2. UNCHANGED <<device, shared, at, got, report, term>>
      BY <1>4 DEF Accept, Connect, Behaves, handler
    <2>3. QED
      BY <1>n, <2>1, <2>2 DEF TypeOK, Places, device, shared, report
  <1>5. CASE Ends
    <2>1. ups' \in [1 .. Fields -> 0 .. 2] /\ changed' \in 0 .. Fields /\ at' \in [Clients -> 0 .. Fields]
      BY <1>5, NisAssumption DEF Ends, Clean, Blank
    <2>2. got' \in [Clients -> [recs : 0 .. Room, lines : Seq(Line)]]
      BY <1>5, NothingOK DEF Ends, Clean, Blank
    <2>3. largebuf' \in Seq(Line) /\ Len(largebuf') <= Room
      BY <1>5, NisAssumption DEF Ends
    <2>4. cl' \in [Clients -> {"reads", "stalled", "gone"}]
      BY <1>5 DEF Ends, Clean, Blank
    <2>5. upslock' = NoOne /\ mutex' = NoOne /\ freed' = FALSE /\ term' = "dead" /\ driver' = driver
      BY <1>5 DEF Ends
    <2>6. QED
      BY <1>n, <2>1, <2>2, <2>3, <2>4, <2>5 DEF TypeOK, Places
  <1>6. CASE Signal \/ clean_threads \/ UNCHANGED vars
    BY <1>6, <1>n DEF TypeOK, Places, Signal, clean_threads, Step, vars, shared, device, report, handler
  <1>7. QED
    BY <1>1, <1>2, <1>3, <1>4, <1>5, <1>6 DEF Next, device_close, ErrorExit

\* A mutex changes hands only between the thread that holds it, or took it free,
\* and nobody.
LEMMA OwnersStep ==
    ASSUME PlacesOK, Owners, [Next]_vars
    PROVE  Owners'
  <1>a. Core \notin Clients /\ NoOne \notin Clients /\ Core # NoOne
    BY NisAssumption DEF Core, NoOne
  <1>1. CASE Device \/ ServerAttaches
    BY <1>1, <1>a DEF Owners, Device, start_thread, prep_device, write_lock, Writes, write_unlock, LinkLost, LinkBack, Abort, InCore, TakeUps, GiveUps, Others,
       ServerAttaches, attach_ups, shared, handler, report, device
  <1>2. CASE \E c \in Clients : Handler(c)
    <2> PICK c \in Clients : Handler(c)
      BY <1>2
    <2> USE <1>a DEF Owners, PlacesOK, Reporting, Keeps, shared, device, report, At, Goto, GiveBack
    <2>1. CASE Attach(c) \/ Close(c)
      BY <2>1 DEF Attach, Close, attach_ups, detach_ups
    <2>2. CASE Receive(c)
      BY <2>2 DEF Receive
    <2>4. CASE status_open(c)
      BY <2>4 DEF status_open
    <2>5. CASE read_lock(c)
      BY <2>5 DEF read_lock
    <2>6. CASE WriteField(c)
      BY <2>6 DEF WriteField
    <2>7. CASE read_unlock(c)
      BY <2>7 DEF read_unlock
    <2>9. CASE SendHeader(c)
      BY <2>9 DEF SendHeader, Header
    <2>10. CASE SendLine(c)
      BY <2>10 DEF SendLine
    <2>11. CASE SendZero(c)
      BY <2>11 DEF SendZero
    <2>12. QED
      BY <2>1, <2>2, <2>4, <2>5, <2>6, <2>7, <2>9, <2>10, <2>11 DEF Handler
  <1>3. CASE \E c \in Clients : Accept(c) \/ Connect(c) \/ Behaves(c)
    BY <1>3 DEF Owners, PlacesOK, Reporting, Accept, Connect, Behaves, Goto, shared, device, report, handler
  <1>4. CASE Ends
    BY <1>4, <1>a DEF Owners, Reporting, Ends, Clean
  <1>5. CASE Signal \/ clean_threads \/ UNCHANGED vars
    BY <1>5 DEF Owners, Signal, clean_threads, Step, vars, shared, device, report, handler
  <1>6. QED
    BY <1>1, <1>2, <1>3, <1>4, <1>5 DEF Next, device_close, ErrorExit

LEMMA ReadingStep ==
    ASSUME TypeOK, Reading, [Next]_vars
    PROVE  Reading'
  <1>n. Fields \in Nat \ {0} /\ changed \in 0 .. Fields /\ ups \in [1 .. Fields -> 0 .. 2]
    BY NisAssumption DEF TypeOK
  <1>1. CASE Writes
    <2>1. /\ changed + 1 \in 1 .. Fields /\ changed' = changed + 1
          /\ core' = "write" /\ ~ Early /\ ~ Early'
      BY <1>1, <1>n DEF Writes, InCore, Early
    <2>2. ups' = [ups EXCEPT ![changed + 1] = 3 - @]
      BY <1>1 DEF Writes
    <2>3. ASSUME NEW i \in 1 .. Fields, NEW j \in 1 .. Fields
          PROVE  /\ ups'[i] \in 1 .. 2
                 /\ ups'[i] = ups'[j] <=> (i <= changed + 1 <=> j <= changed + 1)
      <3>1. ups[i] \in 1 .. 2 /\ ups[j] \in 1 .. 2 /\ ups[changed + 1] \in 1 .. 2
        BY <2>1 DEF Reading
      <3>2. /\ ups'[i] = IF i = changed + 1 THEN 3 - ups[i] ELSE ups[i]
            /\ ups'[j] = IF j = changed + 1 THEN 3 - ups[j] ELSE ups[j]
        BY <1>n, <2>1, <2>2
      <3>3. ups[i] = ups[j] <=> (i <= changed <=> j <= changed)
        BY <2>1 DEF Reading
      <3>4. changed \in Nat /\ i \in Nat /\ j \in Nat
        BY <1>n
      <3>5. QED
        BY <3>1, <3>2, <3>3, <3>4
    <2>4. QED
      BY <2>1, <2>3 DEF Reading
  <1>2. CASE write_unlock
    <2>1. /\ ~ Early /\ ~ Early' /\ core' = "wait" /\ ups' = ups /\ changed' = 0
          /\ changed = Fields
      BY <1>2 DEF write_unlock, InCore, Early
    <2>2. \A i, j \in 1 .. Fields : ups[i] \in 1 .. 2 /\ ups[i] = ups[j]
      BY <1>n, <2>1 DEF Reading
    <2>3. QED
      BY <1>n, <2>1, <2>2 DEF Reading
  <1>3. CASE Ends
    BY <1>3, NisAssumption DEF Ends, Clean, Reading, Early
  <1>4. CASE prep_device
    <2>1. /\ core = "prep" /\ Early /\ changed + 1 \in 1 .. Fields
          /\ ups' = [ups EXCEPT ![changed + 1] = 1]
      BY <1>4, <1>n DEF prep_device, InCore, Early, Reading
    <2>2. \A i \in 1 .. Fields : ups'[i] = IF i <= changed + 1 THEN 1 ELSE Blank
      BY <1>n, <2>1 DEF Reading
    <2>3. CASE changed + 1 < Fields
      <3>1. changed' = changed + 1 /\ core' = "prep"
        BY <1>4, <2>1, <2>3 DEF prep_device
      <3>2. QED
        BY <1>n, <2>2, <2>3, <3>1 DEF Reading, Early
    <2>4. CASE ~ (changed + 1 < Fields)
      <3>1. changed' = 0 /\ core' = "wait" /\ changed + 1 = Fields
        BY <1>4, <1>n, <2>1, <2>4 DEF prep_device
      <3>2. \A i \in 1 .. Fields : ups'[i] = 1
        BY <1>n, <2>2, <3>1
      <3>3. QED
        BY <1>n, <3>1, <3>2 DEF Reading, Early
    <2>5. QED
      BY <2>3, <2>4
  <1>5. CASE start_thread \/ write_lock \/ LinkLost \/ LinkBack \/ Abort
    BY <1>5, <1>n DEF start_thread, write_lock, LinkLost, LinkBack, Abort, InCore, Others, Reading, Early
  <1>6. CASE UNCHANGED device
    BY <1>6 DEF Reading, Early, device
  <1>7. QED
    BY <1>1, <1>2, <1>3, <1>4, <1>5, <1>6
    DEF Next, Device, device_close, ErrorExit, ServerAttaches, Accept, Connect, Behaves, Keeps,
        Handler, Attach, Receive, Close, status_open, read_lock, WriteField, read_unlock,
        SendHeader, SendLine, SendZero, Signal, clean_threads, Step, vars

\* How far the report has come, and what readings it is of.
Fit(n) == IF n < Room THEN n ELSE Room
One(d, lines) ==
    \E k \in IF d \in Giving THEN 0 .. Fields ELSE {0} :
        \A i, j \in DOMAIN lines \cap 1 .. Fields :
            (i <= k <=> j <= k) => lines[i] = lines[j] \/ Blank \in {lines[i], lines[j]}
Answer(c) ==
    /\ h[c] # "fill" => at[c] = 0
    /\ h[c] = "rlock" => largebuf = <<>>
    /\ h[c] = "fill" => /\ Len(largebuf) = Fit(at[c])
                        /\ \A i \in 1 .. Len(largebuf) : largebuf[i] \in {Blank, ups[i]}
    /\ h[c] \in {"header", "lines"} => One(driver, largebuf)
    /\ h[c] = "header" => Len(largebuf) = Fit(Fields)
    /\ Sending(c)
    /\ h[c] = "zero" /\ cl[c] # "gone" =>
          /\ got[c].recs = Full /\ Len(got[c].lines) = Full /\ One(driver, got[c].lines)
Answers == \A c \in Clients : Answer(c)

\* A report, or part of it, that agrees with one of one reading is of one reading.
LEMMA StillOne ==
    ASSUME NEW d, NEW a, NEW b, One(d, a),
           \A i \in DOMAIN b \cap 1 .. Fields : i \in DOMAIN a /\ b[i] = a[i]
    PROVE  One(d, b)
<1>1. PICK k \in IF d \in Giving THEN 0 .. Fields ELSE {0} :
          \A i, j \in DOMAIN a \cap 1 .. Fields :
              (i <= k <=> j <= k) => a[i] = a[j] \/ Blank \in {a[i], a[j]}
  BY DEF One
<1>2. \A i, j \in DOMAIN b \cap 1 .. Fields :
          (i <= k <=> j <= k) => b[i] = b[j] \/ Blank \in {b[i], b[j]}
  BY <1>1
<1>3. QED
  BY <1>1, <1>2 DEF One

\* What other threads do changes nothing for a client whose report is not the one
\* in the buffer.
LEMMA AnswerKept ==
    ASSUME NEW d \in Clients, Answer(d), h'[d] = h[d], at'[d] = at[d], got'[d] = got[d],
           cl'[d] = cl[d] \/ cl'[d] = "gone" \/ cl[d] # "gone",
           h[d] \in Reporting => largebuf' = largebuf,
           h[d] = "fill" => \A i \in 1 .. Len(largebuf) : ups[i] \in {Blank, ups'[i]},
           driver' = driver
    PROVE  Answer(d)'
  BY DEF Answer, Sending, Reporting

\* Every step of the thread of a client leaves its own answer in order.
LEMMA OwnAnswer ==
    ASSUME TypeOK, Owners, Reading, NEW c \in Clients, Answer(c), Handler(c)
    PROVE  Answer(c)'
  <1>t. /\ h \in [Clients -> {"none", "queued", "leaked", "attach"} \cup Attached]
        /\ at \in [Clients -> 0 .. Fields] /\ got \in [Clients -> [recs : 0 .. Room, lines : Seq(Line)]]
        /\ largebuf \in Seq(Line) /\ Len(largebuf) <= Room
        /\ ups \in [1 .. Fields -> 0 .. 2] /\ Fields \in Nat \ {0} /\ Room \in Nat
    BY NisAssumption DEF TypeOK
  <1>1. CASE Attach(c) \/ Receive(c) \/ Close(c)
    BY <1>1, <1>t DEF Attach, Receive, Close, At, Goto, Answer, Sending, Attached, Reporting
  <1>2. CASE status_open(c)
    BY <1>2, <1>t DEF status_open, At, Goto, Answer, Sending
  <1>3. CASE read_lock(c)
    BY <1>3, <1>t DEF read_lock, At, Goto, Answer, Sending, Fit, report
  <1>4. CASE WriteField(c)
    <2>1. h[c] = "fill" /\ h' = h /\ at[c] < Fields /\ at' = [at EXCEPT ![c] = @ + 1] /\ ups' = ups
      BY <1>4 DEF WriteField, At, Keeps, device
    <2>2. largebuf' = IF Len(largebuf) < Room THEN Append(largebuf, ups[at[c] + 1]) ELSE largebuf
      BY <1>4 DEF WriteField, status_write
    <2>3. Len(largebuf) = Fit(at[c]) /\ \A i \in 1 .. Len(largebuf) : largebuf[i] \in {Blank, ups[i]}
      BY <2>1 DEF Answer
    <2>4. at'[c] = at[c] + 1 /\ at[c] \in Nat
      BY <1>t, <2>1
    <2>5. Len(largebuf') = Fit(at'[c])
      BY <1>t, <2>2, <2>3, <2>4 DEF Fit
    <2>6. \A i \in 1 .. Len(largebuf') : largebuf'[i] \in {Blank, ups'[i]}
      <3>1. CASE Len(largebuf) < Room
        <4>1. Len(largebuf) = at[c] /\ largebuf' = Append(largebuf, ups[at[c] + 1])
          BY <1>t, <2>2, <2>3, <2>4, <3>1 DEF Fit
        <4>2. QED
          BY <1>t, <2>1, <2>3, <4>1
      <3>2. CASE ~ Len(largebuf) < Room
        BY <2>1, <2>2, <2>3, <3>2
      <3>3. QED
        BY <3>1, <3>2
    <2>7. QED
      BY <2>1, <2>5, <2>6 DEF Answer, Sending
  <1>5. CASE read_unlock(c)
    <2>1. h[c] = "fill" /\ at[c] = Fields /\ largebuf' = largebuf /\ h'[c] = "header" /\ at'[c] = 0
      BY <1>5, <1>t DEF read_unlock, At, Goto, report
    <2>2. core \notin {"write", "abort"} /\ driver' = driver
      BY <2>1, <1>5, NisAssumption DEF Owners, Core, read_unlock, Keeps, device
    <2>3. \E k \in IF driver \in Giving THEN 0 .. Fields ELSE {0} : \A i, j \in 1 .. Fields :
              (i <= k <=> j <= k) => ups[i] = ups[j] \/ Blank \in {ups[i], ups[j]}
      <3>1. CASE core = "lost"
        <4>1. driver \in Giving /\ changed \in 0 .. Fields /\ ~ Early
          BY <3>1 DEF Reading, TypeOK, Early
        <4>2. QED
          BY <4>1 DEF Reading
      <3>2. CASE core # "lost"
        <4>1. \A i, j \in 1 .. Fields : ups[i] = ups[j] \/ Blank \in {ups[i], ups[j]}
          <5>1. CASE Early
            BY <5>1 DEF Reading
          <5>2. CASE ~ Early
            <6>1. changed = 0
              BY <2>2, <3>2, <5>2 DEF Reading, Early
            <6>2. QED
              BY <1>t, <5>2, <6>1 DEF Reading
          <5>3. QED
            BY <5>1, <5>2
        <4>2. 0 \in IF driver \in Giving THEN 0 .. Fields ELSE {0}
          BY <1>t
        <4>3. QED
          BY <4>1, <4>2
      <3>3. QED
        BY <3>1, <3>2
    <2>4. Len(largebuf) = Fit(Fields) /\ \A i \in 1 .. Len(largebuf) : largebuf[i] \in {Blank, ups[i]}
      BY <2>1 DEF Answer
    <2>5. One(driver, largebuf)'
      <3>1. PICK k \in IF driver \in Giving THEN 0 .. Fields ELSE {0} : \A i, j \in 1 .. Fields :
                (i <= k <=> j <= k) => ups[i] = ups[j] \/ Blank \in {ups[i], ups[j]}
        BY <2>3
      <3>2. \A i \in DOMAIN largebuf \cap 1 .. Fields : largebuf[i] \in {Blank, ups[i]}
        BY <1>t, <2>4
      <3>3. \A i, j \in DOMAIN largebuf \cap 1 .. Fields : (i <= k <=> j <= k)
                => largebuf[i] = largebuf[j] \/ Blank \in {largebuf[i], largebuf[j]}
        BY <3>1, <3>2
      <3>4. QED
        BY <2>1, <2>2, <3>1, <3>3 DEF One
    <2>6. QED
      BY <2>1, <2>4, <2>5 DEF Answer, Sending
  <1>7. CASE SendHeader(c)
    <2>1. h[c] = "header" /\ at' = at /\ driver' = driver
      BY <1>7 DEF SendHeader, At, Keeps, device
    <2>2. Len(largebuf) = Fit(Fields) /\ One(driver, largebuf) /\ at[c] = 0
      BY <2>1 DEF Answer
    <2>3. CASE Header(c)
      <3>1. /\ largebuf' = IF Len(largebuf) < Room THEN Append(largebuf, END) ELSE largebuf
            /\ h'[c] = "lines" /\ got'[c] = [recs |-> Len(largebuf'), lines |-> <<>>]
        BY <1>t, <2>3 DEF Header, Goto, status_write
      <3>2. Len(largebuf') = Full
        BY <1>t, <2>2, <3>1 DEF Fit, Full
      <3>3. One(driver, largebuf)'
        <4>1. CASE Len(largebuf) < Room
          <5>1. Len(largebuf) = Fields /\ largebuf' = Append(largebuf, END)
            BY <1>t, <2>2, <3>1, <4>1 DEF Fit
          <5>2. \A i \in 1 .. Fields : largebuf'[i] = largebuf[i] /\ i \in DOMAIN largebuf
            BY <1>t, <5>1
          <5>3. QED
            <6>1. \A i \in DOMAIN (largebuf') \cap 1 .. Fields :
                      i \in DOMAIN largebuf /\ (largebuf')[i] = largebuf[i]
              BY <5>2
            <6>2. One(driver, largebuf')
              BY <2>2, <6>1, StillOne
            <6>3. QED
              BY <2>1, <6>2
        <4>2. CASE ~ Len(largebuf) < Room
          BY <2>1, <2>2, <3>1, <4>2
        <4>3. QED
          BY <4>1, <4>2
      <3>4. QED
        BY <1>t, <2>1, <2>2, <3>1, <3>2, <3>3 DEF Answer, Sending, Full
    <2>4. CASE h'[c] = "close"
      BY <2>1, <2>2, <2>4 DEF Answer, Sending
    <2>5. QED
      BY <1>7, <1>t, <2>3, <2>4 DEF SendHeader, Goto, GiveBack
  <1>8. CASE SendLine(c)
    <2>1. /\ h[c] = "lines" /\ largebuf' = largebuf /\ at' = at /\ cl' = cl /\ driver' = driver
      BY <1>8 DEF SendLine, At, report, Keeps, device
    <2>2. /\ got[c].recs = Full /\ Len(largebuf) = Full /\ Len(got[c].lines) <= Full
          /\ \A i \in 1 .. Len(got[c].lines) : got[c].lines[i] = largebuf[i]
          /\ One(driver, largebuf) /\ at[c] = 0
      BY <2>1 DEF Answer, Sending
    <2>3. CASE Len(got[c].lines) = Full /\ h'[c] = "zero" /\ got' = got
      <3>1. One(driver, got[c].lines)
        <4>1. \A i \in DOMAIN got[c].lines \cap 1 .. Fields :
                  i \in DOMAIN largebuf /\ got[c].lines[i] = largebuf[i]
          BY <1>t, <2>2, <2>3
        <4>2. QED
          BY <2>2, <4>1, StillOne
      <3>2. QED
        BY <2>1, <2>2, <2>3, <3>1 DEF Answer, Sending
    <2>4. CASE /\ Len(got[c].lines) # Full /\ h' = h
               /\ got' = [got EXCEPT ![c].lines = Append(@, largebuf[Len(got[c].lines) + 1])]
      <3>1. got'[c].lines = Append(got[c].lines, largebuf[Len(got[c].lines) + 1]) /\ got'[c].recs = got[c].recs
        BY <1>t, <2>4
      <3>2. Len(got[c].lines) \in Nat /\ Full \in Nat /\ got[c].lines \in Seq(Line)
        BY <1>t DEF Full
      <3>3. Len(got'[c].lines) = Len(got[c].lines) + 1
        BY <3>1, <3>2, <1>t
      <3>4. \A i \in 1 .. Len(got'[c].lines) : got'[c].lines[i] = largebuf[i]
        BY <2>2, <3>1, <3>2, <3>3
      <3>5. QED
        BY <2>1, <2>2, <2>4, <3>1, <3>2, <3>3, <3>4 DEF Answer, Sending, Full
    <2>5. CASE h'[c] = "zero" /\ cl[c] = "gone"
      BY <2>1, <2>2, <2>5 DEF Answer, Sending
    <2>6. QED
      BY <1>8, <1>t, <2>1, <2>2, <2>3, <2>4, <2>5 DEF SendLine, Goto, Broken
  <1>9. CASE SendZero(c)
    BY <1>9, <1>t DEF SendZero, At, Goto, GiveBack, Answer, Sending
  <1>10. QED
    BY <1>1, <1>2, <1>3, <1>4, <1>5, <1>7, <1>8, <1>9 DEF Handler

\* Which parts of a thread's state its steps may change, and when the buffer.
LEMMA HandlerFrame ==
    ASSUME TypeOK, Owners, NEW c \in Clients, Handler(c), NEW d \in Clients, d # c
    PROVE  /\ h'[d] = h[d] /\ at'[d] = at[d] /\ got'[d] = got[d] /\ cl'[d] = cl[d] /\ ups' = ups
           /\ driver' = driver
           /\ h[d] \in Reporting => largebuf' = largebuf
  <1>1. /\ h'[d] = h[d] /\ at'[d] = at[d] /\ got'[d] = got[d] /\ cl'[d] = cl[d] /\ ups' = ups
        /\ driver' = driver
    BY DEF TypeOK, Header, Keeps, Goto, GiveBack, device, Handler, Attach, Receive, Close, status_open, read_lock,
       WriteField, read_unlock, SendHeader, SendLine, SendZero
  <1>2. ASSUME h[d] \in Reporting PROVE largebuf' = largebuf
    <2>1. mutex = d
      BY <1>2 DEF Owners
    <2>2. mutex # NoOne /\ h[c] \notin Reporting
      BY <2>1, NisAssumption DEF Owners
    <2>3. ~ status_open(c) /\ ~ WriteField(c) /\ ~ SendHeader(c) /\ ~ SendZero(c)
      BY <2>2 DEF status_open, WriteField, SendHeader, SendZero, At, Reporting
    <2>4. QED
      BY <2>3 DEF Handler, Attach, Receive, Close, read_lock, read_unlock, SendLine, report
  <1>3. QED
    BY <1>1, <1>2

LEMMA AnswersStep ==
    ASSUME TypeOK, Owners, Reading, Answers, [Next]_vars
    PROVE  Answers'
  <1> SUFFICES ASSUME NEW d \in Clients PROVE Answer(d)'
    BY DEF Answers
  <1>a. Answer(d)
    BY DEF Answers
  <1>1. CASE Device
    <2>1. UNCHANGED <<driver, h, at, got, cl, largebuf>>
      BY <1>1 DEF Device, start_thread, prep_device, write_lock, Writes, write_unlock, LinkLost, LinkBack, Abort, InCore, TakeUps, GiveUps, Others, handler, report
    <2>2. ASSUME h[d] = "fill", NEW i \in 1 .. Len(largebuf)
          PROVE  ups[i] \in {Blank, ups'[i]}
      <3>1. core \notin {"write", "abort"}
        BY <2>2, NisAssumption DEF Owners, Core
      <3>2. CASE prep_device
        <4>1. Early /\ changed + 1 \in 1 .. Fields /\ ups \in [1 .. Fields -> 0 .. 2]
              /\ ups' = [ups EXCEPT ![changed + 1] = 1]
          BY <3>2, NisAssumption DEF prep_device, InCore, Early, Reading, TypeOK
        <4>2. i \in 1 .. Fields
          BY <1>a, <2>2, NisAssumption DEF Answer, Fit, TypeOK
        <4>3. QED
          BY <4>1, <4>2, NisAssumption DEF Reading, TypeOK
      <3>3. QED
        BY <1>1, <3>1, <3>2
        DEF Device, start_thread, write_lock, Writes, write_unlock, LinkLost, LinkBack, Abort, InCore
    <2>3. QED
      BY <1>a, <2>1, <2>2, AnswerKept
  <1>2. CASE \E c \in Clients : Handler(c)
    <2> PICK c \in Clients : Handler(c)
      BY <1>2
    <2>1. CASE c = d
      BY <1>a, <2>1, OwnAnswer
    <2>2. CASE c # d
      BY <1>a, <2>2, HandlerFrame, AnswerKept
    <2>3. QED
      BY <2>1, <2>2
  <1>3. CASE \E c \in Clients : Accept(c) \/ Connect(c)
    <2> PICK c \in Clients : Accept(c) \/ Connect(c)
      BY <1>3
    <2>1. UNCHANGED <<driver, at, got, largebuf, ups>>
      BY DEF Accept, Connect, report, device
    <2>2. CASE c = d
      <3>1. h[d] \in {"queued", "none"} /\ h'[d] \in {"attach", "leaked", "queued"}
        BY <2>2 DEF TypeOK, Accept, Connect, Goto
      <3>2. QED
        BY <1>a, <2>1, <3>1 DEF Answer, Sending
    <2>3. CASE c # d
      <3>1. h'[d] = h[d] /\ cl'[d] = cl[d]
        BY <2>3 DEF TypeOK, Accept, Connect, Goto
      <3>2. QED
        BY <1>a, <2>1, <3>1, AnswerKept
    <2>4. QED
      BY <2>2, <2>3
  <1>4. CASE \E c \in Clients : Behaves(c)
    <2>1. UNCHANGED <<driver, h, at, got, largebuf, ups>>
      BY <1>4 DEF Behaves, report, device, handler
    <2>2. cl'[d] = cl[d] \/ cl[d] # "gone"
      BY <1>4 DEF Behaves, TypeOK
    <2>3. QED
      BY <1>a, <2>1, <2>2, AnswerKept
  <1>5. CASE Ends
    BY <1>5 DEF Ends, Clean, Answer, Sending
  <1>6. CASE ServerAttaches \/ Signal \/ clean_threads \/ UNCHANGED vars
    <2>1. UNCHANGED <<driver, h, at, got, cl, largebuf, ups>>
      BY <1>6 DEF ServerAttaches, Signal, clean_threads, Step, vars, report, device, handler
    <2>2. QED
      BY <1>a, <2>1, AnswerKept
  <1>7. QED
    BY <1>1, <1>2, <1>3, <1>4, <1>5, <1>6 DEF Next, device_close, ErrorExit

NisInv == PlacesOK /\ Refs /\ TypeOK /\ Owners /\ Reading /\ Answers

LEMMA NisInit == Init => NisInv
  <1> SUFFICES ASSUME Init PROVE NisInv
    OBVIOUS
  <1>1. TypeOK
    <2>1. got \in [Clients -> [recs : 0 .. Room, lines : Seq(Line)]]
      BY NothingOK DEF Init, Clean, Blank
    <2>2. largebuf \in Seq(Line) /\ Len(largebuf) <= Room
      BY NisAssumption DEF Init
    <2>3. /\ h \in [Clients -> {"none"}] /\ at \in [Clients -> 0 .. Fields]
          /\ cl \in [Clients -> {"gone"}] /\ ups \in [1 .. Fields -> 0 .. 2] /\ changed \in 0 .. Fields
      BY NisAssumption DEF Init, Clean, Blank
    <2>4. QED
      BY <2>1, <2>2, <2>3 DEF Init, TypeOK
  <1>2. Owners
    BY NisAssumption DEF Init, Clean, Owners, Core, NoOne, Reporting
  <1>3. Reading
    BY NisAssumption DEF Init, Clean, Reading, Early
  <1>4. Answers
    BY DEF Init, Clean, Answers, Answer, Sending
  <1>5. QED
    BY <1>1, <1>2, <1>3, <1>4, RefsInit DEF NisInv

LEMMA NisInvariance == Spec => []NisInv
  <1>1. NisInv /\ [Next]_vars => NisInv'
    BY RefsStep, TypesStep, OwnersStep, ReadingStep, AnswersStep DEF NisInv, Answers, Answer
  <1>2. QED
    BY <1>1, NisInit, PTL DEF Spec

\* Every variable keeps its type, and the report never outgrows its buffer, whatever
\* its size.
THEOREM NisTypeCorrect == Spec => []TypeOK
  BY NisInvariance, PTL DEF NisInv

\* A client that has the end of its answer has all of it, for any number of clients,
\* fields and lines of room: of one reading of the UPS, or of two successive ones of
\* a driver that gives UPSINFO up while it reads.
THEOREM AnswersIntact == Spec => []AnswerIntact
  <1>1. NisInv => AnswerIntact
    BY DEF NisInv, Answers, Answer, AnswerIntact, OfOneReading, One, Full
  <1>2. QED
    BY <1>1, NisInvariance, PTL

\* What CoreNotHeldUp rests on, said of a state and a step. Whoever holds UPSINFO, which
\* the device thread waits for, puts a report together: it waits for no lock and for no
\* client, and every step of its own adds a field or gives UPSINFO back. Nobody else's
\* step sets it back (apcstatus.c:41-49).
HeldForAReading ==
    \A c \in Clients : upslock = c => mutex = c /\ h[c] = "fill" /\ at[c] \in 0 .. Fields
ReadingGoesOn ==
    \A c \in Clients : upslock = c =>
        /\ upslock' \in {c, NoOne} /\ (upslock' = c => at'[c] >= at[c])
        /\ Handler(c) => upslock' = NoOne \/ at'[c] = at[c] + 1

\* UPSINFO is given back after one reading of its fields, whatever the clients do, for any
\* number of them: no client locks the driver out.
THEOREM HeldBriefly == Spec => []HeldForAReading /\ [][ReadingGoesOn]_vars
  <1>1. NisInv => HeldForAReading
    BY DEF NisInv, TypeOK, Owners, Reporting, HeldForAReading
  <1>2. NisInv /\ NisInv' /\ [Next]_vars => [ReadingGoesOn]_vars
    <2> SUFFICES ASSUME NisInv, [Next]_vars, NEW c \in Clients, upslock = c
                 PROVE  /\ upslock' \in {c, NoOne} /\ (upslock' = c => at'[c] >= at[c])
                        /\ Handler(c) => upslock' = NoOne \/ at'[c] = at[c] + 1
      BY DEF ReadingGoesOn
    <2>1. /\ c # Core /\ c # NoOne /\ core \notin {"write", "abort"} /\ h[c] = "fill"
          /\ at[c] \in Nat /\ at \in [Clients -> 0 .. Fields]
          /\ \A d \in Clients : h[d] = "fill" => d = c
      BY NisAssumption DEF NisInv, TypeOK, Owners, Core, NoOne
    <2>2. CASE Handler(c)
      <3>1. WriteField(c) \/ read_unlock(c)
        BY <2>1, <2>2 DEF Handler, At, Attach, Receive, Close, status_open, read_lock,
           SendHeader, SendLine, SendZero
      <3>2. CASE WriteField(c)
        BY <2>1, <3>2 DEF WriteField, shared
      <3>3. CASE read_unlock(c)
        BY <2>1, <3>3 DEF read_unlock
      <3>4. QED
        BY <3>1, <3>2, <3>3
    <2>3. CASE ~ Handler(c)
      <3> SUFFICES upslock' = NoOne \/ (upslock' = c /\ at' = at)
        BY <2>1, <2>3
      <3>1. ASSUME NEW d \in Clients, Handler(d)
            PROVE  upslock' = c /\ at' = at
        <4>1. h[d] # "fill" /\ upslock # NoOne
          BY <2>1, <2>3, <3>1
        <4>2. QED
          BY <3>1, <4>1 DEF Handler, At, Attach, attach_ups, Receive, Close, detach_ups,
             status_open, read_lock, WriteField, read_unlock, SendHeader, SendLine,
             SendZero, shared
      <3>2. CASE Device \/ ServerAttaches
        BY <2>1, <3>2 DEF Device, start_thread, prep_device, write_lock, Writes, write_unlock, LinkLost, LinkBack, Abort, InCore, TakeUps, GiveUps, Others,
           ServerAttaches, attach_ups, shared, handler
      <3>3. CASE \E d \in Clients : Accept(d) \/ Connect(d) \/ Behaves(d)
        BY <3>3 DEF Accept, Connect, Behaves, shared, handler
      <3>4. CASE Ends
        BY <3>4 DEF Ends
      <3>5. CASE Signal \/ clean_threads \/ UNCHANGED vars
        BY <3>5 DEF Signal, clean_threads, Step, vars, shared, handler
      <3>6. QED
        BY <3>1, <3>2, <3>3, <3>4, <3>5 DEF Next, device_close, ErrorExit
    <2>4. QED
      BY <2>2, <2>3
  <1>3. QED
    BY <1>1, <1>2, NisInvariance, PTL DEF Spec
=============================================================================
