-------------------------- MODULE BrazilDriverProofs --------------------------
(***************************************************************************)
(* Theorems about BrazilDriver.  The inductive invariant says where the    *)
(* model object is known to exist: while a command is sent, read back or   *)
(* about to begin.  For what programmation() answers it also says where a  *)
(* report can be older than the schedule: on the wire, behind an empty     *)
(* ring, as the rest of a message that will never be one.                  *)
(***************************************************************************)
EXTENDS BrazilDriver, SequenceTheorems, TLAPS

\* Where the model is known to exist, and what is still to be done.
ModelKnown ==
    /\ pc = "next" => model # Null \/ todo \in {<<>>, <<"static">>}
    /\ pc = "send" => model # Null /\ op \in Retried
    /\ pc = "read" => op \in {"check", "setup"} \/ model # Null
    /\ pc = "setup" => op = "setup"

IInv == TypeOK /\ ModelKnown

-----------------------------------------------------------------------------
(* Messages and bytes *)

\* What the UPS says is a report, and its message a sequence of four bytes.
LEMMA SaysReport ==
    ASSUME TypeOK
    PROVE  Says \in Report
BY DEF TypeOK, Says, Report

LEMMA MessageType ==
    ASSUME NEW r \in Report
    PROVE  Message(r) \in Seq(Byte) /\ Len(Message(r)) = MSGLEN /\ Message(r)[2] = r
<1>1. /\ r.number \in Byte /\ r \in Byte /\ Pad \in Byte /\ End \in Byte
  BY DEF Report, Byte
<1>2. QED
  BY <1>1 DEF Message, MSGLEN

LEMMA FlushType ==
    ASSUME TypeOK, Flush
    PROVE  wire' \in Seq(Byte) /\ Len(wire') < MSGLEN
<1>1. CASE \E n \in 0 .. Len(wire) : wire' = SubSeq(wire, n + 1, Len(wire))
  <2>1. PICK n \in 0 .. Len(wire) : wire' = SubSeq(wire, n + 1, Len(wire))
    BY <1>1
  <2>2. QED
    BY <2>1 DEF TypeOK, MSGLEN
<1>2. CASE \E n \in 2 .. MSGLEN : wire' = SubSeq(Message(Says), n, MSGLEN)
  <2>1. PICK n \in 2 .. MSGLEN : wire' = SubSeq(Message(Says), n, MSGLEN)
    BY <1>2
  <2>2. PICK m : m = Message(Says) /\ m \in Seq(Byte) /\ Len(m) = MSGLEN
    BY SaysReport, MessageType
  <2>3. wire' = SubSeq(m, n, MSGLEN)
    BY <2>1, <2>2
  <2>4. MSGLEN = 4
    BY DEF MSGLEN
  <2>5. n \in Int /\ MSGLEN \in Int /\ \A j \in n .. MSGLEN : m[j] \in Byte
    BY <2>2, <2>4
  <2>6. wire' \in Seq(Byte) /\ Len(wire') = IF n <= MSGLEN THEN MSGLEN - n + 1 ELSE 0
    BY <2>3, <2>5, SubSeqProperties
  <2>7. QED
    BY <2>4, <2>6
<1>3. QED
  BY <1>1, <1>2 DEF Flush

\* The message being sent, and what is left of it after a byte.
LEMMA SendingType ==
    ASSUME TypeOK
    PROVE  /\ Head(Sending) \in Byte
           /\ Tail(Sending) \in Seq(Byte) /\ Len(Tail(Sending)) < MSGLEN
<1>1. Sending \in Seq(Byte) /\ Len(Sending) \in 1 .. MSGLEN
  <2>1. CASE wire = <<>>
    <3>1. Message(Says) \in Seq(Byte) /\ Len(Message(Says)) = MSGLEN
      BY SaysReport, MessageType
    <3>2. QED
      BY <2>1, <3>1 DEF Sending, MSGLEN
  <2>2. CASE wire # <<>>
    <3>1. wire \in Seq(Byte) /\ Len(wire) < MSGLEN
      BY DEF TypeOK
    <3>2. Len(wire) \in Nat \ {0}
      BY <2>2, <3>1, EmptySeq
    <3>3. Sending = wire
      BY <2>2 DEF Sending
    <3>4. Len(wire) \in 1 .. MSGLEN
      <4>1. \A k \in Nat \ {0} : k < MSGLEN => k \in 1 .. MSGLEN
        BY DEF MSGLEN
      <4>2. QED
        BY <3>1, <3>2, <4>1
    <3>5. QED
      BY <3>1, <3>3, <3>4
  <2>3. QED
    BY <2>1, <2>2
<1>2. Sending # <<>>
  BY <1>1, EmptySeq
<1>3. /\ Head(Sending) \in Byte /\ Tail(Sending) \in Seq(Byte)
      /\ Len(Tail(Sending)) = Len(Sending) - 1
  BY <1>1, <1>2, HeadTailProperties
<1>4. QED
  BY <1>1, <1>3 DEF MSGLEN

LEMMA AgedType ==
    ASSUME TypeOK, NEW n \in Nat
    PROVE  Aged(n) \in 0 .. CommTimeout + 1
BY BrazilAssumption DEF Aged, TypeOK

\* What testBuffer() says of the ring with one more byte.
LEMMA TestBuffer ==
    ASSUME TypeOK, NEW c \in Byte, NEW b, b = Append(buffer, c)
    PROVE  /\ testBuffer(b) = 0 => b \in Seq(Byte) /\ Len(b) < MSGLEN
           /\ testBuffer(b) = -1 => Tail(b) \in Seq(Byte) /\ Len(Tail(b)) < MSGLEN
           /\ testBuffer(b) \notin {0, -1} => b[2] \in Report
<1>1. b \in Seq(Byte) /\ Len(b) \in 1 .. MSGLEN
  <2>1. buffer \in Seq(Byte) /\ Len(buffer) < MSGLEN
    BY DEF TypeOK
  <2>2. QED
    BY <2>1, LenProperties, AppendProperties DEF MSGLEN
<1>2. testBuffer(b) = 0 => Len(b) # MSGLEN
  BY DEF testBuffer
<1>3. testBuffer(b) \notin {0, -1} => b[2] \in Report
  <2>1. SUFFICES ASSUME testBuffer(b) \notin {0, -1}
                 PROVE  b[2] \in Report
    OBVIOUS
  <2>2. PICK r \in Report : b = Message(r)
    BY <2>1 DEF testBuffer
  <2>3. QED
    BY <2>2, MessageType
<1>4. Tail(b) \in Seq(Byte) /\ Len(Tail(b)) < MSGLEN
  <2>1. b # <<>>
    BY <1>1, EmptySeq
  <2>2. Tail(b) \in Seq(Byte) /\ Len(Tail(b)) = Len(b) - 1
    BY <1>1, <2>1, HeadTailProperties
  <2>3. QED
    BY <1>1, <2>2 DEF MSGLEN
<1>5. Len(b) # MSGLEN => Len(b) < MSGLEN
  BY <1>1 DEF MSGLEN
<1>6. QED
  BY <1>1, <1>2, <1>3, <1>4, <1>5

LEMMA SetBufferType ==
    ASSUME TypeOK, NEW r \in Report
    PROVE  SetBuffer(r) \in Report /\ SetBuffer(r) # Null
<1>1. SetBuffer(r) \in Report
  BY DEF SetBuffer, Report, TypeOK
<1>2. QED
  BY <1>1, BrazilAssumption

-----------------------------------------------------------------------------
(* The invariant *)

LEMMA BrazilInit == Init => IInv
<1>1. SUFFICES ASSUME Init PROVE IInv
  OBVIOUS
<1>2. todo \in Seq(Todo) /\ buffer \in Seq(Byte) /\ wire \in Seq(Byte)
  BY <1>1, EmptySeq DEF Init
<1>3. Len(buffer) < MSGLEN /\ Len(wire) < MSGLEN
  BY <1>1, EmptySeq DEF Init, MSGLEN
<1>4. TypeOK
  <2>1. age \in 0 .. CommTimeout + 1 /\ noise \in 0 .. NoiseMax /\ unplugs \in 0 .. UnplugMax
    BY <1>1, BrazilAssumption DEF Init
  <2>2. {late, autosetup, commlost, online, claim, device, silent} \subseteq BOOLEAN
    BY <1>1 DEF Init
  <2>3. ups \in [number : Numbers, line : BOOLEAN, sched : {"none", "old", "new"},
                 output : BOOLEAN]
    BY <1>1 DEF Init
  <2>4. QED
    BY <1>1, <1>2, <1>3, <2>1, <2>2, <2>3 DEF Init, TypeOK
<1>5. QED
  BY <1>1, <1>4 DEF Init, IInv, ModelKnown

\* What the callers of ReadData() do keeps the part of the state that is theirs.
LEMMA ReturnKeeps ==
    ASSUME IInv, pc = "read", NEW ok \in BOOLEAN, NEW m \in Report \cup {Null},
           model' = m, Return(ok, m)
    PROVE  /\ pc' \in {"fill", "setup", "next", "send", "crashed"}
           /\ op' = op /\ tries' \in Nat /\ todo' \in Seq(Todo)
           /\ {late', claim', autosetup'} \subseteq BOOLEAN
           /\ ModelKnown'
           /\ pc' = "crashed" => op \in Retried /\ m = Null
<1>1. /\ op \in Retried \cup {"check", "setup"} /\ tries \in Nat /\ todo \in Seq(Todo)
      /\ {late, claim, autosetup} \subseteq BOOLEAN
  BY DEF IInv, TypeOK
<1>2. CASE op = "check" /\ pc' = "fill" /\ UNCHANGED <<op, tries, todo, claim, autosetup>>
  BY <1>1, <1>2 DEF Return, ModelKnown
<1>3. CASE op = "setup" /\ ~ ok /\ tries < SetupTries
  BY <1>1, <1>3 DEF Return, ModelKnown, Retried
<1>4. CASE op = "setup" /\ ~ (~ ok /\ tries < SetupTries)
  <2>1. /\ pc' = "next" /\ tries' = 0 /\ op' = op /\ claim' = claim /\ late' = FALSE
        /\ autosetup' = (autosetup /\ m = Null)
        /\ todo' = IF m # Null
                   THEN (IF autosetup THEN Autosetup ELSE <<>>) \o todo
                   ELSE IF todo = <<"static">> THEN todo ELSE <<>>
    BY <1>4 DEF Return, Retried
  <2>2. todo' \in Seq(Todo)
    <3>1. <<>> \in Seq(Todo) /\ Autosetup \in Seq(Todo)
      BY EmptySeq DEF Autosetup, Todo, Retried
    <3>2. (IF autosetup THEN Autosetup ELSE <<>>) \o todo \in Seq(Todo)
      BY <1>1, <3>1, ConcatProperties
    <3>3. QED
      BY <1>1, <2>1, <3>1, <3>2
  <2>3. m # Null \/ todo' \in {<<>>, <<"static">>}
    BY <2>1
  <2>4. QED
    BY <1>1, <2>1, <2>2, <2>3 DEF ModelKnown
<1>5. CASE op \in Retried
  <2>1. op # "check" /\ op # "setup"
    BY <1>5 DEF Retried
  <2>2. /\ late' = FALSE /\ op' = op /\ todo' = todo /\ autosetup' = autosetup
        /\ IF m = Null
           THEN pc' = "crashed" /\ UNCHANGED <<tries, claim>>
           ELSE IF Confirms(op, m) \/ tries = CmdTries
           THEN /\ pc' = "next" /\ tries' = 0
                /\ claim' = (op = "program" /\ Confirms(op, m))
           ELSE pc' = "send" /\ tries' = tries + 1 /\ UNCHANGED claim
    BY <2>1 DEF Return
  <2>3. CASE m = Null
    BY <1>1, <1>5, <2>2, <2>3 DEF ModelKnown
  <2>4. CASE m # Null /\ (Confirms(op, m) \/ tries = CmdTries)
    <3>1. pc' = "next" /\ tries' = 0 /\ claim' = (op = "program" /\ Confirms(op, m))
      BY <2>2, <2>4
    <3>2. claim' \in BOOLEAN
      BY <3>1
    <3>3. QED
      BY <1>1, <1>5, <2>2, <2>4, <3>1, <3>2 DEF ModelKnown
  <2>5. CASE m # Null /\ ~ (Confirms(op, m) \/ tries = CmdTries)
    <3>1. pc' = "send" /\ tries' = tries + 1 /\ claim' = claim
      BY <2>2, <2>5
    <3>2. tries' \in Nat
      BY <1>1, <3>1
    <3>3. {late', claim', autosetup'} \subseteq BOOLEAN
      BY <1>1, <2>2, <3>1
    <3>4. QED
      BY <1>1, <1>5, <2>2, <2>5, <3>1, <3>2, <3>3 DEF ModelKnown
  <2>6. QED
    BY <2>3, <2>4, <2>5
<1>6. QED
  BY <1>1, <1>2, <1>3, <1>4, <1>5 DEF Return

\* A byte, whichever it is, and what is made of it.
LEMMA TakeKeeps ==
    ASSUME IInv, pc = "read", NEW c \in Byte, Take(c), UNCHANGED <<online, port, outside>>,
           noise' \in 0 .. NoiseMax
    PROVE  IInv' /\ pc' # "crashed"
<1> DEFINE b == Append(buffer, c)
<1>1. TypeOK /\ ModelKnown
  BY DEF IInv
<1>2. /\ testBuffer(b) = 0 => b \in Seq(Byte) /\ Len(b) < MSGLEN
      /\ testBuffer(b) = -1 => Tail(b) \in Seq(Byte) /\ Len(Tail(b)) < MSGLEN
      /\ testBuffer(b) \notin {0, -1} => b[2] \in Report
  BY <1>1, TestBuffer
<1>3. Tail(Sending) \in Seq(Byte) /\ Len(Tail(Sending)) < MSGLEN
  BY <1>1, SendingType
<1> HIDE DEF b
<1>4. CASE testBuffer(b) \in {0, -1}
  <2>1. /\ buffer' \in Seq(Byte) /\ Len(buffer') < MSGLEN
        /\ wire' \in Seq(Byte) /\ Len(wire') < MSGLEN
        /\ UNCHANGED <<thread, model, age, late, commlost>>
    BY <1>2, <1>3, <1>4 DEF Take, b
  <2>2. TypeOK'
    BY <1>1, <2>1 DEF TypeOK, thread, port, outside
  <2>3. ModelKnown'
    BY <1>1, <2>1 DEF ModelKnown, thread
  <2>4. QED
    BY <2>1, <2>2, <2>3 DEF IInv, thread
<1>5. CASE testBuffer(b) \notin {0, -1}
  <2>1. /\ model' = SetBuffer(b[2]) /\ buffer' = <<>> /\ age' = 0 /\ commlost' = FALSE
        /\ Flush /\ Return(TRUE, SetBuffer(b[2]))
    BY <1>5 DEF Take, b
  <2>2. SetBuffer(b[2]) \in Report /\ SetBuffer(b[2]) # Null
    BY <1>1, <1>2, <1>5, SetBufferType
  <2>3. /\ pc' \in {"fill", "setup", "next", "send", "crashed"}
        /\ op' = op /\ tries' \in Nat /\ todo' \in Seq(Todo)
        /\ {late', claim', autosetup'} \subseteq BOOLEAN
        /\ ModelKnown'
        /\ pc' # "crashed"
    BY <2>1, <2>2, ReturnKeeps
  <2>4. wire' \in Seq(Byte) /\ Len(wire') < MSGLEN
    BY <1>1, <2>1, FlushType
  <2>5. buffer' \in Seq(Byte) /\ Len(buffer') < MSGLEN
    BY <2>1, EmptySeq DEF MSGLEN
  <2>6. age' \in 0 .. CommTimeout + 1
    BY <2>1, BrazilAssumption
  <2>7. TypeOK'
    BY <1>1, <2>1, <2>2, <2>3, <2>4, <2>5, <2>6 DEF TypeOK, port, outside
  <2>8. QED
    BY <2>3, <2>7 DEF IInv
<1>6. QED
  BY <1>4, <1>5

-----------------------------------------------------------------------------
(* Each action *)

LEMMA ReadFailsKeeps ==
    ASSUME IInv, ReadFails
    PROVE  IInv' /\ (pc' = "crashed" => late /\ op \in Retried)
<1>1. TypeOK /\ ModelKnown
  BY DEF IInv
<1>2. /\ pc = "read" /\ fd = "dead" /\ commlost' = (commlost \/ late)
      /\ Return(FALSE, model')
      /\ UNCHANGED <<buffer, online, device, unplugs, outside, wire, noise>>
  BY DEF ReadFails, DeadPort
<1>3. /\ model' \in Report \cup {Null}
      /\ fd' \in {"ok", "dead", "closed"}
      /\ model' = model \/ late
  BY <1>1 DEF ReadFails, DeadPort, TypeOK
<1>4. age' \in 0 .. CommTimeout + 1
  <2>1. Aged(3) \in 0 .. CommTimeout + 1 /\ Older \in 0 .. CommTimeout + 1
    BY <1>1, AgedType DEF Older
  <2>2. age' = Aged(3) \/ age' = Older
    BY DEF ReadFails, DeadPort
  <2>3. QED
    BY <2>1, <2>2
<1>5. /\ pc' \in {"fill", "setup", "next", "send", "crashed"}
      /\ op' = op /\ tries' \in Nat /\ todo' \in Seq(Todo)
      /\ {late', claim', autosetup'} \subseteq BOOLEAN
      /\ ModelKnown'
      /\ pc' = "crashed" => op \in Retried /\ model' = Null
  BY <1>2, <1>3, ReturnKeeps
<1>6. TypeOK'
  <2>1. commlost' \in BOOLEAN
    BY <1>1, <1>2 DEF TypeOK
  <2>2. QED
    BY <1>1, <1>2, <1>3, <1>4, <1>5, <2>1 DEF TypeOK, outside
<1>7. pc' = "crashed" => late /\ op \in Retried
  <2>1. op \in Retried => model # Null
    BY <1>1, <1>2 DEF ModelKnown, Retried
  <2>2. QED
    BY <1>3, <1>5, <2>1
<1>8. QED
  BY <1>5, <1>6, <1>7 DEF IInv

LEMMA ReadByteKeeps ==
    ASSUME IInv, ReadByte \/ DropByte
    PROVE  IInv' /\ pc' # "crashed"
<1>1. TypeOK /\ ModelKnown
  BY DEF IInv
<1>2. Head(Sending) \in Byte /\ Tail(Sending) \in Seq(Byte) /\ Len(Tail(Sending)) < MSGLEN
  BY <1>1, SendingType
<1>3. noise \in 0 .. NoiseMax /\ (noise > 0 => noise - 1 \in 0 .. NoiseMax)
  BY <1>1, BrazilAssumption DEF TypeOK
<1>4. CASE ReadByte
  <2>1. /\ pc = "read" /\ UNCHANGED <<online, port, outside>>
        /\ \/ Take(Head(Sending)) /\ noise' = noise
           \/ noise > 0 /\ noise' = noise - 1 /\ Take(Garbage)
    BY <1>4 DEF ReadByte
  <2>2. Garbage \in Byte
    BY DEF Byte
  <2>3. CASE Take(Head(Sending)) /\ noise' = noise
    BY <1>2, <1>3, <2>1, <2>3, TakeKeeps
  <2>4. CASE noise > 0 /\ noise' = noise - 1 /\ Take(Garbage)
    BY <1>3, <2>1, <2>2, <2>4, TakeKeeps
  <2>5. QED
    BY <2>1, <2>3, <2>4
<1>5. CASE DropByte
  <2>1. noise' \in 0 .. NoiseMax /\ wire' = Tail(Sending) /\ pc = "read"
    BY <1>3, <1>5 DEF DropByte
  <2>2. TypeOK'
    BY <1>1, <1>2, <1>5, <2>1 DEF DropByte, TypeOK, thread, port, outside
  <2>3. QED
    BY <1>1, <1>5, <2>1, <2>2 DEF DropByte, ModelKnown, IInv, thread
<1>6. QED
  BY <1>4, <1>5

\* The steps of the loop between two calls of ReadData().
LEMMA LoopKeeps ==
    ASSUME IInv, OpenUps \/ Fill \/ Act \/ CheckState \/ SetupTry \/ Wait \/ NoCommand \/ ReadStatic
    PROVE  IInv' /\ pc' # "crashed"
<1>1. TypeOK /\ ModelKnown
  BY DEF IInv
<1>2. \A n \in Nat : Aged(n) \in 0 .. CommTimeout + 1
  BY <1>1, AgedType
<1>3. Older \in 0 .. CommTimeout + 1 /\ Aged(3) \in 0 .. CommTimeout + 1
      /\ Aged(5) \in 0 .. CommTimeout + 1
  BY <1>2 DEF Older
<1>4. <<>> \in Seq(Todo) /\ <<"static">> \in Seq(Todo) /\ <<"kill">> \in Seq(Todo)
  BY EmptySeq DEF Todo
<1>5. CASE OpenUps
  <2>1. wire' \in Seq(Byte) /\ Len(wire') < MSGLEN
    BY <1>1, <1>5, FlushType DEF OpenUps
  <2>2. age' \in 0 .. CommTimeout + 1
    BY <1>3, <1>5 DEF OpenUps
  <2>3. /\ pc' \in {"open", "setup"} /\ op' \in Retried \cup {"check", "setup"}
        /\ tries' \in Nat /\ todo' \in Seq(Todo) /\ model' \in Report \cup {Null}
        /\ commlost' \in BOOLEAN /\ fd' \in {"ok", "dead", "closed"}
        /\ pc' = "setup" => op' = "setup"
    <3>1. \/ /\ fd' = "ok" /\ commlost' = FALSE /\ model' = Null
             /\ pc' = "setup" /\ op' = "setup" /\ tries' = 0 /\ todo' = <<"static">>
          \/ /\ commlost' = TRUE /\ pc = "open"
             /\ UNCHANGED <<fd, model, pc, op, tries, todo>>
      BY <1>5 DEF OpenUps
    <3>2. CASE /\ fd' = "ok" /\ commlost' = FALSE /\ model' = Null
               /\ pc' = "setup" /\ op' = "setup" /\ tries' = 0 /\ todo' = <<"static">>
      BY <1>4, <3>2
    <3>3. CASE /\ commlost' = TRUE /\ pc = "open"
               /\ UNCHANGED <<fd, model, pc, op, tries, todo>>
      BY <1>1, <3>3 DEF TypeOK
    <3>4. QED
      BY <3>1, <3>2, <3>3
  <2>4. TypeOK'
    BY <1>1, <1>5, <2>1, <2>2, <2>3 DEF OpenUps, TypeOK, outside
  <2>5. QED
    BY <2>3, <2>4 DEF ModelKnown, IInv
<1>6. CASE Fill
  <2>1. online' \in BOOLEAN
    BY <1>1, <1>6 DEF Fill, TypeOK, Report
  <2>2. TypeOK'
    BY <1>1, <1>6, <2>1 DEF Fill, TypeOK, port, outside
  <2>3. QED
    BY <1>6, <2>2 DEF Fill, ModelKnown, IInv
<1>7. CASE Act
  <2>1. age' \in 0 .. CommTimeout + 1
    BY <1>1, <1>3, <1>7 DEF Act, TypeOK
  <2>2. /\ pc' \in {"check", "setup", "next"} /\ op' \in Retried \cup {"check", "setup"}
        /\ tries' \in Nat /\ todo' \in Seq(Todo)
        /\ pc' = "setup" => op' = "setup"
        /\ pc' = "next" => model # Null
    <3>1. \/ pc' = "check" /\ UNCHANGED <<op, tries, todo>>
          \/ /\ pc' = IF model = Null THEN "setup" ELSE "next"
             /\ op' = "setup" /\ tries' = 0 /\ todo' = <<"kill">>
      BY <1>7 DEF Act
    <3>2. CASE pc' = "check" /\ UNCHANGED <<op, tries, todo>>
      BY <1>1, <3>2 DEF TypeOK
    <3>3. CASE /\ pc' = IF model = Null THEN "setup" ELSE "next"
               /\ op' = "setup" /\ tries' = 0 /\ todo' = <<"kill">>
      BY <1>4, <3>3
    <3>4. QED
      BY <3>1, <3>2, <3>3
  <2>3. TypeOK'
    BY <1>1, <1>7, <2>1, <2>2 DEF Act, TypeOK, port, outside
  <2>4. QED
    BY <1>7, <2>2, <2>3 DEF Act, ModelKnown, IInv
<1>8. CASE CheckState
  <2>1. late' \in BOOLEAN
    BY <1>8 DEF CheckState, Enter
  <2>2. TypeOK'
    BY <1>1, <1>8, <2>1 DEF CheckState, Enter, TypeOK, port, outside
  <2>3. QED
    BY <1>8, <2>2 DEF CheckState, Enter, ModelKnown, IInv
<1>9. CASE SetupTry
  <2>1. late' \in BOOLEAN
    BY <1>9 DEF SetupTry, Enter
  <2>2. tries' \in Nat
    BY <1>1, <1>9 DEF SetupTry, TypeOK
  <2>3. TypeOK'
    BY <1>1, <1>3, <1>9, <2>1, <2>2 DEF SetupTry, Enter, TypeOK, port, outside
  <2>4. QED
    BY <1>9, <2>3 DEF SetupTry, Enter, ModelKnown, IInv
<1>10. CASE Wait
  <2>1. TypeOK'
    BY <1>1, <1>3, <1>10 DEF Wait, TypeOK, port, outside
  <2>2. QED
    BY <1>1, <1>10, <2>1 DEF Wait, ModelKnown, IInv
<1>11. CASE NoCommand
  <2>1. TypeOK'
    BY <1>1, <1>11 DEF NoCommand, TypeOK, port, outside
  <2>2. QED
    BY <1>11, <2>1 DEF NoCommand, ModelKnown, IInv
<1>12. CASE ReadStatic
  <2>1. online' \in BOOLEAN
    BY <1>1, <1>12 DEF ReadStatic, TypeOK
  <2>2. TypeOK'
    BY <1>1, <1>4, <1>12, <2>1 DEF ReadStatic, TypeOK, port, outside
  <2>3. QED
    BY <1>12, <2>2 DEF ReadStatic, ModelKnown, IInv
<1>13. QED
  BY <1>5, <1>6, <1>7, <1>8, <1>9, <1>10, <1>11, <1>12

\* What a UPS does when it is told to is still a UPS.
LEMMA ObeyType ==
    ASSUME TypeOK, NEW c \in Retried, Obey(c)
    PROVE  ups' \in [number : Numbers, line : BOOLEAN, sched : {"none", "old", "new"},
                     output : BOOLEAN]
<1> DEFINE U == [number : Numbers, line : BOOLEAN, sched : {"none", "old", "new"},
                 output : BOOLEAN]
<1>1. ups \in U
  BY DEF TypeOK
<1>2. /\ [ups EXCEPT !.sched = "new"] \in U /\ [ups EXCEPT !.sched = "none"] \in U
      /\ [ups EXCEPT !.line = TRUE] \in U /\ [ups EXCEPT !.output = TRUE] \in U
  BY <1>1
<1>3. QED
  BY <1>1, <1>2 DEF Obey, Retried

\* A command that is due finds its model.
LEMMA CommandKeeps ==
    ASSUME IInv, Command \/ Send \/ SendOnce
    PROVE  IInv' /\ pc' # "crashed"
<1>1. TypeOK /\ ModelKnown
  BY DEF IInv
<1>2. Older \in 0 .. CommTimeout + 1 /\ age \in 0 .. CommTimeout + 1
  BY <1>1, AgedType DEF Older, TypeOK
<1>3. ASSUME todo # <<>> PROVE Head(todo) \in Todo /\ Tail(todo) \in Seq(Todo)
  BY <1>1, <1>3, HeadTailProperties DEF TypeOK
<1>4. CASE Command
  <2>1. pc = "next" /\ model # Null /\ todo # <<>>
    BY <1>1, <1>4 DEF Command, ModelKnown
  <2>2. /\ <<"program">> \in Seq(Todo) /\ <<"auto">> \in Seq(Todo)
    BY DEF Todo, Retried
  <2>3. /\ pc' \in {"next", "send"} /\ tries' \in Nat /\ todo' \in Seq(Todo)
        /\ op' \in Retried \cup {"check", "setup"}
        /\ pc' = "send" => op' \in Retried
    <3>1. op \in Retried \cup {"check", "setup"} /\ tries \in Nat /\ todo \in Seq(Todo)
      BY <1>1 DEF TypeOK
    <3>2. \/ /\ Head(todo) \in Retried /\ pc' = "send" /\ op' = Head(todo)
             /\ tries' = 1 /\ todo' = Tail(todo)
          \/ /\ todo' \in {Tail(todo), <<"program">>, <<"auto">>}
             /\ UNCHANGED <<pc, op, tries>>
      BY <1>4, <2>1 DEF Command
    <3>3. CASE /\ Head(todo) \in Retried /\ pc' = "send" /\ op' = Head(todo)
               /\ tries' = 1 /\ todo' = Tail(todo)
      BY <1>3, <2>1, <3>3
    <3>4. CASE /\ todo' \in {Tail(todo), <<"program">>, <<"auto">>}
               /\ UNCHANGED <<pc, op, tries>>
      BY <1>3, <2>1, <2>2, <3>1, <3>4
    <3>5. QED
      BY <3>2, <3>3, <3>4
  <2>4. ups' \in [number : Numbers, line : BOOLEAN, sched : {"none", "old", "new"},
                  output : BOOLEAN]
    <3>1. ups' = ups \/ ups' = [ups EXCEPT !.sched = Outdated(Head(todo))]
      BY <1>4, <2>1 DEF Command
    <3>2. Outdated(Head(todo)) \in {"none", "old", "new"}
      BY <1>1 DEF Outdated, TypeOK
    <3>3. QED
      BY <1>1, <3>1, <3>2 DEF TypeOK
  <2>5. UNCHANGED <<claim, autosetup, model, buffer, age, late, commlost, online,
                    port, silent, wire, noise>>
    BY <1>4 DEF Command
  <2>6. TypeOK'
    BY <1>1, <2>3, <2>4, <2>5 DEF TypeOK, port
  <2>7. QED
    BY <2>1, <2>3, <2>5, <2>6 DEF ModelKnown, IInv
<1>5. CASE Send
  <2>1. /\ op \in Retried /\ model # Null /\ pc' = "read" /\ op' = op
        /\ claim' = FALSE /\ age' \in {age, Older} /\ late' \in BOOLEAN
        /\ UNCHANGED <<tries, todo, autosetup, model, buffer, commlost, online, port,
                       silent, noise>>
    BY <1>1, <1>5 DEF Send, Enter, ModelKnown
  <2>2. wire' \in Seq(Byte) /\ Len(wire') < MSGLEN
    BY <1>1, <1>5, FlushType DEF Send
  <2>3. ups' \in [number : Numbers, line : BOOLEAN, sched : {"none", "old", "new"},
                  output : BOOLEAN]
    BY <1>1, <1>5, <2>1, ObeyType DEF Send
  <2>4. TypeOK'
    BY <1>1, <1>2, <2>1, <2>2, <2>3 DEF TypeOK, port
  <2>5. QED
    BY <2>1, <2>4 DEF ModelKnown, IInv
<1>6. CASE SendOnce
  <2>1. /\ pc = "next" /\ model # Null /\ todo' \in Seq(Todo) /\ age' \in {age, Older}
        /\ claim' \in {claim, FALSE}
        /\ UNCHANGED <<pc, op, tries, autosetup, model, buffer, late, commlost, online,
                       port, silent, noise>>
    BY <1>3, <1>6 DEF SendOnce
  <2>2. wire' \in Seq(Byte) /\ Len(wire') < MSGLEN
    BY <1>1, <1>6, FlushType DEF SendOnce
  <2>3. ups' \in [number : Numbers, line : BOOLEAN, sched : {"none", "old", "new"},
                  output : BOOLEAN]
    <3>1. Obey("clear") \/ ups' = ups
      BY <1>6 DEF SendOnce
    <3>2. "clear" \in Retried
      BY DEF Retried
    <3>3. QED
      BY <1>1, <3>1, <3>2, ObeyType DEF TypeOK
  <2>4. TypeOK'
    BY <1>1, <1>2, <2>1, <2>2, <2>3 DEF TypeOK, port
  <2>5. QED
    BY <1>1, <2>1, <2>4 DEF ModelKnown, IInv
<1>7. QED
  BY <1>4, <1>5, <1>6

\* The mains, the plug and the silence of the UPS touch nothing of the driver's.
LEMMA OutsideKeeps ==
    ASSUME IInv, Outside
    PROVE  IInv' /\ pc' = pc
<1>1. TypeOK /\ ModelKnown
  BY DEF IInv
<1>2. UNCHANGED <<thread, model, buffer, age, late, commlost, online, wire, noise>>
  BY DEF Outside
<1>3. /\ ups' \in [number : Numbers, line : BOOLEAN, sched : {"none", "old", "new"},
                   output : BOOLEAN]
      /\ silent' \in BOOLEAN /\ fd' \in {"ok", "dead", "closed"} /\ device' \in BOOLEAN
      /\ unplugs' \in 0 .. UnplugMax
  <2>1. CASE MainsChange
    BY <1>1, <2>1 DEF MainsChange, TypeOK, port
  <2>2. CASE Hush
    BY <1>1, <2>2 DEF Hush, TypeOK, port
  <2>3. CASE Unplug
    <3>1. unplugs' \in 0 .. UnplugMax
      BY <1>1, <2>3, BrazilAssumption DEF Unplug, TypeOK
    <3>2. QED
      BY <1>1, <2>3, <3>1 DEF Unplug, TypeOK, outside
  <2>4. CASE Plug
    BY <1>1, <2>4 DEF Plug, TypeOK, outside
  <2>5. QED
    BY <2>1, <2>2, <2>3, <2>4 DEF Outside
<1>4. TypeOK'
  BY <1>1, <1>2, <1>3 DEF TypeOK, thread
<1>5. QED
  BY <1>1, <1>2, <1>4 DEF ModelKnown, IInv, thread

LEMMA BrazilStep ==
    ASSUME IInv, [Next]_vars
    PROVE  /\ IInv'
           /\ pc' = "crashed" /\ pc # "crashed" => fd = "dead" /\ late /\ op \in Retried
<1>1. CASE UNCHANGED vars
  <2>1. IInv' = IInv /\ pc' = pc
    BY <1>1 DEF vars, thread, port, outside, IInv, TypeOK, ModelKnown
  <2>2. QED
    BY <2>1
<1>2. CASE ReadFails
  <2>1. fd = "dead"
    BY <1>2 DEF ReadFails, DeadPort
  <2>2. QED
    BY <1>2, <2>1, ReadFailsKeeps
<1>3. CASE ReadByte \/ DropByte
  BY <1>3, ReadByteKeeps
<1>4. CASE OpenUps \/ Fill \/ Act \/ CheckState \/ SetupTry \/ Wait \/ NoCommand \/ ReadStatic
  BY <1>4, LoopKeeps
<1>5. CASE Command \/ Send \/ SendOnce
  BY <1>5, CommandKeeps
<1>6. CASE Outside
  BY <1>6, OutsideKeeps
<1>7. QED
  BY <1>1, <1>2, <1>3, <1>4, <1>5, <1>6 DEF Next, Thread

-----------------------------------------------------------------------------
(* What the reports tell of the schedule *)

\* A report that tells whether the UPS keeps a schedule now; a model that does not tell
\* of one that is gone.
Exact(r)   == r.sched <=> ups.sched # "none"
ModelExact == model # Null /\ model.sched => ups.sched # "none"

\* Commands the driver gives on the strength of what the model says.
Judged    == {"clear", "program", "auto"}
NoneOf(s) == \A k \in DOMAIN s : s[k] \notin Judged

\* A report in the ring is exact.  One on the wire is, or it is the rest of a message
\* of which the beginning is lost.  Part of a message stays in the ring only while
\* the port is dead or the model is gone.
Arriving(w, exempt) == \A k \in DOMAIN w : w[k] \in Report => k = 1 /\ (Exact(w[k]) \/ exempt)
InFlight ==
    /\ \A k \in DOMAIN buffer : buffer[k] \in Report => Exact(buffer[k])
    /\ Arriving(wire, buffer = <<>>)
    /\ buffer # <<>> /\ pc # "read" => fd # "ok" \/ model = Null

\* A judged command is given at once: it is at the head of what is to be done.
Pressing ==
    /\ pc # "next" => NoneOf(todo)
    /\ \A k \in DOMAIN todo : todo[k] \in Judged => k = 1

Doing(c) == pc \in {"send", "read"} /\ op = c
Due(c)   == pc = "next" /\ todo # <<>> /\ Head(todo) = c

\* What is known of the schedule when it is judged by.  The driver clears it before it
\* ever sets one, and drops it only with the mains off: a model that shows the mains
\* on never shows a schedule that is gone.
Judging ==
    /\ pc = "setup" \/ (pc = "read" /\ op = "setup") => model = Null
    /\ Due("clear") => Exact(model)
    /\ Doing("clear") => ups.sched = "none" /\ ~ (model # Null /\ model.sched)
    /\ Doing("program") \/ Due("program") => ModelExact
    /\ Due("auto") => model # Null /\ ~ model.line
    /\ model # Null /\ model.line => ModelExact
    /\ SetMeansSet

Scheduled == InFlight /\ Pressing /\ Judging

-----------------------------------------------------------------------------
(* Reports among the bytes *)

\* Only the second byte of a message is a report.
LEMMA OneReport ==
    ASSUME NEW r \in Report
    PROVE  /\ DOMAIN Message(r) = 1 .. 4 /\ Message(r)[2] = r
           /\ \A k \in {1, 3, 4} : Message(r)[k] \notin Report
<1>1. r.number \in Numbers
  BY DEF Report
<1>2. {r.number, Pad, End} \cap Report = {}
  BY <1>1, BrazilAssumption
<1>3. QED
  BY <1>2 DEF Message

\* A part of a sequence of bytes.
LEMMA PartOf ==
    ASSUME NEW s \in Seq(Byte), NEW a \in Nat, a > 0, NEW b \in Nat, b <= Len(s)
    PROVE  \A k \in DOMAIN SubSeq(s, a, b) :
              /\ k \in Nat /\ k >= 1 /\ a + k - 1 \in DOMAIN s
              /\ SubSeq(s, a, b)[k] = s[a + k - 1]
<1>1. Len(s) \in Nat /\ DOMAIN s = 1 .. Len(s) /\ \A k \in a .. b : s[k] \in Byte
  BY LenProperties
<1>2. /\ SubSeq(s, a, b) \in Seq(Byte)
      /\ Len(SubSeq(s, a, b)) = IF a <= b THEN b - a + 1 ELSE 0
      /\ \A k \in 1 .. b - a + 1 : SubSeq(s, a, b)[k] = s[a + k - 1]
  BY <1>1, SubSeqProperties
<1>3. DOMAIN SubSeq(s, a, b) = 1 .. Len(SubSeq(s, a, b))
  BY <1>2, LenProperties
<1>4. QED
  BY <1>1, <1>2, <1>3

\* What a flush leaves on the wire is the rest of a message, its beginning lost.
LEMMA FlushLeaves ==
    ASSUME TypeOK, InFlight, Flush
    PROVE  Arriving(wire', buffer = <<>>)
<1>1. wire \in Seq(Byte) /\ Len(wire) \in Nat /\ DOMAIN wire = 1 .. Len(wire)
  BY LenProperties DEF TypeOK
<1>2. CASE \E n \in 0 .. Len(wire) : wire' = SubSeq(wire, n + 1, Len(wire))
  <2>1. PICK n \in 0 .. Len(wire) : wire' = SubSeq(wire, n + 1, Len(wire))
    BY <1>2
  <2>2. PICK a \in Nat : a = n + 1 /\ a > 0
    BY <1>1
  <2>3. \A k \in DOMAIN wire' : /\ k \in Nat /\ k >= 1 /\ a + k - 1 \in DOMAIN wire
                               /\ wire'[k] = wire[a + k - 1]
    BY <1>1, <2>1, <2>2, PartOf
  <2>4. ASSUME NEW k \in DOMAIN wire', wire'[k] \in Report
        PROVE  k = 1 /\ (Exact(wire'[k]) \/ buffer = <<>>)
    <3>1. a + k - 1 = 1 /\ (Exact(wire'[k]) \/ buffer = <<>>)
      BY <2>3, <2>4 DEF InFlight, Arriving
    <3>2. QED
      BY <2>2, <2>3, <3>1
  <2>5. QED
    BY <2>4 DEF Arriving
<1>3. CASE \E n \in 2 .. MSGLEN : wire' = SubSeq(Message(Says), n, MSGLEN)
  <2>1. PICK n \in 2 .. MSGLEN : wire' = SubSeq(Message(Says), n, MSGLEN)
    BY <1>3
  <2>2. /\ Message(Says) \in Seq(Byte) /\ Len(Message(Says)) = MSGLEN
        /\ DOMAIN Message(Says) = 1 .. 4 /\ Message(Says)[2] = Says
        /\ \A k \in {1, 3, 4} : Message(Says)[k] \notin Report
    BY SaysReport, MessageType, OneReport
  <2>3. n \in Nat /\ n > 0 /\ MSGLEN \in Nat /\ MSGLEN <= Len(Message(Says))
    BY <2>2 DEF MSGLEN
  <2>4. \A k \in DOMAIN wire' : /\ k \in Nat /\ k >= 1 /\ n + k - 1 \in 1 .. 4
                               /\ wire'[k] = Message(Says)[n + k - 1]
    <3> DEFINE s == Message(Says)
    <3>2. s \in Seq(Byte) /\ DOMAIN s = 1 .. 4 /\ MSGLEN <= Len(s) /\ wire' = SubSeq(s, n, MSGLEN)
      BY <2>1, <2>2, <2>3
    <3> HIDE DEF s
    <3>3. \A k \in DOMAIN SubSeq(s, n, MSGLEN) :
             /\ k \in Nat /\ k >= 1 /\ n + k - 1 \in DOMAIN s
             /\ SubSeq(s, n, MSGLEN)[k] = s[n + k - 1]
      BY <2>3, <3>2, PartOf
    <3>4. QED
      BY <3>2, <3>3 DEF s
  <2>5. ASSUME NEW k \in DOMAIN wire', wire'[k] \in Report
        PROVE  k = 1 /\ Exact(wire'[k])
    <3>1. n + k - 1 = 2
      BY <2>2, <2>4, <2>5
    <3>2. k = 1 /\ wire'[k] = Says
      BY <2>2, <2>4, <3>1
    <3>3. Exact(Says)
      BY DEF Exact, Says
    <3>4. QED
      BY <3>2, <3>3 DEF Exact
  <2>6. QED
    BY <2>5 DEF Arriving
<1>4. QED
  BY <1>2, <1>3 DEF Flush

\* The byte that is sent next, and the rest after it.
LEMMA SendingIn ==
    ASSUME TypeOK, InFlight
    PROVE  /\ Head(Sending) \in Report => Exact(Head(Sending)) \/ buffer = <<>>
           /\ Arriving(Tail(Sending), FALSE)
<1>1. CASE wire = <<>>
  <2>1. Sending = <<Says.number, Says, Pad, End>>
    BY <1>1 DEF Sending, Message
  <2>2. Says.number \notin Report /\ Pad \notin Report /\ End \notin Report
    <3>1. Says.number \in Numbers
      BY SaysReport DEF Report
    <3>2. QED
      BY <3>1, BrazilAssumption
  <2>3. Head(Sending) = Says.number /\ Tail(Sending) = <<Says, Pad, End>>
    BY <2>1
  <2>4. Exact(Says)
    BY DEF Exact, Says
  <2>5. ASSUME NEW k \in DOMAIN <<Says, Pad, End>>, <<Says, Pad, End>>[k] \in Report
        PROVE  k = 1 /\ Exact(<<Says, Pad, End>>[k])
    BY <2>2, <2>4, <2>5
  <2>6. QED
    BY <2>2, <2>3, <2>5 DEF Arriving
<1>2. CASE wire # <<>>
  <2>1. Sending = wire /\ wire \in Seq(Byte)
    BY <1>2 DEF Sending, TypeOK
  <2>2. /\ Len(wire) \in Nat /\ Len(wire) # 0 /\ DOMAIN wire = 1 .. Len(wire)
    BY <1>2, <2>1, EmptySeq, LenProperties
  <2>3. /\ Head(wire) = wire[1] /\ Tail(wire) \in Seq(Byte)
        /\ Len(Tail(wire)) = Len(wire) - 1
        /\ \A k \in 1 .. Len(Tail(wire)) : Tail(wire)[k] = wire[k + 1]
    BY <1>2, <2>1, HeadTailProperties
  <2>4. DOMAIN Tail(wire) = 1 .. Len(Tail(wire))
    BY <2>3, LenProperties
  <2>5. ASSUME NEW k \in DOMAIN Tail(wire) PROVE Tail(wire)[k] \notin Report
    <3>1. k + 1 \in DOMAIN wire /\ k + 1 # 1 /\ Tail(wire)[k] = wire[k + 1]
      BY <2>2, <2>3, <2>4
    <3>2. QED
      BY <3>1 DEF InFlight, Arriving
  <2>6. 1 \in DOMAIN wire
    BY <2>2
  <2>7. QED
    BY <2>1, <2>3, <2>5, <2>6 DEF InFlight, Arriving
<1>3. QED
  BY <1>1, <1>2

-----------------------------------------------------------------------------
(* What a step leaves of it *)

\* Whether the UPS keeps a schedule: a step that does not change that.
SameSchedule == ups'.sched = "none" <=> ups.sched = "none"

LEMMA InFlightKept ==
    ASSUME InFlight, SameSchedule, buffer' = buffer, Arriving(wire', buffer = <<>>),
           buffer # <<>> /\ pc' # "read" => fd' # "ok" \/ model' = Null
    PROVE  InFlight'
<1>1. \A r : Exact(r)' <=> Exact(r)
  BY DEF Exact, SameSchedule
<1>2. \A k \in DOMAIN buffer' : buffer'[k] \in Report => Exact(buffer[k])
  BY DEF InFlight
<1>3. \A k \in DOMAIN wire' : wire'[k] \in Report => k = 1 /\ (Exact(wire'[k]) \/ buffer = <<>>)
  BY DEF Arriving
<1>4. QED
  BY <1>1, <1>2, <1>3 DEF InFlight, Arriving, Exact, SameSchedule

LEMMA JudgingKept ==
    ASSUME Judging, SameSchedule, claim' = claim, model' \in {model, Null},
           todo' \in Seq(Todo),
           pc' = "setup" \/ (pc' = "read" /\ op' = "setup") => model' = Null,
           \/ UNCHANGED <<pc, op, todo, model>>
           \/ /\ pc' = "next" => NoneOf(todo')
              /\ pc' \in {"send", "read"} => op' \in {"check", "setup"}
    PROVE  Judging'
<1>1. ModelExact => ModelExact'
  BY DEF ModelExact, SameSchedule
<1>2. SetMeansSet'
  BY DEF Judging, SetMeansSet, SameSchedule
<1>3. model' # Null /\ model'.line => ModelExact'
  BY <1>1 DEF Judging
<1>4. CASE UNCHANGED <<pc, op, todo, model>>
  <2>1. Exact(model)' <=> Exact(model)
    BY <1>4 DEF Exact, SameSchedule
  <2>2. \A c : (Doing(c)' <=> Doing(c)) /\ (Due(c)' <=> Due(c))
    BY <1>4 DEF Doing, Due
  <2>3. QED
    BY <1>1, <1>2, <1>3, <1>4, <2>1, <2>2 DEF Judging, SameSchedule
<1>5. CASE /\ pc' = "next" => NoneOf(todo')
           /\ pc' \in {"send", "read"} => op' \in {"check", "setup"}
  <2>1. \A c \in Judged : ~ Due(c)'
    <3>1. SUFFICES ASSUME NEW c \in Judged, Due(c)'
                   PROVE  FALSE
      OBVIOUS
    <3>2. pc' = "next" /\ todo' # <<>> /\ Head(todo') = c
      BY <3>1 DEF Due
    <3>3. 1 \in DOMAIN todo' /\ todo'[1] = c
      <4>1. Len(todo') \in Nat /\ DOMAIN todo' = 1 .. Len(todo') /\ Len(todo') # 0
        BY <3>2, EmptySeq, LenProperties
      <4>2. QED
        BY <3>2, <4>1
    <3>4. QED
      BY <1>5, <3>1, <3>2, <3>3 DEF NoneOf
  <2>2. ~ Doing("clear")' /\ ~ Doing("program")'
    BY <1>5 DEF Doing
  <2>3. QED
    BY <1>2, <1>3, <2>1, <2>2 DEF Judging, Judged
<1>6. QED
  BY <1>4, <1>5

\* A command at a time is taken from the list; what is left of it holds none that
\* is judged.
LEMMA RestPlain ==
    ASSUME Pressing, todo \in Seq(Todo), todo # <<>>
    PROVE  NoneOf(Tail(todo)) /\ Tail(todo) \in Seq(Todo)
<1>1. /\ Tail(todo) \in Seq(Todo) /\ Len(Tail(todo)) = Len(todo) - 1
      /\ \A k \in 1 .. Len(Tail(todo)) : Tail(todo)[k] = todo[k + 1]
  BY HeadTailProperties
<1>2. /\ Len(todo) \in Nat /\ DOMAIN todo = 1 .. Len(todo)
      /\ DOMAIN Tail(todo) = 1 .. Len(Tail(todo))
  BY <1>1, LenProperties
<1>3. ASSUME NEW k \in DOMAIN Tail(todo) PROVE Tail(todo)[k] \notin Judged
  <2>1. k + 1 \in DOMAIN todo /\ k + 1 # 1 /\ Tail(todo)[k] = todo[k + 1]
    BY <1>1, <1>2
  <2>2. QED
    BY <2>1 DEF Pressing
<1>4. QED
  BY <1>1, <1>3 DEF NoneOf

\* setup() puts the commands of autosetup before the one it was called for: of all
\* of them only the first is judged.
LEMMA SetupPlain ==
    ASSUME NoneOf(todo), todo \in Seq(Todo), NEW s, s \in {<<>>, Autosetup}
    PROVE  /\ s \o todo \in Seq(Todo)
           /\ \A k \in DOMAIN (s \o todo) : (s \o todo)[k] \in Judged => k = 1
           /\ s \o todo # <<>> => Head(s \o todo) \notin {"program", "auto"}
<1>1. <<>> \in Seq(Todo) /\ Autosetup \in Seq(Todo) /\ Len(Autosetup) = 4
  BY EmptySeq DEF Autosetup, Todo, Retried
<1>2. /\ s \o todo \in Seq(Todo) /\ Len(s \o todo) = Len(s) + Len(todo)
      /\ \A i \in 1 .. Len(s) + Len(todo) : (s \o todo)[i] =
                     IF i <= Len(s) THEN s[i] ELSE todo[i - Len(s)]
  <2>1. s \in Seq(Todo)
    BY <1>1
  <2>2. QED
    BY <2>1, ConcatProperties, Zenon
<1>3. /\ Len(s) \in Nat /\ Len(todo) \in Nat /\ DOMAIN todo = 1 .. Len(todo)
      /\ DOMAIN (s \o todo) = 1 .. Len(s) + Len(todo)
  BY <1>1, <1>2, LenProperties
<1>4. ASSUME NEW k \in DOMAIN (s \o todo)
      PROVE  /\ (s \o todo)[k] \in Judged => k = 1
             /\ (s \o todo)[k] \notin {"program", "auto"}
  <2>1. CASE k <= Len(s)
    <3>1. s = Autosetup /\ k \in 1 .. 4 /\ (s \o todo)[k] = Autosetup[k]
      BY <1>1, <1>2, <1>3, <1>4, <2>1, EmptySeq
    <3>2. QED
      BY <3>1 DEF Autosetup, Judged
  <2>2. CASE ~ (k <= Len(s))
    <3>1. k - Len(s) \in DOMAIN todo /\ (s \o todo)[k] = todo[k - Len(s)]
      BY <1>2, <1>3, <1>4, <2>2
    <3>2. QED
      BY <3>1 DEF NoneOf, Judged
  <2>3. QED
    BY <2>1, <2>2
<1>5. s \o todo # <<>> => 1 \in DOMAIN (s \o todo) /\ Head(s \o todo) = (s \o todo)[1]
  <2>1. SUFFICES ASSUME s \o todo # <<>>
                 PROVE  1 \in DOMAIN (s \o todo) /\ Head(s \o todo) = (s \o todo)[1]
    OBVIOUS
  <2>2. Len(s \o todo) # 0 /\ Head(s \o todo) = (s \o todo)[1]
    BY <1>2, <2>1, EmptySeq, HeadTailProperties
  <2>3. QED
    BY <1>2, <1>3, <2>2
<1>6. QED
  BY <1>2, <1>4, <1>5

\* ReadData() returns: with a message it has just been given, or with the model it
\* had or none.  The claim is made by a model that shows no schedule that is gone.
LEMMA ReturnKnown ==
    ASSUME IInv, Pressing, Judging, pc = "read", NEW ok \in BOOLEAN, NEW m, model' = m,
           Return(ok, m), ups' = ups, m \in Report \cup {Null},
           IF ok THEN m # Null /\ Exact(m) ELSE m \in {model, Null}
    PROVE  Pressing' /\ Judging'
<1>1. todo \in Seq(Todo) /\ NoneOf(todo) /\ claim \in BOOLEAN
  BY DEF IInv, TypeOK, Pressing
<1>2. SameSchedule
  BY DEF SameSchedule
<1>3. \A r : Exact(r)' <=> Exact(r)
  BY DEF Exact
<1>4. m # Null /\ m.line => ModelExact'
  BY DEF Judging, ModelExact, Exact
<1>5. CASE op = "check"
  <2>1. pc' = "fill" /\ UNCHANGED <<op, tries, todo, claim, autosetup>>
    BY <1>5 DEF Return, Retried
  <2>2. Pressing'
    BY <1>1, <2>1 DEF Pressing, NoneOf
  <2>3. \A c : ~ Due(c)' /\ ~ Doing(c)'
    BY <2>1 DEF Due, Doing
  <2>4. SetMeansSet'
    BY <2>1 DEF Judging, SetMeansSet
  <2>5. QED
    BY <1>4, <2>1, <2>2, <2>3, <2>4 DEF Judging
<1>6. CASE op = "setup" /\ ~ ok /\ tries < SetupTries
  <2>1. pc' = "setup" /\ UNCHANGED <<tries, todo, autosetup, op, claim>>
    BY <1>6 DEF Return, Retried
  <2>2. Pressing'
    BY <1>1, <2>1 DEF Pressing, NoneOf
  <2>3. \A c : ~ Due(c)' /\ ~ Doing(c)'
    BY <2>1 DEF Due, Doing
  <2>4. SetMeansSet'
    BY <2>1 DEF Judging, SetMeansSet
  <2>5. model' = Null
    BY <1>6 DEF Judging
  <2>6. QED
    BY <2>1, <2>2, <2>3, <2>4, <2>5 DEF Judging
<1>7. CASE op = "setup" /\ ~ (~ ok /\ tries < SetupTries)
  <2> DEFINE s == IF autosetup THEN Autosetup ELSE <<>>
  <2>1. /\ pc' = "next" /\ op' = op /\ claim' = claim
        /\ todo' = IF m # Null THEN s \o todo
                   ELSE IF todo = <<"static">> THEN todo ELSE <<>>
    BY <1>7 DEF Return, Retried
  <2>2. m # Null => Exact(m)
    BY <1>7 DEF Judging
  <2>3. /\ s \o todo \in Seq(Todo)
        /\ \A k \in DOMAIN (s \o todo) : (s \o todo)[k] \in Judged => k = 1
        /\ s \o todo # <<>> => Head(s \o todo) \notin {"program", "auto"}
    BY <1>1, SetupPlain
  <2> HIDE DEF s
  <2>4. Pressing'
    BY <1>1, <2>1, <2>3 DEF Pressing, NoneOf
  <2>5. ~ Due("program")' /\ ~ Due("auto")' /\ (m = Null => ~ Due("clear")')
    BY <1>1, <2>1, <2>3 DEF Due
  <2>6. \A c : ~ Doing(c)'
    BY <2>1 DEF Doing
  <2>7. SetMeansSet'
    BY <2>1 DEF Judging, SetMeansSet
  <2>8. Due("clear")' => Exact(model)'
    BY <1>3, <2>2, <2>5 DEF Exact
  <2>9. QED
    BY <1>4, <2>1, <2>4, <2>5, <2>6, <2>7, <2>8 DEF Judging
<1>8. CASE op \in Retried
  <2>1. op # "check" /\ op # "setup"
    BY <1>8 DEF Retried
  <2>2. /\ op' = op /\ todo' = todo
        /\ IF m = Null
           THEN pc' = "crashed" /\ claim' = claim
           ELSE IF Confirms(op, m) \/ tries = CmdTries
           THEN pc' = "next" /\ claim' = (op = "program" /\ Confirms(op, m))
           ELSE pc' = "send" /\ claim' = claim
    BY <2>1 DEF Return
  <2>3. Pressing'
    BY <1>1, <2>2 DEF Pressing, NoneOf
  <2>4. \A c \in Judged : ~ Due(c)'
    <3>1. SUFFICES ASSUME NEW c \in Judged, todo # <<>>, Head(todo) = c
                   PROVE  FALSE
      BY <2>2 DEF Due
    <3>2. Len(todo) \in Nat /\ DOMAIN todo = 1 .. Len(todo) /\ Len(todo) # 0
      BY <1>1, <3>1, EmptySeq, LenProperties
    <3>3. 1 \in DOMAIN todo /\ todo[1] = c
      BY <3>1, <3>2
    <3>4. QED
      BY <1>1, <3>3 DEF NoneOf
  <2>5. Doing("program")' => ModelExact'
    BY <2>2 DEF Judging, Doing, ModelExact, Exact
  <2>6. Doing("clear")' => ups'.sched = "none" /\ ~ (model' # Null /\ model'.sched)
    BY <2>2 DEF Judging, Doing, Exact
  <2>7. claim' => claim \/ (m # Null /\ op = "program" /\ m.sched)
    BY <2>2 DEF Confirms
  <2>8. SetMeansSet'
    <3>1. CASE claim
      BY <3>1 DEF Judging, SetMeansSet
    <3>2. CASE m # Null /\ op = "program" /\ m.sched
      BY <3>2 DEF Judging, SetMeansSet, Doing, ModelExact, Exact
    <3>3. QED
      BY <2>7, <3>1, <3>2 DEF SetMeansSet
  <2>9. QED
    BY <1>4, <2>1, <2>2, <2>3, <2>4, <2>5, <2>6, <2>8 DEF Judging, Judged
<1>9. QED
  BY <1>5, <1>6, <1>7, <1>8 DEF Return

-----------------------------------------------------------------------------
(* A byte, and whether it is true *)

\* Every report in the ring is exact, also with one more byte in it, unless this is
\* the rest of a message that begins nowhere: such a byte is dropped at once.
LEMMA RingExact ==
    ASSUME TypeOK, InFlight, NEW c \in Byte, c \in Report => Exact(c) \/ buffer = <<>>
    PROVE  LET b == Append(buffer, c)
           IN  /\ \A k \in DOMAIN b : b[k] \in Report => Exact(b[k]) \/ (k = 1 /\ Len(b) = 1)
               /\ testBuffer(b) = 0 => \A k \in DOMAIN b : b[k] \in Report => Exact(b[k])
               /\ \A k \in DOMAIN Tail(b) : Tail(b)[k] \in Report => Exact(Tail(b)[k])
<1> DEFINE b == Append(buffer, c)
<1>1. buffer \in Seq(Byte) /\ Len(buffer) \in Nat /\ DOMAIN buffer = 1 .. Len(buffer)
  BY LenProperties DEF TypeOK
<1>2. /\ b \in Seq(Byte) /\ Len(b) = Len(buffer) + 1
      /\ \A k \in 1 .. Len(buffer) : b[k] = buffer[k]
      /\ b[Len(buffer) + 1] = c
  BY <1>1, AppendProperties
<1>3. DOMAIN b = 1 .. Len(b) /\ b # <<>>
  BY <1>1, <1>2, LenProperties, EmptySeq
<1> HIDE DEF b
<1>4. ASSUME NEW k \in DOMAIN b, b[k] \in Report
      PROVE  Exact(b[k]) \/ (k = 1 /\ Len(b) = 1)
  <2>1. CASE k \in 1 .. Len(buffer)
    <3>1. b[k] = buffer[k] /\ k \in DOMAIN buffer
      BY <1>1, <1>2, <2>1
    <3>2. QED
      BY <1>4, <3>1 DEF InFlight
  <2>2. CASE k \notin 1 .. Len(buffer)
    <3>1. k = Len(buffer) + 1 /\ b[k] = c
      BY <1>1, <1>2, <1>3, <1>4, <2>2
    <3>2. CASE Exact(c)
      BY <3>1, <3>2
    <3>3. CASE buffer = <<>>
      <4>1. Len(buffer) = 0
        BY <3>3, EmptySeq
      <4>2. QED
        BY <1>2, <3>1, <4>1
    <3>4. QED
      BY <1>4, <3>1, <3>2, <3>3
  <2>3. QED
    BY <2>1, <2>2
<1>5. ASSUME testBuffer(b) = 0, NEW k \in DOMAIN b, b[k] \in Report
      PROVE  Exact(b[k])
  <2>1. b[1] \in Numbers
    BY <1>5 DEF testBuffer
  <2>2. k # 1
    BY <1>5, <2>1, BrazilAssumption
  <2>3. QED
    BY <1>4, <1>5, <2>2
<1>6. ASSUME NEW k \in DOMAIN Tail(b), Tail(b)[k] \in Report
      PROVE  Exact(Tail(b)[k])
  <2>1. /\ Tail(b) \in Seq(Byte) /\ Len(Tail(b)) = Len(b) - 1
        /\ \A i \in 1 .. Len(Tail(b)) : Tail(b)[i] = b[i + 1]
    BY <1>2, <1>3, HeadTailProperties
  <2>2. DOMAIN Tail(b) = 1 .. Len(Tail(b)) /\ Len(b) \in Nat
    BY <1>2, <2>1, LenProperties
  <2>3. k + 1 \in DOMAIN b /\ k + 1 # 1 /\ Tail(b)[k] = b[k + 1]
    BY <1>3, <1>6, <2>1, <2>2
  <2>4. QED
    BY <1>4, <1>6, <2>3
<1>7. QED
  BY <1>4, <1>5, <1>6 DEF b

LEMMA TakeIn ==
    ASSUME IInv, Scheduled, pc = "read", NEW c \in Byte, Take(c), ups' = ups, port' = port,
           c \in Report => Exact(c) \/ buffer = <<>>
    PROVE  Scheduled'
<1> DEFINE b == Append(buffer, c)
<1>1. TypeOK /\ InFlight /\ Pressing /\ Judging /\ SameSchedule
  BY DEF IInv, Scheduled, SameSchedule
<1>2. /\ \A k \in DOMAIN b : b[k] \in Report => Exact(b[k]) \/ (k = 1 /\ Len(b) = 1)
      /\ testBuffer(b) = 0 => \A k \in DOMAIN b : b[k] \in Report => Exact(b[k])
      /\ \A k \in DOMAIN Tail(b) : Tail(b)[k] \in Report => Exact(Tail(b)[k])
  BY <1>1, RingExact
<1>3. Arriving(Tail(Sending), FALSE)
  BY <1>1, SendingIn
<1>4. CASE testBuffer(b) \in {0, -1}
  <2>1. /\ (buffer' = b /\ testBuffer(b) = 0) \/ buffer' = Tail(b)
        /\ wire' = Tail(Sending) /\ UNCHANGED <<thread, model, age, late, commlost>>
    BY <1>4 DEF Take
  <2> HIDE DEF b
  <2>2. \A k \in DOMAIN buffer' : buffer'[k] \in Report => Exact(buffer'[k])
    BY <1>2, <2>1
  <2>3. \A k \in DOMAIN wire' : wire'[k] \in Report => k = 1 /\ Exact(wire'[k])
    BY <1>3, <2>1 DEF Arriving
  <2>4. pc' = "read"
    BY <2>1 DEF thread
  <2>5. InFlight'
    BY <2>2, <2>3, <2>4 DEF InFlight, Arriving, Exact
  <2>6. Pressing'
    BY <1>1, <2>1 DEF Pressing, NoneOf, thread
  <2>7. todo' \in Seq(Todo)
    BY <1>1, <2>1 DEF TypeOK, thread
  <2>8. UNCHANGED <<pc, op, todo, model, claim>>
    BY <2>1 DEF thread
  <2>9. pc' = "setup" \/ (pc' = "read" /\ op' = "setup") => model' = Null
    BY <1>1, <2>8 DEF Judging
  <2>10. Judging'
    BY <1>1, <2>7, <2>8, <2>9, JudgingKept
  <2>11. QED
    BY <2>5, <2>6, <2>10 DEF Scheduled
<1>5. CASE testBuffer(b) \notin {0, -1}
  <2>1. /\ model' = SetBuffer(b[2]) /\ buffer' = <<>>
        /\ Flush /\ Return(TRUE, SetBuffer(b[2]))
    BY <1>5 DEF Take
  <2>2. b[2] \in Report
    BY <1>1, <1>5, TestBuffer
  <2>3. Len(b) = MSGLEN /\ DOMAIN b = 1 .. Len(b)
    <3>1. PICK r \in Report : b = Message(r)
      BY <1>5 DEF testBuffer
    <3>2. b \in Seq(Byte) /\ Len(b) = MSGLEN
      BY <3>1, MessageType
    <3>3. QED
      BY <3>2, LenProperties
  <2> HIDE DEF b
  <2>4. Exact(b[2])
    BY <1>2, <2>2, <2>3 DEF MSGLEN
  <2>5. SetBuffer(b[2]) \in Report /\ SetBuffer(b[2]) # Null
    BY <1>1, <2>2, SetBufferType
  <2>6. Exact(SetBuffer(b[2]))
    BY <2>2, <2>4 DEF Exact, SetBuffer, Report
  <2>7. Pressing' /\ Judging'
    BY <1>1, <2>1, <2>5, <2>6, ReturnKnown
  <2>8. Arriving(wire', buffer = <<>>)
    BY <1>1, <2>1, FlushLeaves
  <2>9. InFlight'
    <3>1. \A k \in DOMAIN wire' : wire'[k] \in Report => k = 1
      BY <2>8 DEF Arriving
    <3>2. DOMAIN buffer' = {}
      BY <2>1
    <3>3. QED
      BY <2>1, <3>1, <3>2 DEF InFlight, Arriving
  <2>10. QED
    BY <2>7, <2>9 DEF Scheduled
<1>6. QED
  BY <1>4, <1>5

-----------------------------------------------------------------------------
(* Each action, and what it leaves known *)

LEMMA ReadKnows ==
    ASSUME IInv, Scheduled, ReadByte \/ DropByte \/ ReadFails
    PROVE  Scheduled'
<1>1. TypeOK /\ InFlight /\ Pressing /\ Judging
  BY DEF IInv, Scheduled
<1>2. Head(Sending) \in Byte /\ Garbage \in Byte /\ Garbage \notin Report
  BY <1>1, SendingType, BrazilAssumption DEF Byte
<1>3. /\ Head(Sending) \in Report => Exact(Head(Sending)) \/ buffer = <<>>
      /\ Arriving(Tail(Sending), FALSE)
  BY <1>1, SendingIn
<1>4. CASE ReadByte
  <2>1. /\ pc = "read" /\ ups' = ups /\ port' = port
        /\ Take(Head(Sending)) \/ Take(Garbage)
    BY <1>4 DEF ReadByte, outside
  <2>2. QED
    BY <1>2, <1>3, <2>1, TakeIn
<1>5. CASE DropByte
  <2>1. /\ wire' = Tail(Sending) /\ UNCHANGED <<pc, op, todo, model, claim, buffer, fd, ups>>
        /\ pc = "read"
    BY <1>5 DEF DropByte, thread, port, outside
  <2>2. SameSchedule /\ todo' \in Seq(Todo)
    BY <1>1, <2>1 DEF SameSchedule, TypeOK
  <2>3. Arriving(wire', buffer = <<>>)
    BY <1>3, <2>1 DEF Arriving
  <2>4. InFlight'
    BY <1>1, <2>1, <2>2, <2>3, InFlightKept
  <2>5. Pressing'
    BY <1>1, <2>1 DEF Pressing, NoneOf
  <2>6. pc' = "setup" \/ (pc' = "read" /\ op' = "setup") => model' = Null
    BY <1>1, <2>1 DEF Judging
  <2>7. Judging'
    BY <1>1, <2>1, <2>2, <2>6, JudgingKept
  <2>8. QED
    BY <2>4, <2>5, <2>7 DEF Scheduled
<1>6. CASE ReadFails
  <2>1. /\ pc = "read" /\ fd = "dead" /\ Return(FALSE, model')
        /\ UNCHANGED <<buffer, wire, ups>>
        /\ model' = Null \/ (model' = model /\ fd' = fd)
    BY <1>6 DEF ReadFails, DeadPort, outside
  <2>2. model' \in Report \cup {Null} /\ model' \in {model, Null}
    BY <1>1, <2>1 DEF TypeOK
  <2>3. Pressing' /\ Judging'
    BY <1>1, <2>1, <2>2, ReturnKnown
  <2>4. SameSchedule /\ Arriving(wire', buffer = <<>>)
    BY <1>1, <2>1 DEF SameSchedule, InFlight
  <2>5. InFlight'
    BY <1>1, <2>1, <2>4, InFlightKept
  <2>6. QED
    BY <2>3, <2>5 DEF Scheduled
<1>7. QED
  BY <1>4, <1>5, <1>6

\* The steps of the loop judge nothing by the schedule.
LEMMA LoopKnows ==
    ASSUME IInv, Scheduled,
           OpenUps \/ Fill \/ Act \/ CheckState \/ SetupTry \/ Wait \/ NoCommand \/ ReadStatic
    PROVE  Scheduled'
<1>1. TypeOK /\ InFlight /\ Pressing /\ Judging
  BY DEF IInv, Scheduled
<1>2. /\ ups' = ups /\ claim' = claim /\ buffer' = buffer /\ model' \in {model, Null}
      /\ wire' = wire \/ Flush
  BY DEF OpenUps, Fill, Act, CheckState, SetupTry, Wait, NoCommand, ReadStatic, Enter, outside
<1>3. SameSchedule
  BY <1>2 DEF SameSchedule
<1>4. Arriving(wire', buffer = <<>>)
  <2>1. CASE wire' = wire
    BY <1>1, <2>1 DEF InFlight
  <2>2. CASE Flush
    BY <1>1, <2>2, FlushLeaves
  <2>3. QED
    BY <1>2, <2>1, <2>2
<1>5. /\ pc # "next" => NoneOf(todo)
      /\ NoneOf(<<>>) /\ NoneOf(<<"static">>) /\ NoneOf(<<"kill">>)
  BY <1>1 DEF Pressing, NoneOf, Judged
<1>6. todo' \in Seq(Todo) /\ (pc' = "send" => pc = "send")
  <2>1. IInv'
    BY LoopKeeps
  <2>2. QED
    BY <2>1 DEF IInv, TypeOK, OpenUps, Fill, Act, CheckState, SetupTry, Wait, NoCommand,
                ReadStatic, Enter
<1>7. /\ NoneOf(todo')
      /\ buffer # <<>> /\ pc' # "read" => fd' # "ok" \/ model' = Null
      /\ pc' = "setup" \/ (pc' = "read" /\ op' = "setup") => model' = Null
      /\ \/ UNCHANGED <<pc, op, todo, model>>
         \/ pc' \in {"send", "read"} => op' \in {"check", "setup"}
  <2>1. CASE OpenUps
    BY <1>1, <1>5, <2>1 DEF OpenUps, InFlight
  <2>2. CASE Fill
    BY <1>1, <1>5, <2>2 DEF Fill, InFlight, port
  <2>3. CASE Act
    BY <1>1, <1>5, <2>3 DEF Act, InFlight, port
  <2>4. CASE CheckState
    BY <1>1, <1>5, <2>4 DEF CheckState, Enter, InFlight, port
  <2>5. CASE SetupTry
    <3>1. op' = "setup" /\ pc' = "read" /\ model' = model /\ pc = "setup" /\ todo' = todo
      BY <2>5 DEF SetupTry, Enter
    <3>2. QED
      BY <1>1, <1>5, <3>1 DEF Judging
  <2>6. CASE Wait
    <3>1. /\ pc = "read" /\ pc' \in {"read", "aborted"} /\ UNCHANGED <<op, todo, model, fd>>
          /\ pc' # pc => fd = "closed"
      BY <2>6 DEF Wait, port
    <3>2. QED
      BY <1>1, <1>5, <3>1 DEF Judging
  <2>7. CASE NoCommand
    BY <1>1, <1>5, <2>7 DEF NoCommand, InFlight, port
  <2>8. CASE ReadStatic
    BY <1>1, <1>5, <2>8 DEF ReadStatic, InFlight, port
  <2>9. QED
    BY <2>1, <2>2, <2>3, <2>4, <2>5, <2>6, <2>7, <2>8
<1>8. InFlight'
  BY <1>1, <1>2, <1>3, <1>4, <1>7, InFlightKept
<1>9. Judging'
  BY <1>1, <1>2, <1>3, <1>6, <1>7, JudgingKept
<1>10. Pressing'
  BY <1>7 DEF Pressing, NoneOf
<1>11. QED
  BY <1>8, <1>9, <1>10 DEF Scheduled

LEMMA OutsideKnows ==
    ASSUME IInv, Scheduled, Outside
    PROVE  Scheduled'
<1>1. TypeOK /\ InFlight /\ Pressing /\ Judging
  BY DEF IInv, Scheduled
<1>2. UNCHANGED <<pc, op, todo, claim, model, buffer, wire>>
  BY DEF Outside, thread
<1>3. SameSchedule
  BY <1>1 DEF Outside, MainsChange, Hush, Unplug, Plug, outside, SameSchedule, TypeOK
<1>4. fd' = "ok" => fd = "ok"
  BY DEF Outside, MainsChange, Hush, Unplug, Plug, port
<1>5. InFlight'
  <2>1. Arriving(wire', buffer = <<>>)
    BY <1>1, <1>2 DEF InFlight
  <2>2. buffer # <<>> /\ pc' # "read" => fd' # "ok" \/ model' = Null
    BY <1>1, <1>2, <1>4 DEF InFlight
  <2>3. QED
    BY <1>1, <1>2, <1>3, <2>1, <2>2, InFlightKept
<1>6. Pressing'
  BY <1>1, <1>2 DEF Pressing, NoneOf
<1>7. Judging'
  <2>1. todo' \in Seq(Todo)
    BY <1>1, <1>2 DEF TypeOK
  <2>2. pc' = "setup" \/ (pc' = "read" /\ op' = "setup") => model' = Null
    BY <1>1, <1>2 DEF Judging
  <2>3. QED
    BY <1>1, <1>2, <1>3, <2>1, <2>2, JudgingKept
<1>8. QED
  BY <1>5, <1>6, <1>7 DEF Scheduled

\* A command that is sent changes the schedule only where nothing of a message is
\* in the ring: what is on the wire and old will begin nowhere.
LEMMA SentInFlight ==
    ASSUME IInv, InFlight, pc \in {"next", "send"}, model # Null, Flush, NEW c \in Retried,
           Obey(c), UNCHANGED <<buffer, model, port>>
    PROVE  InFlight'
<1>1. TypeOK
  BY DEF IInv
<1>2. Arriving(wire', buffer = <<>>)
  BY <1>1, FlushLeaves
<1>3. fd' = fd /\ (buffer # <<>> => fd # "ok")
  BY DEF InFlight, port
<1>4. CASE ups' = ups
  <2>1. SameSchedule
    BY <1>4 DEF SameSchedule
  <2>2. QED
    BY <1>2, <1>3, <2>1, InFlightKept
<1>5. CASE fd = "ok"
  <2>1. buffer' = <<>> /\ buffer = <<>>
    BY <1>3, <1>5
  <2>2. \A k \in DOMAIN wire' : wire'[k] \in Report => k = 1
    BY <1>2 DEF Arriving
  <2>3. DOMAIN buffer' = {}
    BY <2>1
  <2>4. QED
    BY <2>1, <2>2, <2>3 DEF InFlight, Arriving
<1>6. QED
  BY <1>4, <1>5 DEF Obey

LEMMA CommandKnows ==
    ASSUME IInv, Scheduled, Command \/ Send \/ SendOnce
    PROVE  Scheduled'
<1>1. TypeOK /\ ModelKnown /\ InFlight /\ Pressing /\ Judging
  BY DEF IInv, Scheduled
<1>2. todo # <<>> => NoneOf(Tail(todo)) /\ Tail(todo) \in Seq(Todo)
  BY <1>1, RestPlain DEF TypeOK
<1>3. CASE Command
  <2>1. pc = "next" /\ model # Null /\ todo # <<>>
    BY <1>1, <1>3 DEF Command, ModelKnown
  <2>2. UNCHANGED <<claim, model, buffer, fd, wire>>
    BY <1>3 DEF Command, port
  <2>3. SameSchedule
    <3>1. ups' = ups \/ ups' = [ups EXCEPT !.sched = Outdated(Head(todo))]
      BY <1>3, <2>1 DEF Command
    <3>2. QED
      BY <1>1, <3>1 DEF SameSchedule, Outdated, TypeOK
  <2>4. InFlight'
    <3>1. Arriving(wire', buffer = <<>>)
      BY <1>1, <2>2 DEF InFlight
    <3>2. buffer # <<>> /\ pc' # "read" => fd' # "ok" \/ model' = Null
      BY <1>1, <2>1, <2>2 DEF InFlight
    <3>3. QED
      BY <1>1, <2>2, <2>3, <3>1, <3>2, InFlightKept
  <2>5. ModelExact => ModelExact'
    BY <2>2, <2>3 DEF ModelExact, SameSchedule
  <2>6. SetMeansSet' /\ (model' # Null /\ model'.line => ModelExact')
    BY <1>1, <2>2, <2>3, <2>5 DEF Judging, SetMeansSet, SameSchedule
  <2>7. CASE /\ Head(todo) \in Retried /\ Needed(Head(todo))
             /\ pc' = "send" /\ op' = Head(todo) /\ todo' = Tail(todo)
    <3>1. Pressing'
      BY <1>2, <2>1, <2>7 DEF Pressing, NoneOf
    <3>2. Doing("clear")' => ups'.sched = "none" /\ ~ (model' # Null /\ model'.sched)
      <4>1. SUFFICES ASSUME Head(todo) = "clear"
                     PROVE  ups'.sched = "none" /\ ~ model.sched
        BY <2>2, <2>7 DEF Doing
      <4>2. Exact(model) /\ ~ model.sched
        BY <1>1, <2>1, <2>7, <4>1 DEF Judging, Due, Needed
      <4>3. QED
        BY <2>3, <4>2 DEF Exact, SameSchedule
    <3>3. Doing("program")' => ModelExact'
      BY <1>1, <2>1, <2>5, <2>7 DEF Judging, Doing, Due
    <3>4. \A c : ~ Due(c)'
      BY <2>7 DEF Due
    <3>5. Judging'
      BY <2>6, <2>7, <3>2, <3>3, <3>4 DEF Judging
    <3>6. QED
      BY <2>4, <3>1, <3>5 DEF Scheduled
  <2>8. CASE todo' = Tail(todo) /\ UNCHANGED <<pc, op, ups>>
    <3>1. NoneOf(todo') /\ todo' \in Seq(Todo) /\ pc' = "next"
      BY <1>2, <2>1, <2>8
    <3>2. Pressing'
      BY <3>1 DEF Pressing, NoneOf
    <3>3. Judging'
      BY <1>1, <2>2, <2>3, <3>1, JudgingKept
    <3>4. QED
      BY <2>4, <3>2, <3>3 DEF Scheduled
  <2>9. CASE /\ todo' = IF model.line THEN <<"program">> ELSE <<"auto">>
             /\ UNCHANGED <<pc, op, ups>>
    <3>1. Pressing'
      BY <2>1, <2>9 DEF Pressing
    <3>2. \A c : ~ Doing(c)'
      BY <2>1, <2>9 DEF Doing
    <3>3. /\ ~ Due("clear")'
          /\ Due("program")' => model.line
          /\ Due("auto")' => ~ model.line
      BY <2>9 DEF Due
    <3>4. Judging'
      BY <2>1, <2>2, <2>6, <2>9, <3>2, <3>3 DEF Judging
    <3>5. QED
      BY <2>4, <3>1, <3>4 DEF Scheduled
  <2>10. QED
    BY <1>3, <2>1, <2>7, <2>8, <2>9 DEF Command
<1>4. CASE Send
  <2>1. /\ pc = "send" /\ model # Null /\ op \in Retried /\ Flush /\ Obey(op)
        /\ claim' = FALSE /\ pc' = "read" /\ op' = op
        /\ UNCHANGED <<todo, model, buffer, port>>
    BY <1>1, <1>4 DEF Send, Enter, ModelKnown
  <2>2. InFlight'
    BY <1>1, <2>1, SentInFlight
  <2>3. Pressing'
    BY <1>1, <2>1 DEF Pressing, NoneOf
  <2>4. ups'.sched = "none" => ups.sched = "none"
    BY <1>1, <2>1 DEF Obey, Judging, Doing, Retried, TypeOK
  <2>5. Doing("clear") => (ups'.sched = "none" <=> ups.sched = "none")
    BY <1>1, <2>1 DEF Obey, Doing, Judging, TypeOK
  <2>6. ModelExact => ModelExact'
    BY <2>1, <2>4 DEF ModelExact
  <2>7. \A c : ~ Due(c)' /\ (Doing(c)' => Doing(c))
    BY <2>1 DEF Due, Doing
  <2>8. op # "setup" /\ SetMeansSet'
    BY <2>1 DEF SetMeansSet, Retried
  <2>9. Judging'
    BY <1>1, <2>1, <2>5, <2>6, <2>7, <2>8 DEF Judging
  <2>10. QED
    BY <2>2, <2>3, <2>9 DEF Scheduled
<1>5. CASE SendOnce
  <2>1. /\ pc = "next" /\ model # Null /\ todo # <<>> /\ todo' = Tail(todo) /\ Flush
        /\ UNCHANGED <<pc, op, model, buffer, port>>
    BY <1>5 DEF SendOnce
  <2>2. /\ NoneOf(todo') /\ todo' \in Seq(Todo) /\ pc' = "next"
    BY <1>2, <2>1
  <2>3. Pressing'
    BY <2>2 DEF Pressing, NoneOf
  <2>4. CASE Head(todo) = "auto" /\ Obey("clear") /\ claim' = FALSE
    <3>1. "clear" \in Retried
      BY DEF Retried
    <3>2. InFlight'
      BY <1>1, <2>1, <2>4, <3>1, SentInFlight
    <3>3. ~ model.line
      BY <1>1, <2>1, <2>4 DEF Judging, Due
    <3>4. \A c \in Judged : ~ Due(c)'
      <4>1. SUFFICES ASSUME NEW c \in Judged, todo' # <<>>, Head(todo') = c
                     PROVE  FALSE
        BY DEF Due
      <4>2. Len(todo') \in Nat /\ DOMAIN todo' = 1 .. Len(todo') /\ Len(todo') # 0
        BY <2>2, <4>1, EmptySeq, LenProperties
      <4>3. 1 \in DOMAIN todo' /\ todo'[1] = c
        BY <4>1, <4>2
      <4>4. QED
        BY <2>2, <4>3 DEF NoneOf
    <3>5. \A c : ~ Doing(c)'
      BY <2>2 DEF Doing
    <3>6. Judging'
      BY <2>1, <2>2, <2>4, <3>3, <3>4, <3>5 DEF Judging, Judged, SetMeansSet
    <3>7. QED
      BY <2>3, <3>2, <3>6 DEF Scheduled
  <2>5. CASE Head(todo) = "continue" /\ ups' = ups /\ claim' = claim
    <3>1. SameSchedule
      BY <2>5 DEF SameSchedule
    <3>2. Arriving(wire', buffer = <<>>)
      BY <1>1, <2>1, FlushLeaves
    <3>3. buffer # <<>> /\ pc' # "read" => fd' # "ok" \/ model' = Null
      BY <1>1, <2>1 DEF InFlight, port
    <3>4. InFlight'
      BY <1>1, <2>1, <3>1, <3>2, <3>3, InFlightKept
    <3>5. Judging'
      BY <1>1, <2>1, <2>2, <2>5, <3>1, JudgingKept
    <3>6. QED
      BY <2>3, <3>4, <3>5 DEF Scheduled
  <2>6. QED
    BY <1>5, <2>4, <2>5 DEF SendOnce
<1>6. QED
  BY <1>3, <1>4, <1>5

LEMMA ScheduledStep ==
    ASSUME IInv, Scheduled, [Next]_vars
    PROVE  Scheduled'
<1>1. CASE UNCHANGED vars
  BY <1>1 DEF vars, thread, port, outside, Scheduled, InFlight, Arriving, Pressing, Judging,
              Exact, ModelExact, NoneOf, Doing, Due, SetMeansSet
<1>2. CASE ReadByte \/ DropByte \/ ReadFails
  BY <1>2, ReadKnows
<1>3. CASE OpenUps \/ Fill \/ Act \/ CheckState \/ SetupTry \/ Wait \/ NoCommand \/ ReadStatic
  BY <1>3, LoopKnows
<1>4. CASE Command \/ Send \/ SendOnce
  BY <1>4, CommandKnows
<1>5. CASE Outside
  BY <1>5, OutsideKnows
<1>6. QED
  BY <1>1, <1>2, <1>3, <1>4, <1>5 DEF Next, Thread

LEMMA ScheduledInit == Init => Scheduled
<1>1. SUFFICES ASSUME Init PROVE Scheduled
  OBVIOUS
<1>2. /\ pc = "open" /\ todo = <<>> /\ claim = FALSE /\ model = Null
      /\ buffer = <<>> /\ wire = <<>>
  BY <1>1 DEF Init
<1>3. InFlight
  BY <1>2 DEF InFlight, Arriving
<1>4. Pressing
  BY <1>2 DEF Pressing, NoneOf
<1>5. Judging
  BY <1>2 DEF Judging, Due, Doing, SetMeansSet
<1>6. QED
  BY <1>3, <1>4, <1>5 DEF Scheduled

-----------------------------------------------------------------------------
(* Theorems *)

\* The types, and that no call leaves a whole message in the ring: however noisy
\* the line, the ring of BUFFERLEN bytes never fills (brazildriver.c:566-596).
THEOREM BrazilTypeCorrect == Spec => []TypeOK
<1>1. Init => IInv
  BY BrazilInit
<1>2. IInv /\ [Next]_vars => IInv'
  BY BrazilStep
<1>3. IInv => TypeOK
  BY DEF IInv
<1>4. QED
  BY <1>1, <1>2, <1>3, PTL DEF Spec

\* Whatever the line, the port and the UPS do, the missing model is used nowhere but
\* in a retried command whose own read has reopened a dead port
\* (brazildriver.c:303, 338, 372).
THEOREM CrashOnlyAfterReopen == Spec => DereferenceSafe
<1>1. Init => IInv
  BY BrazilInit
<1>2. IInv /\ [Next]_vars => IInv'
  BY BrazilStep
<1>3. IInv /\ [Next]_vars
      => [pc' = "crashed" /\ pc # "crashed" => fd = "dead" /\ late /\ op \in Retried]_vars
  BY BrazilStep
<1>4. QED
  BY <1>1, <1>2, <1>3, PTL DEF Spec, DereferenceSafe

\* Whatever bytes are lost, whatever is stale when it is read and wherever the port
\* dies: when programmation() says that the schedule is set, the UPS keeps one
\* (brazildriver.c:303-312).
THEOREM ScheduleIsSet == Spec => []SetMeansSet
<1>1. Init => IInv /\ Scheduled
  BY BrazilInit, ScheduledInit
<1>2. IInv /\ Scheduled /\ [Next]_vars => (IInv /\ Scheduled)'
  BY BrazilStep, ScheduledStep
<1>3. Scheduled => SetMeansSet
  BY DEF Scheduled, Judging
<1>4. QED
  BY <1>1, <1>2, <1>3, PTL DEF Spec
=============================================================================
