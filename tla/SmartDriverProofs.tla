--------------------------- MODULE SmartDriverProofs ---------------------------
(***************************************************************************)
(* Safety theorems of SmartDriver: types, and that a line is read as the      *)
(* answer it is as long as no answer is late.                              *)
(***************************************************************************)
EXTENDS SmartDriver, TLAPS

\* Where the device thread may stand in a job.
Polling == {"ask", "answer", "try", "tried", "loop", "looped", "turn", "relock"}
Away    == {"loop", "looped", "turn", "relock"}
Places ==
    /\ job \in {"open", "check"} => pc = "start"
    /\ pc = "flush" => job = "setup"
    /\ job = "setup" => pc \notin {"try", "tried"} \cup Away
    /\ pc \in Polling \cup {"flush"} => todo # <<>>
    /\ pc \in {"ask", "flush"} => tries > 0

\* An answer is waited for here, to this command.
Waiting  == {"answer", "tried", "looped", "flush"}
Expected == IF pc = "answer" THEN Head(todo) ELSE "Y"
Kind(c)  == IF c = "Y" THEN "SM" ELSE IF c = "Q" THEN "status" ELSE "reason"

NoLine(w) == \A i \in 1 .. Len(w) : w[i] \notin Lines
OneLine(w, is) == \A i \in 1 .. Len(w) :
    w[i] \in Lines => w[i].is = is /\ \A k \in 1 .. Len(w) : w[k] \in Lines => k = i

\* Without late answers the UPS has nothing to answer and the port holds no line,
\* except while an answer is waited for, and then at most that one.
InTime ==
    ~ late => /\ pc \notin Waiting => asked = <<>> /\ NoLine(wire)
              /\ pc \in Waiting =>
                   \/ asked = <<>> /\ OneLine(wire, Kind(Expected))
                   \/ asked = <<Expected>> /\ NoLine(wire)
              /\ ~ selftest

\* What may wait in the port.
Items == Lines \cup Alerts

LEMMA ConstantTypes ==
  /\ Tries \in Nat \ {0} /\ SetupTries \in Nat \ {0}
  /\ StatusTries \in Nat /\ ReasonTries \in Nat /\ LostAfter \in Nat
  BY SmartAssumption DEF SmartAssumption

LEMMA WriteTypes ==
  ASSUME TypeOK, NEW c \in Commands, Write(c)
  PROVE  asked' \in Seq(Commands)
  BY DEF TypeOK, Write

LEMMA OverdueTypes ==
  ASSUME TypeOK, Overdue
  PROVE  late' \in BOOLEAN
  BY DEF TypeOK, Overdue

LEMMA TakenTypes ==
  ASSUME TypeOK, wire # <<>>
  PROVE  /\ Head(wire) \in Items
         /\ Tail(wire) \in Seq(Items)
  BY DEF TypeOK, Items

LEMMA GetsTypes ==
  ASSUME TypeOK, NEW l, Gets(l)
  PROVE  /\ l \in Lines /\ l.is \in {"SM", "status", "reason"} /\ l.on \in BOOLEAN
         /\ Tail(wire) \in Seq(Items)
         /\ late' = late
  <1>1. l \in Lines /\ wire # <<>> /\ late' = late BY DEF Gets
  <1>2. l.is \in {"SM", "status", "reason"} /\ l.on \in BOOLEAN BY <1>1 DEF Lines
  <1>3. QED BY <1>1, <1>2, TakenTypes

LEMMA ObeyTypes ==
  ASSUME TypeOK, NEW l \in Alerts, Obey(l)
  PROVE  /\ onbatt' \in BOOLEAN /\ wire' \in Seq(Items)
         /\ cap' = cap /\ selftest' = selftest
  <1>1. l.on \in BOOLEAN BY DEF Alerts
  <1>2. QED BY <1>1, TakenTypes DEF Obey

\* What a command leaves behind when its answer has been used.
LEMMA UseTypes ==
  ASSUME TypeOK, todo # <<>>, NEW c, NEW l, l.on \in BOOLEAN, Use(c, l)
  PROVE  /\ todo' \in Seq(Commands) /\ sm' \in 0 .. StatusTries
         /\ pc' \in {"ask", "done"}
         /\ tries' \in 0 .. (Tries + SetupTries)
         /\ pc' = "ask" => todo' # <<>> /\ tries' > 0
         /\ cap' \subseteq cap \cup {c} /\ onbatt' \in BOOLEAN /\ selftest' \in BOOLEAN
  <1>1. Tail(todo) \in Seq(Commands) BY DEF TypeOK
  <1>2. ASSUME Then(Tail(todo))
        PROVE  /\ todo' \in Seq(Commands)
               /\ pc' \in {"ask", "done"}
               /\ tries' \in 0 .. (Tries + SetupTries)
               /\ pc' = "ask" => todo' # <<>> /\ tries' > 0
    <2>. DEFINE rest == Tail(todo)
    <2>1. TriesOf(Head(rest)) \in {1, Tries} BY DEF TriesOf
    <2>2. /\ 1 \in 1 .. (Tries + SetupTries) /\ Tries \in 1 .. (Tries + SetupTries)
          /\ 0 \in 0 .. (Tries + SetupTries)
      BY ConstantTypes
    <2>3. rest \in Seq(Commands) BY <1>1
    <2>. HIDE DEF rest
    <2>4. CASE rest = <<>>
      <3>1. todo' = <<>> /\ pc' = "done" /\ tries' = 0 BY <1>2, <2>4 DEF Then, rest
      <3>2. QED BY <2>2, <2>3, <2>4, <3>1
    <2>5. CASE rest # <<>>
      <3>1. todo' = rest /\ pc' = "ask" /\ tries' = TriesOf(Head(rest))
        BY <1>2, <2>5 DEF Then, rest
      <3>2. tries' \in 1 .. (Tries + SetupTries) BY <2>1, <2>2, <3>1
      <3>3. QED BY <2>3, <2>5, <3>1, <3>2, ConstantTypes
    <2>6. QED BY <2>4, <2>5
  <1>3. CASE Discover(c, l) BY <1>2, <1>3 DEF Discover, TypeOK
  <1>4. CASE Status(l)
    <2>1. CASE l.is = "SM" /\ sm > 0
      BY <1>4, <2>1, ConstantTypes DEF Status, TypeOK, info
    <2>2. CASE ~ (l.is = "SM" /\ sm > 0)
      <3>1. onbatt' \in BOOLEAN /\ sm' = 0 /\ Then(Tail(todo)) /\ UNCHANGED <<cap,
        selftest>>
        BY <1>4, <2>2 DEF Status
      <3>2. QED BY <1>2, <3>1, ConstantTypes DEF TypeOK
    <2>3. QED BY <2>1, <2>2
  <1>5. CASE Reason(l) BY <1>2, <1>5 DEF Reason, TypeOK
  <1>6. CASE Value(l) BY <1>2, <1>6 DEF Value, TypeOK, info
  <1>7. QED BY <1>3, <1>4, <1>5, <1>6 DEF Use

LEMMA CheckedTypes ==
  ASSUME TypeOK, todo # <<>>, Checked
  PROVE  /\ todo' \in Seq(Commands) /\ sm' \in 0 .. StatusTries
         /\ pc' \in {"ask", "done"}
         /\ tries' \in 0 .. (Tries + SetupTries)
         /\ pc' = "ask" => todo' # <<>> /\ tries' > 0
         /\ cap' \subseteq Commands /\ onbatt' \in BOOLEAN /\ selftest' \in BOOLEAN
  <1>1. CASE tries > 0 BY <1>1 DEF Checked, info, TypeOK
  <1>2. CASE ~ (tries > 0)
    <2>1. None.on \in BOOLEAN /\ Head(todo) \in Commands BY DEF None, TypeOK
    <2>2. Use(Head(todo), None) BY <1>2 DEF Checked
    <2>3. QED BY <2>1, <2>2, UseTypes DEF TypeOK
  <1>3. QED BY <1>1, <1>2

\* The jobs and what they send.
Jobs == {"setup", "caps", "static", "first", "act1", "fill", "act2", "check"}

LEMMA JobTypes ==
  /\ DOMAIN After = Jobs
  /\ \A j \in Jobs : After[j] \in Jobs \ {"setup"}
  BY DEF After, Jobs

LEMMA ListTypes ==
  ASSUME NEW j \in Jobs, NEW t \in Lists(j)
  PROVE  t \in Seq(Commands) /\ (j \in Filling \cup {"setup"} => t # <<>>)
  <1> USE DEF Commands
  <1>1. CASE j = "setup"
    <2>1. t = <<"Y">> BY <1>1 DEF Lists, Filling
    <2>2. QED BY <2>1
  <1>2. CASE j = "caps"
    <2>1. t = <<"Q", "W">> BY <1>2 DEF Lists, Filling
    <2>2. QED BY <1>2, <2>1 DEF Filling
  <1>3. CASE j = "static"
    <2>1. t = <<"W">> \/ t = <<>> BY <1>3 DEF Lists, Polls, Filling
    <2>2. <<"W">> \in Seq(Commands) /\ <<>> \in Seq(Commands) OBVIOUS
    <2>3. t \in Seq(Commands) BY <2>1, <2>2
    <2>4. QED BY <1>3, <2>3 DEF Filling
  <1>4. CASE j \in Filling
    <2> DEFINE u == Polls("Q") \o Polls("W")
    <2>1. Polls("Q") \in Seq(Commands) /\ Polls("W") \in Seq(Commands)
      <3>1. \A c \in Commands : <<c>> \in Seq(Commands) /\ <<>> \in Seq(Commands) OBVIOUS
      <3>2. QED BY <3>1 DEF Polls
    <2>2. u \in Seq(Commands) BY <2>1
    <2>3. t = u \o <<"Y", "Y">> BY <1>4 DEF Lists, Filling
    <2>4. <<"Y", "Y">> \in Seq(Commands) /\ Len(<<"Y", "Y">>) = 2 BY DEF Commands
    <2> HIDE DEF u
    <2>5. t \in Seq(Commands) /\ Len(t) = Len(u) + 2 BY <2>2, <2>3, <2>4
    <2>6. Len(t) > 0 BY <2>2, <2>5
    <2>7. QED BY <2>5, <2>6
  <1>5. CASE j \in Jobs \ ({"setup", "caps", "static"} \cup Filling)
    <2>1. PICK n \in IF "W" \in cap THEN 0 .. ReasonTries ELSE {0} : t = [i \in 1 .. n |-> "W"]
      BY <1>5 DEF Lists
    <2>2. n \in Nat BY <2>1, ConstantTypes
    <2>3. QED BY <1>5, <2>1, <2>2 DEF Commands
  <1>6. QED BY <1>1, <1>2, <1>3, <1>4, <1>5

LEMMA TypesStay ==
  ASSUME TypeOK, Places, [Next]_vars
  PROVE  TypeOK' /\ Places'
  <1> USE ConstantTypes, JobTypes
  <1>1. CASE Open
    <2>1. CASE link = "gone"
      <3>1. /\ turns' \in 0 .. LostAfter /\ commlost' \in BOOLEAN /\ announced' \in BOOLEAN
            /\ UNCHANGED <<line, work, pc, battery, info, locks, tries, late>>
        BY <1>1, <2>1 DEF Open, TypeOK
      <3>2. TypeOK' BY <3>1 DEF TypeOK, line, work, info, locks
      <3>3. Places' BY <3>1 DEF Places, line, work
      <3>4. QED BY <3>2, <3>3
    <2>2. CASE link # "gone"
      <3>1. /\ fd' = "open" /\ job' = "setup" /\ pc' = "start"
            /\ UNCHANGED <<link, asked, todo, sm, battery, info, locks, tries, late>>
        BY <1>1, <2>2 DEF Open
      <3>2. commlost' \in BOOLEAN /\ announced' \in BOOLEAN BY <1>1, <2>2 DEF Open
      <3>3. turns' \in 0 .. LostAfter BY <1>1, <2>2 DEF Open
      <3>4. wire' \in Seq(Items) BY <1>1, <2>2 DEF Open
      <3>5. TypeOK' BY <3>1, <3>2, <3>3, <3>4 DEF TypeOK, Items, Jobs, info, locks
      <3>6. Places' BY <3>1 DEF Places, Polling, Away
      <3>7. QED BY <3>5, <3>6
    <2>3. QED BY <2>1, <2>2
  <1>2. CASE Start
    <2>1. /\ pc = "start" /\ job \in Jobs \ {"check"} /\ todo' \in Lists(job)
          /\ UNCHANGED <<battery, link, wire, fd, info, comm, reader, astray, job,
            late>>
      BY <1>2, JobTypes DEF Start
    <2>2. todo' \in Seq(Commands) /\ (job \in Filling \cup {"setup"} => todo' # <<>>)
      BY <2>1, ListTypes
    <2>3. asked' \in Seq(Commands)
      <3>1. CASE job = "setup" BY <1>2, <3>1, WriteTypes DEF Start, Commands
      <3>2. CASE job # "setup" BY <1>2, <3>2 DEF Start, TypeOK
      <3>3. QED BY <3>1, <3>2
    <2>4. /\ sm' \in 0 .. StatusTries /\ mutex' \in BOOLEAN
          /\ tries' \in 0 .. (Tries + SetupTries)
          /\ todo' # <<>> => tries' > 0
      BY <1>2, <2>2 DEF Start, TriesOf, TypeOK, Filling
    <2>5. /\ job = "setup" => pc' = "flush"
          /\ job # "setup" => pc' \in {"try", "done", "ask"}
          /\ pc' = "try" => job \in Filling
          /\ pc' = "ask" => todo' # <<>>
      BY <1>2 DEF Start, Filling
    <2>6. QED
      BY <2>1, <2>2, <2>3, <2>4, <2>5
        DEF TypeOK, Places, Polling, Away, Jobs, Filling, info, comm
  <1>3. CASE Flush
    BY <1>3, OverdueTypes
      DEF TypeOK, Places, Polling, Away, Items, Flush, info, comm, locks, work
  <1>4. CASE Finish
    BY <1>4 DEF TypeOK, Places, Polling, Away, Items, Jobs, Finish, line, info, comm
  <1>5. CASE Ask
    BY <1>5
      DEF TypeOK, Places, Polling, Away, Items, Ask, Write, info, comm, locks, work
  <1>6. CASE Answered
    <2>1. PICK l \in Lines : Gets(l) /\ Use(Head(todo), l) BY <1>6 DEF Answered
    <2>2. pc = "answer" /\ todo # <<>> /\ Head(todo) \in Commands
      BY <1>6 DEF Answered, Places, Polling, TypeOK
    <2>3. /\ todo' \in Seq(Commands) /\ sm' \in 0 .. StatusTries
          /\ pc' \in {"ask", "done"}
          /\ tries' \in 0 .. (Tries + SetupTries)
          /\ pc' = "ask" => todo' # <<>> /\ tries' > 0
          /\ cap' \subseteq Commands /\ onbatt' \in BOOLEAN /\ selftest' \in BOOLEAN
      BY <2>1, <2>2, GetsTypes, UseTypes DEF TypeOK
    <2>4. wire' \in Seq(Items) /\ late' = late BY <1>6, <2>1, GetsTypes DEF Answered
    <2>5. TypeOK' BY <1>6, <2>3, <2>4 DEF Answered, TypeOK, Items, comm, locks
    <2>6. Places' BY <1>6, <2>3 DEF Answered, Places, Polling, Away
    <2>7. QED BY <2>5, <2>6
  <1>7. CASE NoAnswer
    BY <1>7, OverdueTypes
      DEF TypeOK, Places, Polling, Away, Items, NoAnswer, Misses, line, info, comm,
        locks, work
  <1>8. CASE SetupAnswer
    <2>1. CASE \E l \in Lines : Gets(l) /\ wire' = Tail(wire)
                 /\ pc' = IF l.is = "SM" THEN "done" ELSE IF tries > 0 THEN "ask" ELSE "dead"
      <3>1. PICK l \in Lines : Gets(l) /\ wire' = Tail(wire)
                 /\ pc' = IF l.is = "SM" THEN "done" ELSE IF tries > 0 THEN "ask" ELSE "dead"
        BY <2>1
      <3>2. QED
        BY <1>8, <3>1, GetsTypes
          DEF SetupAnswer, TypeOK, Places, Polling, Away, Items, info, comm, locks, work
    <2>2. CASE Misses /\ UNCHANGED wire /\ pc' = IF tries > 0 THEN "ask" ELSE "dead"
      BY <1>8, <2>2, OverdueTypes
        DEF SetupAnswer, Misses, TypeOK, Places, Polling, Away, Items, info, comm,
          locks, work
    <2>3. QED BY <1>8, <2>1, <2>2 DEF SetupAnswer
  <1>9. CASE Try
    BY <1>9
      DEF TypeOK, Places, Polling, Away, Items, Commands, Try, Write, info, comm,
        locks, work
  <1>10. CASE LinkThere
    <2>1. PICK l \in Lines : Gets(l) BY <1>10 DEF LinkThere
    <2>2. pc = "tried" /\ todo # <<>> /\ Checked BY <1>10 DEF LinkThere, Places, Polling
    <2>3. QED
      BY <1>10, <2>1, <2>2, GetsTypes, CheckedTypes
        DEF LinkThere, TypeOK, Places, Polling, Away, Items, locks
  <1>11. CASE LinkMissing
    <2>1. late' \in BOOLEAN
      BY <1>11, GetsTypes, OverdueTypes DEF LinkMissing, Misses, TypeOK
    <2>2. mutex' \in BOOLEAN /\ astray' \in BOOLEAN BY <1>11 DEF LinkMissing, TypeOK
    <2>3. wire' \in Seq(Items) BY <1>11 DEF LinkMissing
    <2>4. turns' \in 0 .. LostAfter BY <1>11 DEF LinkMissing
    <2>5. pc' = "loop" /\ UNCHANGED <<battery, link, asked, fd, info, commlost,
      announced, reader, work, tries>>
      BY <1>11 DEF LinkMissing
    <2>6. TypeOK' BY <2>1, <2>2, <2>3, <2>4, <2>5 DEF TypeOK, Items, info, work
    <2>7. Places' BY <1>11 DEF LinkMissing, Places, Polling, Away, work
    <2>8. QED BY <2>6, <2>7
  <1>12. CASE LoopAsk
    <2>1. TypeOK'
      <3>1. asked' \in Seq(Commands) /\ pc' \in {"turn", "looped"}
        BY <1>12, WriteTypes DEF LoopAsk, TypeOK, Commands
      <3>2. UNCHANGED <<link, wire, fd, info, comm, locks, work, tries, late, battery>>
        BY <1>12 DEF LoopAsk
      <3>3. QED BY <3>1, <3>2 DEF TypeOK, Items, info, comm, locks, work
    <2>2. Places'
      BY <1>12
        DEF TypeOK, Places, Polling, Away, Items, LoopAsk, Write, info, comm, locks,
          work
    <2>3. QED BY <2>1, <2>2
  <1>13. CASE LoopAnswer
    <2>1. CASE \E l \in Lines : Gets(l) /\ wire' = Tail(wire)
                 /\ pc' = IF l.is = "SM" THEN "relock" ELSE "turn"
      <3>1. PICK l \in Lines : Gets(l) /\ wire' = Tail(wire)
                 /\ pc' = IF l.is = "SM" THEN "relock" ELSE "turn"
        BY <2>1
      <3>2. QED
        BY <1>13, <3>1, GetsTypes
          DEF LoopAnswer, TypeOK, Places, Polling, Away, Items, info, comm, locks, work
    <2>2. CASE Misses /\ UNCHANGED wire /\ pc' = "turn"
      BY <1>13, <2>2, OverdueTypes
        DEF LoopAnswer, Misses, TypeOK, Places, Polling, Away, Items, info, comm,
          locks, work
    <2>3. QED BY <1>13, <2>1, <2>2 DEF LoopAnswer
  <1>14. CASE Turn
    BY <1>14 DEF TypeOK, Places, Polling, Away, Items, Turn, info, locks, work
  <1>15. CASE Relock
    <2>1. pc = "relock" /\ todo # <<>> /\ Checked BY <1>15 DEF Relock, Places, Polling
    <2>2. mutex' \in BOOLEAN /\ commlost' \in BOOLEAN /\ announced' \in BOOLEAN
      BY <1>15 DEF Relock
    <2>3. turns' \in 0 .. LostAfter BY <1>15 DEF Relock
    <2>4. UNCHANGED <<battery, line, reader, astray, job, late>> BY <1>15 DEF Relock
    <2>5. TypeOK' BY <2>1, <2>2, <2>3, <2>4, CheckedTypes DEF TypeOK, line
    <2>6. Places' BY <1>15, <2>1, CheckedTypes DEF Relock, Places, Polling, Away
    <2>7. QED BY <2>5, <2>6
  <1>16. CASE CheckState
    <2>1. job = "check" /\ pc = "start" /\ UNCHANGED <<battery, link, asked, fd, comm,
      locks, todo, sm, pc, tries>>
      BY <1>16 DEF CheckState, Places
    <2>2. late' \in BOOLEAN /\ wire' \in Seq(Items)
      BY <1>16, GetsTypes, ObeyTypes, OverdueTypes DEF CheckState, Misses, TypeOK, Items
    <2>3. job' \in {"check", "act1"} BY <1>16, <2>1 DEF CheckState, After
    <2>4. onbatt' \in BOOLEAN /\ cap' = cap /\ selftest' = selftest
      BY <1>16, ObeyTypes DEF CheckState, info, TypeOK
    <2>5. job' # "check" \/ job' = job BY <1>16, <2>1 DEF CheckState, After
    <2>6. QED
      BY <2>1, <2>2, <2>4, <2>5, <2>3
        DEF TypeOK, Places, Polling, Away, Items, Jobs, comm, locks
  <1>17. CASE Alert
    <2>1. PICK l \in Alerts : Obey(l) BY <1>17 DEF Alert
    <2>2. QED
      BY <1>17, <2>1, ObeyTypes
        DEF Alert, TypeOK, Places, Polling, Away, Items, comm, locks, work
  <1>18. CASE Answer
    <2>1. Reply(Head(asked)) \in Items /\ Tail(asked) \in Seq(Commands)
      BY <1>18 DEF Answer, Reply, TypeOK, Commands, Items, Lines
    <2>2. wire' \in Seq(Items) BY <1>18, <2>1 DEF Answer, TypeOK, Items
    <2>3. QED
      BY <1>18, <2>1, <2>2
        DEF Answer, TypeOK, Places, Polling, Away, Items, info, comm, locks, work
  <1>19. CASE Mains
    <2>1. battery' \in BOOLEAN BY <1>19 DEF Mains, TypeOK
    <2>2. [is |-> "alert", on |-> battery'] \in Items
      <3>1. [is |-> "alert", on |-> battery'] \in Alerts BY <2>1 DEF Alerts
      <3>2. QED BY <3>1 DEF Items
    <2>3. wire' \in Seq(Items) BY <1>19, <2>2 DEF Mains, TypeOK, Items
    <2>4. QED
      BY <1>19, <2>1, <2>3
        DEF Mains, TypeOK, Places, Polling, Away, Items, info, comm, locks, work
  <1>20. CASE Link
    <2>1. TypeOK'
      BY <1>20 DEF TypeOK, Places, Polling, Away, Items, Link, info, comm, locks, work
    <2>2. Places'
      BY <1>20 DEF TypeOK, Places, Polling, Away, Items, Link, info, comm, locks, work
    <2>3. QED BY <2>1, <2>2
  <1>21. CASE Enter
    BY <1>21 DEF TypeOK, Places, Polling, Away, Items, Enter, line, info, comm, work
  <1>22. CASE Leave
    BY <1>22 DEF TypeOK, Places, Polling, Away, Items, Leave, line, info, comm, work
  <1>23. CASE UNCHANGED vars
    BY <1>23
      DEF TypeOK, Places, Polling, Away, Items, vars, line, info, comm, locks, work
  <1>24. QED
    BY <1>1, <1>2, <1>3, <1>4, <1>5, <1>6, <1>7, <1>8, <1>9, <1>10, <1>11, <1>12,
      <1>13, <1>14, <1>15, <1>16, <1>17, <1>18, <1>19, <1>20, <1>21, <1>22, <1>23
        DEF Next, Device, Others

LEMMA AlertsAreNoLines == \A a \in Alerts : a \notin Lines
  BY DEF Alerts, Lines

\* What is taken from the port, and what comes to it.
LEMMA TakenLine ==
  ASSUME NEW w \in Seq(Items), w # <<>>, NEW is
  PROVE  /\ NoLine(w) => NoLine(Tail(w)) /\ Head(w) \notin Lines
         /\ OneLine(w, is) => OneLine(Tail(w), is)
         /\ OneLine(w, is) /\ Head(w) \in Lines => Head(w).is = is /\ NoLine(Tail(w))
  <1>1. /\ Len(w) > 0 /\ Len(w) \in Nat /\ Head(w) = w[1]
        /\ Len(Tail(w)) = Len(w) - 1
        /\ \A i \in 1 .. Len(Tail(w)) : Tail(w)[i] = w[i + 1]
    OBVIOUS
  <1>2. QED BY <1>1 DEF NoLine, OneLine

LEMMA AppendedItem ==
  ASSUME NEW w \in Seq(Items), NEW l \in Items, NEW is
  PROVE  /\ NoLine(w) /\ l \notin Lines => NoLine(Append(w, l))
         /\ OneLine(w, is) /\ l \notin Lines => OneLine(Append(w, l), is)
         /\ NoLine(w) /\ l.is = is => OneLine(Append(w, l), is)
  <1>1. /\ Len(w) \in Nat /\ Len(Append(w, l)) = Len(w) + 1
        /\ Append(w, l)[Len(w) + 1] = l
        /\ \A i \in 1 .. Len(w) : Append(w, l)[i] = w[i]
    OBVIOUS
  <1>2. QED BY <1>1 DEF NoLine, OneLine

LEMMA EmptyPort == NoLine(<<>>) /\ \A w, is : NoLine(w) => OneLine(w, is)
  BY DEF NoLine, OneLine

LEMMA WriteOnce ==
  ASSUME asked = <<>>, NEW c, Write(c)
  PROVE  asked' \in {<<>>, <<c>>}
  BY DEF Write

LEMMA UseInTime ==
  ASSUME ~ selftest, NEW c, NEW l, c = "W" => l.is # "SM", Use(c, l)
  PROVE  ~ selftest'
  BY DEF Use, Discover, Status, Reason, Value, info

LEMMA CheckedInTime ==
  ASSUME ~ selftest, Checked
  PROVE  ~ selftest'
  <1>1. CASE tries > 0 BY <1>1 DEF Checked, info
  <1>2. CASE ~ (tries > 0)
    <2>1. None.is # "SM" BY DEF None
    <2>2. Use(Head(todo), None) BY <1>2 DEF Checked
    <2>3. QED BY <2>1, <2>2, UseInTime
  <1>3. QED BY <1>1, <1>2

\* A line that is read in time is the one that is waited for, and the last.
LEMMA ReadInTime ==
  ASSUME TypeOK, InTime, ~ late, NEW l, Gets(l)
  PROVE  /\ pc \in Waiting /\ l.is = Kind(Expected)
         /\ asked = <<>> /\ NoLine(Tail(wire))
  <1>1. wire \in Seq(Items) /\ wire # <<>> /\ l = Head(wire) /\ l \in Lines
    BY DEF Gets, TypeOK, Items
  <1>2. ~ NoLine(wire) BY <1>1, TakenLine
  <1>3. pc \in Waiting /\ asked = <<>> /\ OneLine(wire, Kind(Expected))
    BY <1>2 DEF InTime
  <1>4. QED BY <1>1, <1>3, TakenLine

LEMMA InTimeStays ==
  ASSUME TypeOK, Places, InTime, [Next]_vars
  PROVE  InTime'
  <1> SUFFICES ASSUME ~ late'
               PROVE  /\ pc' \notin Waiting => asked' = <<>> /\ NoLine(wire')
                      /\ pc' \in Waiting =>
                           \/ asked' = <<>> /\ OneLine(wire', Kind(Expected'))
                           \/ asked' = <<Expected'>> /\ NoLine(wire')
                      /\ ~ selftest'
    BY DEF InTime
  <1> USE DEF Waiting
  <1>1. CASE Open
    <2>1. ~ late /\ pc = "start" /\ pc' = "start" /\ asked' = asked /\ wire' \in {wire,
      <<>>} /\ selftest' = selftest
      BY <1>1 DEF Open, Places, line, work, info
    <2>2. QED BY <2>1, EmptyPort DEF InTime
  <1>2. CASE Start
    <2>1. ~ late /\ pc = "start" /\ wire' = wire /\ selftest' = selftest
      BY <1>2 DEF Start, info
    <2>2. asked = <<>> /\ NoLine(wire) /\ ~ selftest BY <2>1 DEF InTime
    <2>3. CASE job = "setup"
      <3>1. pc' = "flush" BY <1>2, <2>3 DEF Start, Filling
      <3>2. Write("Y") BY <1>2, <2>3 DEF Start
      <3>3. pc' = "flush" /\ Write("Y") BY <3>1, <3>2
      <3>4. pc' = "flush" /\ asked' \in {<<>>, <<"Y">>} BY <2>2, <3>3, WriteOnce
      <3>5. Expected' = "Y" BY <3>4 DEF Expected
      <3>6. QED BY <2>1, <2>2, <3>4, <3>5, EmptyPort
    <2>4. CASE job # "setup"
      <3>1. pc' \in {"try", "done", "ask"} /\ asked' = asked BY <1>2, <2>4 DEF Start
      <3>2. QED BY <2>1, <2>2, <3>1
    <2>5. QED BY <2>3, <2>4
  <1>3. CASE Flush
    <2>1. ~ late /\ asked = <<>> /\ wire' = <<>> /\ pc' = "ask" /\ asked' = asked /\ selftest' = selftest
      BY <1>3 DEF Flush, Overdue, info
    <2>2. QED BY <2>1, EmptyPort DEF InTime
  <1>4. CASE Finish
    <2>1. ~ late /\ pc = "done" /\ pc' = "start" /\ UNCHANGED <<asked, wire, selftest>>
      BY <1>4 DEF Finish, line, info
    <2>2. QED BY <2>1 DEF InTime
  <1>5. CASE Ask
    <2>1. ~ late /\ pc = "ask" /\ pc' = "answer" /\ UNCHANGED <<todo, wire, selftest>>
      BY <1>5 DEF Ask, info, work
    <2>2. asked = <<>> /\ NoLine(wire) /\ ~ selftest BY <2>1 DEF InTime
    <2>3. asked' \in {<<>>, <<Head(todo)>>} BY <1>5, <2>2, WriteOnce DEF Ask
    <2>4. Expected' = Head(todo) BY <2>1 DEF Expected
    <2>5. QED BY <2>1, <2>2, <2>3, <2>4, EmptyPort
  <1>6. CASE Answered
    <2>1. PICK l \in Lines : Gets(l) /\ Use(Head(todo), l) BY <1>6 DEF Answered
    <2>2. ~ late /\ pc = "answer" /\ todo # <<>> /\ wire' = Tail(wire) /\ asked' = asked
      BY <1>6, <2>1 DEF Answered, Gets, Places, Polling
    <2>3. asked = <<>> /\ NoLine(Tail(wire)) /\ l.is = Kind(Head(todo)) /\ ~ selftest
      BY <2>1, <2>2, ReadInTime DEF Expected, InTime
    <2>4. pc' \in {"ask", "done"} BY <2>1, <2>2, GetsTypes, UseTypes
    <2>5. Head(todo) = "W" => l.is # "SM" BY <2>3 DEF Kind
    <2>6. ~ selftest' BY <2>1, <2>3, <2>5, UseInTime
    <2>7. QED BY <2>2, <2>3, <2>4, <2>6
  <1>7. CASE NoAnswer
    <2>1. ~ late /\ asked = <<>> /\ wire = <<>> /\ pc' = "try" /\ UNCHANGED <<asked,
      wire, selftest>>
      BY <1>7 DEF NoAnswer, Misses, Overdue, line, info
    <2>2. QED BY <2>1, EmptyPort DEF InTime
  <1>8. CASE SetupAnswer
    <2>1. UNCHANGED <<asked, selftest>> /\ pc' \in {"done", "ask", "dead"}
      BY <1>8 DEF SetupAnswer, info
    <2>2. CASE Misses /\ UNCHANGED wire
      <3>1. ~ late /\ asked = <<>> /\ wire' = <<>>
        BY <1>8, <2>2 DEF SetupAnswer, Misses, Overdue
      <3>2. QED BY <2>1, <3>1, EmptyPort DEF InTime
    <2>3. CASE \E l \in Lines : Gets(l) /\ wire' \in {Tail(wire), <<>>}
      <3>1. PICK l \in Lines : Gets(l) /\ wire' \in {Tail(wire), <<>>} BY <2>3
      <3>2. ~ late BY <3>1 DEF Gets
      <3>3. QED BY <2>1, <3>1, <3>2, ReadInTime, EmptyPort DEF InTime
    <2>4. QED BY <1>8, <2>2, <2>3 DEF SetupAnswer
  <1>9. CASE Try
    <2>1. ~ late /\ pc = "try" /\ pc' = "tried" /\ wire' = <<>> /\ selftest' = selftest
      BY <1>9 DEF Try, info
    <2>2. asked = <<>> /\ ~ selftest BY <2>1 DEF InTime
    <2>3. asked' \in {<<>>, <<"Y">>} BY <1>9, <2>2, WriteOnce DEF Try
    <2>4. Expected' = "Y" BY <2>1 DEF Expected
    <2>5. QED BY <2>1, <2>2, <2>3, <2>4, EmptyPort
  <1>10. CASE LinkThere
    <2>1. PICK l \in Lines : Gets(l) BY <1>10 DEF LinkThere
    <2>2. ~ late /\ todo # <<>> /\ wire' = Tail(wire) /\ asked' = asked /\ Checked
      BY <1>10, <2>1 DEF LinkThere, Gets, Places, Polling
    <2>3. asked = <<>> /\ NoLine(Tail(wire)) /\ ~ selftest
      BY <2>1, <2>2, ReadInTime DEF InTime
    <2>4. pc' \in {"ask", "done"} BY <2>2, CheckedTypes
    <2>5. ~ selftest' BY <2>2, <2>3, CheckedInTime
    <2>6. QED BY <2>2, <2>3, <2>4, <2>5
  <1>11. CASE LinkMissing
    <2>1. UNCHANGED <<asked, selftest>> /\ pc' \in {"loop"}
      BY <1>11 DEF LinkMissing, info
    <2>2. CASE Misses /\ wire' = <<>>
      <3>1. ~ late /\ asked = <<>> /\ wire' = <<>>
        BY <1>11, <2>2 DEF LinkMissing, Misses, Overdue
      <3>2. QED BY <2>1, <3>1, EmptyPort DEF InTime
    <2>3. CASE \E l \in Lines : Gets(l) /\ wire' \in {Tail(wire), <<>>}
      <3>1. PICK l \in Lines : Gets(l) /\ wire' \in {Tail(wire), <<>>} BY <2>3
      <3>2. ~ late BY <3>1 DEF Gets
      <3>3. QED BY <2>1, <3>1, <3>2, ReadInTime, EmptyPort DEF InTime
    <2>4. QED BY <1>11, <2>2, <2>3 DEF LinkMissing
  <1>12. CASE LoopAsk
    <2>1. ~ late /\ pc = "loop" /\ UNCHANGED <<wire, selftest>>
      BY <1>12 DEF LoopAsk, info
    <2>2. asked = <<>> /\ NoLine(wire) /\ ~ selftest BY <2>1 DEF InTime
    <2>3. CASE fd = "none"
      <3>1. pc' = "turn" /\ asked' = asked BY <1>12, <2>3 DEF LoopAsk
      <3>2. QED BY <2>1, <2>2, <3>1
    <2>4. CASE fd # "none"
      <3>1. pc' = "looped" /\ asked' \in {<<>>, <<"Y">>}
        BY <1>12, <2>2, <2>4, WriteOnce DEF LoopAsk
      <3>2. Expected' = "Y" BY <3>1 DEF Expected
      <3>3. QED BY <2>1, <2>2, <3>1, <3>2, EmptyPort
    <2>5. QED BY <2>3, <2>4
  <1>13. CASE LoopAnswer
    <2>1. UNCHANGED <<asked, selftest>> /\ pc' \in {"relock", "turn"}
      BY <1>13 DEF LoopAnswer, info
    <2>2. CASE Misses /\ UNCHANGED wire
      <3>1. ~ late /\ asked = <<>> /\ wire' = <<>>
        BY <1>13, <2>2 DEF LoopAnswer, Misses, Overdue
      <3>2. QED BY <2>1, <3>1, EmptyPort DEF InTime
    <2>3. CASE \E l \in Lines : Gets(l) /\ wire' \in {Tail(wire), <<>>}
      <3>1. PICK l \in Lines : Gets(l) /\ wire' \in {Tail(wire), <<>>} BY <2>3
      <3>2. ~ late BY <3>1 DEF Gets
      <3>3. QED BY <2>1, <3>1, <3>2, ReadInTime, EmptyPort DEF InTime
    <2>4. QED BY <1>13, <2>2, <2>3 DEF LoopAnswer
  <1>14. CASE Turn
    <2>1. ~ late /\ pc = "turn" /\ pc' = "loop" /\ wire' = <<>> /\ UNCHANGED <<asked,
      selftest>>
      BY <1>14 DEF Turn, info
    <2>2. QED BY <2>1, EmptyPort DEF InTime
  <1>15. CASE Relock
    <2>1. ~ late /\ pc = "relock" /\ todo # <<>> /\ Checked /\ UNCHANGED <<asked, wire>>
      BY <1>15 DEF Relock, line, Places, Polling
    <2>2. asked = <<>> /\ NoLine(wire) /\ ~ selftest BY <2>1 DEF InTime
    <2>3. pc' \in {"ask", "done"} BY <2>1, CheckedTypes
    <2>4. ~ selftest' BY <2>1, <2>2, CheckedInTime
    <2>5. QED BY <2>1, <2>2, <2>3, <2>4
  <1>16. CASE CheckState
    <2>1. pc = "start" /\ pc' = pc /\ asked' = asked BY <1>16 DEF CheckState, Places
    <2>2. CASE \E l \in Lines : Gets(l)
      <3>1. PICK l \in Lines : Gets(l) BY <2>2
      <3>2. ~ late BY <3>1 DEF Gets
      <3>3. FALSE BY <2>1, <3>1, <3>2, ReadInTime
      <3>4. QED BY <3>3
    <2>3. CASE (\E l \in Alerts : Obey(l)) /\ UNCHANGED late
      <3>1. ~ late /\ wire # <<>> /\ wire' = Tail(wire) /\ selftest' = selftest
        BY <2>3 DEF Obey
      <3>2. asked = <<>> /\ NoLine(wire) /\ ~ selftest BY <2>1, <3>1 DEF InTime
      <3>3. NoLine(Tail(wire)) BY <3>1, <3>2, TakenLine DEF TypeOK, Items
      <3>4. QED BY <2>1, <3>1, <3>2, <3>3
    <2>4. CASE Misses /\ UNCHANGED <<wire, info>>
      BY <2>1, <2>4 DEF Misses, Overdue, info, InTime
    <2>5. QED BY <1>16, <2>2, <2>3, <2>4 DEF CheckState
  <1>17. CASE Alert
    <2>1. PICK l \in Alerts : Obey(l) BY <1>17 DEF Alert
    <2>2. ~ late /\ wire # <<>> /\ wire' = Tail(wire) /\ UNCHANGED <<pc, todo, asked,
      selftest>>
      BY <1>17, <2>1 DEF Alert, Obey, work
    <2>3. /\ NoLine(wire) => NoLine(wire')
          /\ \A is : OneLine(wire, is) => OneLine(wire', is)
      BY <2>2, TakenLine DEF TypeOK, Items
    <2>4. Expected' = Expected BY <2>2 DEF Expected
    <2>5. QED BY <2>2, <2>3, <2>4 DEF InTime
  <1>18. CASE Answer
    <2>1. ~ late /\ asked # <<>> /\ UNCHANGED <<pc, todo, selftest>>
      BY <1>18 DEF Answer, info, work
    <2>2. pc \in Waiting /\ asked = <<Expected>> /\ NoLine(wire) /\ ~ selftest
      BY <2>1 DEF InTime
    <2>3. Expected' = Expected BY <2>1 DEF Expected
    <2>4. asked' = <<>> /\ wire' = Append(wire, Reply(Expected))
      BY <1>18, <2>2 DEF Answer
    <2>5. Reply(Expected) \in Items
      <3>1. Expected \in Commands BY <2>1, <2>2 DEF TypeOK
      <3>2. QED BY <3>1 DEF Reply, TypeOK, Commands, Items, Lines
    <2>6. OneLine(wire', Kind(Expected))
      <3>1. Reply(Expected).is = Kind(Expected)
        <4>1. Expected \in Commands BY <2>1, <2>2 DEF TypeOK
        <4>2. QED BY <4>1 DEF Reply, Kind, Commands
      <3>2. QED BY <2>2, <2>4, <2>5, <3>1, AppendedItem DEF TypeOK, Items
    <2>7. Kind(Expected') = Kind(Expected) BY <2>3
    <2>8. QED BY <2>1, <2>2, <2>4, <2>6, <2>7
  <1>19. CASE Mains
    <2>1. ~ late /\ UNCHANGED <<pc, todo, asked, selftest>>
      BY <1>19 DEF Mains, info, work
    <2>2. PICK a \in Alerts : wire' \in {wire, Append(wire, a)}
      <3>1. [is |-> "alert", on |-> battery'] \in Alerts
        BY <1>19 DEF Mains, TypeOK, Alerts
      <3>2. QED BY <1>19, <3>1 DEF Mains
    <2>3. /\ NoLine(wire) => NoLine(wire')
          /\ \A is : OneLine(wire, is) => OneLine(wire', is)
      BY <2>2, AppendedItem, AlertsAreNoLines DEF TypeOK, Items
    <2>4. Expected' = Expected BY <2>1 DEF Expected
    <2>5. QED BY <2>1, <2>3, <2>4 DEF InTime
  <1>20. CASE Link
    <2>1. ~ late /\ UNCHANGED <<pc, todo, selftest>> /\ asked' \in {asked,
      <<>>} /\ wire' \in {wire, <<>>}
      BY <1>20 DEF Link, info, work
    <2>2. Expected' = Expected BY <2>1 DEF Expected
    <2>3. /\ NoLine(wire) => NoLine(wire')
          /\ \A is : OneLine(wire, is) => OneLine(wire', is)
          /\ \A is : NoLine(wire') => OneLine(wire', is)
      BY <2>1, EmptyPort
    <2>4. QED BY <2>1, <2>2, <2>3 DEF InTime
  <1>21. CASE Enter
    <2>1. ~ late /\ UNCHANGED <<pc, todo, asked, wire, selftest>>
      BY <1>21 DEF Enter, line, info, work
    <2>2. Expected' = Expected BY <2>1 DEF Expected
    <2>3. QED BY <2>1, <2>2 DEF InTime
  <1>22. CASE Leave
    <2>1. ~ late /\ UNCHANGED <<pc, todo, asked, wire, selftest>>
      BY <1>22 DEF Leave, line, info, work
    <2>2. Expected' = Expected BY <2>1 DEF Expected
    <2>3. QED BY <2>1, <2>2 DEF InTime
  <1>23. CASE UNCHANGED vars
    <2>1. ~ late /\ UNCHANGED <<pc, todo, asked, wire, selftest>>
      BY <1>23 DEF vars, line, info, work
    <2>2. Expected' = Expected BY <2>1 DEF Expected
    <2>3. QED BY <2>1, <2>2 DEF InTime
  <1>24. QED
    BY <1>1, <1>2, <1>3, <1>4, <1>5, <1>6, <1>7, <1>8, <1>9, <1>10, <1>11, <1>12,
      <1>13, <1>14, <1>15, <1>16, <1>17, <1>18, <1>19, <1>20, <1>21, <1>22, <1>23
        DEF Next, Device, Others

-----------------------------------------------------------------------------
SmartInv == TypeOK /\ Places /\ InTime

LEMMA SmartInit == Init => SmartInv
  <1> SUFFICES ASSUME Init PROVE SmartInv OBVIOUS
  <1> USE ConstantTypes DEF Init
  <1>1. TypeOK
    <2>1. <<>> \in Seq(Commands) /\ <<>> \in Seq(Lines \cup Alerts) OBVIOUS
    <2>2. {battery, onbatt, selftest, commlost, announced, mutex, reader, astray,
      late} \subseteq BOOLEAN OBVIOUS
    <2>3. cap \subseteq Commands OBVIOUS
    <2>4. /\ tries \in 0 .. (Tries + SetupTries) /\ sm \in 0 .. StatusTries /\ turns \in 0 .. LostAfter
      OBVIOUS
    <2>5. QED BY <2>1, <2>2, <2>3, <2>4 DEF TypeOK
  <1>2. Places BY DEF Places, Polling
  <1>3. InTime BY EmptyPort DEF InTime, Waiting
  <1>4. QED BY <1>1, <1>2, <1>3 DEF SmartInv

LEMMA SmartAlways == Spec => []SmartInv
  <1>1. SmartInv /\ [Next]_vars => SmartInv'
    BY TypesStay, InTimeStays DEF SmartInv
  <1>2. QED BY SmartInit, <1>1, PTL DEF Spec

\* The variables of the driver keep their types: at most Tries or SetupTries tries
\* are left, never less than none, and the retries of the status byte run out.
THEOREM SmartTypeCorrect == Spec => []TypeOK
  <1>1. SmartInv => TypeOK BY DEF SmartInv
  <1>2. QED BY SmartAlways, <1>1, PTL

\* As long as no answer comes after its second, every line is read as the answer
\* it is, and no outage is taken for a self test, whatever else the line does.
THEOREM AnswersInTime == Spec => []AnswersMatch
  <1>1. SmartInv => AnswersMatch
    <2> SUFFICES ASSUME SmartInv PROVE AnswersMatch OBVIOUS
    <2>1. ASSUME ~ late, pc = "answer", wire # <<>>, Head(wire) \in Lines
          PROVE  Head(wire).is = Reply(Head(todo)).is
      <3>1. Head(todo) \in Commands BY <2>1 DEF SmartInv, TypeOK, Places, Polling
      <3>2. Reply(Head(todo)).is = Kind(Head(todo)) BY <3>1 DEF Reply, Kind, Commands
      <3>3. wire \in Seq(Items) BY DEF SmartInv, TypeOK, Items
      <3>4. ~ NoLine(wire) BY <2>1, <3>3, TakenLine
      <3>5. OneLine(wire, Kind(Head(todo)))
        BY <2>1, <3>4 DEF SmartInv, InTime, Waiting, Expected
      <3>6. QED BY <2>1, <3>3, <3>5, <3>2, TakenLine
    <2>2. selftest => late BY DEF SmartInv, InTime
    <2>3. QED BY <2>1, <2>2 DEF AnswersMatch
  <1>2. QED BY SmartAlways, <1>1, PTL
=============================================================================
