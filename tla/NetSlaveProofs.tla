---------------------------- MODULE NetSlaveProofs ----------------------------
(***************************************************************************)
(* What NetSlave promises for every set of masters, every age at which the *)
(* buffer is stale and every number of passes the driver waits for its     *)
(* master.                                                                 *)
(***************************************************************************)
EXTENDS NetSlave, TLAPS

\* Where the thread stands while it owes a do_action() to the last status.
Acting == pc \in {"act1", "act2"}

\* What leads where: the calls that fetch what is not known yet are made only
\* then, and fillUPS() and check_state() return to their own do_action().
Places ==
    /\ pc \in {"caps", "fillcaps", "flagcaps"} => ~ got_caps
    /\ pc \in {"caps", "static", "fillstatic", "flagstatic"} => ~ got_static_data
    /\ pc = "flag" => got_caps /\ got_static_data
    /\ pc \in {"fillstatic", "flagstatic"} => got_caps
    /\ caller = "check_state" /\ pc \in {"fill", "fillcaps", "fillstatic"}
          => got_caps /\ got_static_data
    /\ pc \in {"caps", "static"} => caller = "start"
    /\ pc = "act1" => caller # "fillUPS"
    /\ pc = "act2" => caller = "fillUPS"
    /\ pc = "sleep" => caller = "check_state"
    /\ pc = "values" => caller # "check_state"
    /\ pc \in {"flag", "flagcaps", "flagstatic"} /\ caller # "check_state" => filled

\* An outage is known only to a driver that knows the UPS, and not before the
\* first status.
Known ==
    /\ ups.onbatt => got_caps /\ got_static_data
    /\ caller = "start" /\ pc # "act1" => ~ ups.onbatt

\* An order to shut down is in the hands of do_action() from the pass after it.
Orders ==
    /\ prev.shut_remote => heeded
    /\ ups.shut_remote => heeded \/ Acting
    /\ comm_loss > CommLossLimit => ups.shut_remote \/ heeded

\* The count of the driver is not ahead of the passes that were lost.
Counts == comm_loss <= missed

IInv == TypeOK /\ Places /\ Known /\ Orders /\ Counts

LEMMA CommLossLimitNat == CommLossLimit \in Nat
  BY LimitAssumption

LEMMA EmptyBuffer == Empty \in Buffers
  BY MasterAssumption DEF Empty, Buffers, Nothing, All

\* The steps that poll the master leave what the core knows of it alone.
LEMMA PollKeeps ==
    ASSUME IInv, NEW ok \in BOOLEAN, NEW got \in Nothing .. All, poll_ups(ok, got)
    PROVE  /\ statbuf' \in Buffers
           /\ since' \in 0 .. Fresh
           /\ cut' \in BOOLEAN
           /\ ups' = [ups EXCEPT !.commlost = ~ ok]
           /\ statbuf'.got = got
  <1>1. since' \in 0 .. Fresh
    BY LimitAssumption DEF IInv, TypeOK, poll_ups
  <1>2. statbuf' \in Buffers /\ statbuf'.got = got
    BY EmptyBuffer, MasterAssumption DEF IInv, TypeOK, poll_ups, Buffers, Empty, Nothing, All
  <1>3. QED
    BY <1>1, <1>2 DEF IInv, TypeOK, poll_ups

LEMMA OutcomeType == \A o \in Outcomes : o[1] \in BOOLEAN /\ o[2] \in Nothing .. All
  BY DEF Outcomes

LEMMA FailedOutcome ==
    ASSUME NEW o \in Outcomes, ~ o[1]
    PROVE  o[2] < All
  <1>1. o \in BOOLEAN \X (Nothing .. All) /\ o # <<FALSE, All>>
    BY DEF Outcomes
  <1>2. o[1] = FALSE
    BY <1>1
  <1>3. o[2] # All
    <2>1. \A p \in BOOLEAN \X (Nothing .. All) : p = <<p[1], p[2]>>
      OBVIOUS
    <2>2. o = <<o[1], o[2]>>
      BY <1>1, <2>1
    <2>3. QED
      BY <1>1, <1>2, <2>2
  <1>4. QED
    BY <1>3, OutcomeType DEF Nothing, All

LEMMA InitInvariant == Init => IInv
  <1> SUFFICES ASSUME Init PROVE IInv
    OBVIOUS
  <1> USE DEF Init
  <1>1. TypeOK
    <2>1. {comm_loss, missed} \subseteq 0 .. LossMax
      BY LimitAssumption DEF LossMax
    <2>2. since \in 0 .. Fresh /\ statbuf \in Buffers
      BY LimitAssumption, EmptyBuffer
    <2>3. QED
      BY <2>1, <2>2 DEF TypeOK
  <1>2. Places /\ Known
    BY DEF Places, Known
  <1>3. Orders /\ Counts
    BY LimitAssumption DEF Orders, Counts
  <1>4. QED
    BY <1>1, <1>2, <1>3 DEF IInv

-----------------------------------------------------------------------------
(* One lemma per group of actions *)

\* The places goon fit what the poll of get_capabilities() found.
FitsCaps(goon) == \A o \in Outcomes :
    /\ goon[o[1]] \in {"static", "fillstatic", "flagstatic", "fill", "flag", "values",
                      "act1", "act2"}
    /\ goon[o[1]] \in {"static", "fillstatic", "flagstatic"} => ~ got_static_data
    /\ goon[o[1]] = "static" => caller = "start"
    /\ goon[o[1]] \in {"fillstatic", "flagstatic"} => o[1]
    /\ goon[o[1]] = "fillstatic" => caller # "check_state"
    /\ goon[o[1]] = "flagstatic" => caller = "check_state" \/ filled
    /\ goon[o[1]] = "flag" => o[1] /\ got_static_data /\ filled
    /\ goon[o[1]] = "act1" => caller # "fillUPS"
    /\ goon[o[1]] = "act2" => caller = "fillUPS"
    /\ goon[o[1]] = "values" => caller # "check_state"
    /\ goon[o[1]] = "fill" /\ caller = "check_state" => o[1] /\ got_static_data

\* ... and of read_static_data().
FitsStatic(goon) == \A o \in Outcomes :
    /\ goon[o[1]] \in {"fill", "flag", "values", "act1", "act2"}
    /\ goon[o[1]] = "flag" => o[1] /\ got_caps /\ filled
    /\ goon[o[1]] = "act1" => caller # "fillUPS"
    /\ goon[o[1]] = "act2" => caller = "fillUPS"
    /\ goon[o[1]] = "values" => caller # "check_state"
    /\ goon[o[1]] = "fill" /\ caller = "check_state" => o[1] /\ got_caps

LEMMA CapabilitiesStep ==
    ASSUME IInv, NEW goon, get_capabilities(goon), pc \in {"caps", "fillcaps", "flagcaps"},
           FitsCaps(goon)
    PROVE  IInv'
  <1>1. PICK o \in Outcomes : /\ poll_ups(o[1], o[2])
                              /\ got_caps' = o[1]
                              /\ battlev' = IF o[1] THEN o[2] >= Values ELSE battlev
                              /\ pc' = goon[o[1]]
                              /\ UNCHANGED <<caller, filled, got_static_data, comm_err,
                                             comm_loss, core, outside, missed>>
    BY DEF get_capabilities
  <1>2. o[1] \in BOOLEAN /\ o[2] \in Nothing .. All
    BY OutcomeType
  <1>3. /\ statbuf' \in Buffers /\ since' \in 0 .. Fresh /\ cut' \in BOOLEAN
        /\ ups' = [ups EXCEPT !.commlost = ~ o[1]]
    BY <1>1, <1>2, PollKeeps
  <1>4. ~ got_caps /\ ~ ups.onbatt
    BY DEF IInv, Places, Known
  <1>5. ups' \in [onbatt : BOOLEAN, commlost : BOOLEAN, fastpoll : BOOLEAN,
                  shut_remote : BOOLEAN, BattChg : Nat]
        /\ ups'.onbatt = ups.onbatt /\ ups'.shut_remote = ups.shut_remote
    BY <1>3, <1>2 DEF IInv, TypeOK
  <1>6. TypeOK'
    <2>1. battlev' \in BOOLEAN
      <3>1. CASE o[1]
        BY <1>1, <3>1
      <3>2. CASE ~ o[1]
        BY <1>1, <3>2 DEF IInv, TypeOK
      <3>3. QED
        BY <3>1, <3>2
    <2>2. QED
      BY <1>1, <1>2, <1>3, <1>5, <2>1 DEF IInv, TypeOK, core, outside, FitsCaps
  <1>7. Places'
    BY <1>1, <1>2 DEF IInv, Places, FitsCaps
  <1>8. Known'
    BY <1>1, <1>4, <1>5 DEF Known
  <1>9. Orders'
    BY <1>1, <1>5 DEF IInv, Orders, Acting, core, FitsCaps
  <1>10. Counts'
    BY <1>1, <1>4, <1>5 DEF IInv, Counts, outside
  <1>11. QED
    BY <1>6, <1>7, <1>8, <1>9, <1>10 DEF IInv

LEMMA StaticStep ==
    ASSUME IInv, NEW goon, read_static_data(goon), pc \in {"static", "fillstatic", "flagstatic"},
           FitsStatic(goon)
    PROVE  IInv'
  <1>1. PICK o \in Outcomes : /\ poll_ups(o[1], o[2])
                              /\ got_static_data' = o[1]
                              /\ pc' = goon[o[1]]
                              /\ UNCHANGED <<caller, filled, got_caps, battlev, comm_err,
                                             comm_loss, core, outside, missed>>
    BY DEF read_static_data
  <1>2. o[1] \in BOOLEAN /\ o[2] \in Nothing .. All
    BY OutcomeType
  <1>3. /\ statbuf' \in Buffers /\ since' \in 0 .. Fresh /\ cut' \in BOOLEAN
        /\ ups' = [ups EXCEPT !.commlost = ~ o[1]]
    BY <1>1, <1>2, PollKeeps
  <1>4. ~ got_static_data /\ ~ ups.onbatt
    BY DEF IInv, Places, Known
  <1>5. ups' \in [onbatt : BOOLEAN, commlost : BOOLEAN, fastpoll : BOOLEAN,
                  shut_remote : BOOLEAN, BattChg : Nat]
        /\ ups'.onbatt = ups.onbatt /\ ups'.shut_remote = ups.shut_remote
    BY <1>3, <1>2 DEF IInv, TypeOK
  <1>6. TypeOK'
    BY <1>1, <1>2, <1>3, <1>5 DEF IInv, TypeOK, core, outside, FitsStatic
  <1>7. Places'
    BY <1>1, <1>2 DEF IInv, Places, FitsStatic
  <1>8. Known'
    BY <1>1, <1>4, <1>5 DEF Known
  <1>9. Orders'
    BY <1>1, <1>5 DEF IInv, Orders, Acting, core
  <1>10. Counts'
    BY <1>1, <1>4, <1>5 DEF IInv, Counts, outside
  <1>11. QED
    BY <1>6, <1>7, <1>8, <1>9, <1>10 DEF IInv

LEMMA FetchSteps ==
    ASSUME IInv, StartCaps \/ FillCaps \/ FlagCaps \/ StartStatic \/ FillStatic \/ FlagStatic
    PROVE  IInv'
  <1>1. CASE StartCaps
    <2> DEFINE g == [b \in BOOLEAN |-> "static"]
    <2>1. \A o \in Outcomes : g[o[1]] = (LET b == o[1] IN "static")
      BY OutcomeType
    <2>2. get_capabilities(g) /\ pc \in {"caps", "fillcaps", "flagcaps"}
      BY <1>1 DEF StartCaps
    <2> HIDE DEF g
    <2>3. FitsCaps(g)
      BY <2>1, OutcomeType, <1>1 DEF FitsCaps, StartCaps, IInv, TypeOK, Places, StatusPass, Filled, After
    <2>4. QED
      BY <2>2, <2>3, CapabilitiesStep
  <1>2. CASE FillCaps
    <2> DEFINE g == [b \in BOOLEAN |-> IF b /\ ~ got_static_data THEN "fillstatic" ELSE Filled(TRUE)]
    <2>1. \A o \in Outcomes : g[o[1]] = (LET b == o[1] IN IF b /\ ~ got_static_data THEN "fillstatic" ELSE Filled(TRUE))
      BY OutcomeType
    <2>2. get_capabilities(g) /\ pc \in {"caps", "fillcaps", "flagcaps"}
      BY <1>2 DEF FillCaps
    <2> HIDE DEF g
    <2>3. FitsCaps(g)
      BY <2>1, OutcomeType, <1>2 DEF FitsCaps, FillCaps, IInv, TypeOK, Places, StatusPass, Filled, After
    <2>4. QED
      BY <2>2, <2>3, CapabilitiesStep
  <1>3. CASE FlagCaps
    <2> DEFINE g == [b \in BOOLEAN |-> IF b THEN StatusPass(TRUE, got_static_data) ELSE After]
    <2>1. \A o \in Outcomes : g[o[1]] = (LET b == o[1] IN IF b THEN StatusPass(TRUE, got_static_data) ELSE After)
      BY OutcomeType
    <2>2. get_capabilities(g) /\ pc \in {"caps", "fillcaps", "flagcaps"}
      BY <1>3 DEF FlagCaps
    <2> HIDE DEF g
    <2>3. FitsCaps(g)
      BY <2>1, OutcomeType, <1>3 DEF FitsCaps, FlagCaps, IInv, TypeOK, Places, StatusPass, Filled, After
    <2>4. QED
      BY <2>2, <2>3, CapabilitiesStep
  <1>4. CASE StartStatic
    <2> DEFINE g == [b \in BOOLEAN |-> "fill"]
    <2>1. \A o \in Outcomes : g[o[1]] = (LET b == o[1] IN "fill")
      BY OutcomeType
    <2>2. read_static_data(g) /\ pc \in {"static", "fillstatic", "flagstatic"}
      BY <1>4 DEF StartStatic
    <2> HIDE DEF g
    <2>3. FitsStatic(g)
      BY <2>1, OutcomeType, <1>4 DEF FitsStatic, StartStatic, IInv, TypeOK, Places, StatusPass, Filled, After
    <2>4. QED
      BY <2>2, <2>3, StaticStep
  <1>5. CASE FillStatic
    <2> DEFINE g == [b \in BOOLEAN |-> Filled(TRUE)]
    <2>1. \A o \in Outcomes : g[o[1]] = (LET b == o[1] IN Filled(TRUE))
      BY OutcomeType
    <2>2. read_static_data(g) /\ pc \in {"static", "fillstatic", "flagstatic"}
      BY <1>5 DEF FillStatic
    <2> HIDE DEF g
    <2>3. FitsStatic(g)
      BY <2>1, OutcomeType, <1>5 DEF FitsStatic, FillStatic, IInv, TypeOK, Places, StatusPass, Filled, After
    <2>4. QED
      BY <2>2, <2>3, StaticStep
  <1>6. CASE FlagStatic
    <2> DEFINE g == [b \in BOOLEAN |-> IF b THEN StatusPass(TRUE, TRUE) ELSE After]
    <2>1. \A o \in Outcomes : g[o[1]] = (LET b == o[1] IN IF b THEN StatusPass(TRUE, TRUE) ELSE After)
      BY OutcomeType
    <2>2. read_static_data(g) /\ pc \in {"static", "fillstatic", "flagstatic"}
      BY <1>6 DEF FlagStatic
    <2> HIDE DEF g
    <2>3. FitsStatic(g)
      BY <2>1, OutcomeType, <1>6 DEF FitsStatic, FlagStatic, IInv, TypeOK, Places, StatusPass, Filled, After
    <2>4. QED
      BY <2>2, <2>3, StaticStep
  <1>7. QED
    BY <1>1, <1>2, <1>3, <1>4, <1>5, <1>6

LEMMA FillSteps ==
    ASSUME IInv, FillFresh \/ FillFails \/ FillSucceeds
    PROVE  IInv'
  <1> USE DEF IInv
  <1>1. /\ ups'.onbatt = ups.onbatt /\ ups'.shut_remote = ups.shut_remote
        /\ ups' \in [onbatt : BOOLEAN, commlost : BOOLEAN, fastpoll : BOOLEAN,
                     shut_remote : BOOLEAN, BattChg : Nat]
    BY DEF FillFresh, FillFails, FillSucceeds, TypeOK, poll_ups
  <1>2. /\ UNCHANGED <<caller, got_caps, got_static_data, battlev, comm_loss, core, outside,
                       missed>>
        /\ filled' \in BOOLEAN /\ comm_err' \in BOOLEAN
    BY DEF FillFresh, FillFails, FillSucceeds, TypeOK, driver, history
  <1>3. pc = "fill" /\ pc' \in {"flag", "values", "act1", "act2", "fillcaps", "fillstatic"}
        /\ (pc' = "flag" => caller = "check_state" \/ (filled' /\ got_caps /\ got_static_data))
        /\ (pc' = "fillcaps" => ~ got_caps)
        /\ (pc' = "fillstatic" => got_caps /\ ~ got_static_data)
        /\ (pc' = "values" => caller # "check_state")
        /\ (pc' = "act1" => caller = "start")
        /\ (pc' = "act2" => caller = "fillUPS")
    BY DEF FillFresh, FillFails, FillSucceeds, Filled, After, TypeOK, Places
  <1>4. TypeOK'
    <2>1. since' \in 0 .. Fresh /\ statbuf' \in Buffers /\ cut' \in BOOLEAN
          /\ (~ filled' => statbuf'.got < All)
      <3>1. CASE FillFresh
        BY <3>1 DEF FillFresh, TypeOK, history
      <3>2. CASE FillFails
        <4>1. PICK o \in Outcomes : ~ o[1] /\ poll_ups(FALSE, o[2])
          BY <3>2 DEF FillFails
        <4>2. QED
          BY <4>1, PollKeeps, FailedOutcome, OutcomeType
      <3>3. CASE FillSucceeds
        <4>1. PICK o \in Outcomes :
                 /\ statbuf' = IF o[2] = Nothing THEN Empty ELSE [got |-> o[2], said |-> master]
                 /\ cut' = (cut \/ o[2] < All)
          BY <3>3 DEF FillSucceeds
        <4>2. statbuf' \in Buffers
          BY <4>1, OutcomeType, EmptyBuffer DEF Buffers, TypeOK
        <4>3. QED
          BY <4>1, <4>2, <3>3, LimitAssumption DEF FillSucceeds, TypeOK
      <3>4. QED
        BY <3>1, <3>2, <3>3
    <2>2. QED
      BY <1>1, <1>2, <1>3, <2>1 DEF TypeOK, core, outside
  <1>5. Places'
    BY <1>2, <1>3 DEF Places
  <1>6. Known' /\ Orders' /\ Counts'
    BY <1>1, <1>2, <1>3 DEF Known, Orders, Counts, Acting, core
  <1>7. QED
    BY <1>4, <1>5, <1>6

\* What the driver takes over from the master's report is a status.
LEMMA FollowedType ==
    ASSUME TypeOK
    PROVE  Followed \in [onbatt : BOOLEAN, commlost : BOOLEAN, fastpoll : BOOLEAN,
                         shut_remote : BOOLEAN, BattChg : Nat]
  <1> DEFINE Bits == [onbatt : BOOLEAN, commlost : BOOLEAN, fastpoll : BOOLEAN,
                      shut_remote : BOOLEAN, BattChg : Nat]
             m == statbuf.said
  <1>1. ups \in Bits
    BY DEF TypeOK
  <1>2. m.onbatt \in BOOLEAN
    <2>1. m \in Masters
      BY DEF TypeOK, Buffers
    <2>2. m \in Says
      BY <2>1, MasterAssumption
    <2>3. QED
      BY <2>2 DEF Says
  <1>3. ASSUME NEW u \in Bits, NEW a \in BOOLEAN, NEW b \in BOOLEAN, NEW c \in BOOLEAN,
               NEW d \in BOOLEAN
        PROVE  [u EXCEPT !.onbatt = a, !.shut_remote = b, !.commlost = c, !.fastpoll = d] \in Bits
    OBVIOUS
  <1>4. (m.shut_remote \/ m.shutdown) \in BOOLEAN /\ (ups.commlost \/ m.commlost) \in BOOLEAN
        /\ (ups.fastpoll \/ m.fastpoll) \in BOOLEAN
    OBVIOUS
  <1> HIDE DEF Bits
  <1>5. [ups EXCEPT !.onbatt = m.onbatt, !.shut_remote = m.shut_remote \/ m.shutdown,
                    !.commlost = ups.commlost \/ m.commlost,
                    !.fastpoll = ups.fastpoll \/ m.fastpoll] \in Bits
    BY <1>1, <1>2, <1>3, <1>4, Zenon
  <1>6. Followed \in Bits
    BY <1>1, <1>5, Zenon DEF Followed
  <1>7. QED
    BY <1>6 DEF Bits

\* The status pass: what it does to the order and to the counts.
LEMMA FlagStep ==
    ASSUME IInv, StatusFlag
    PROVE  IInv'
  <1> USE DEF IInv
  <1> DEFINE lost == Lost
             cnt  == Counted
  <1>1. pc = "flag" /\ got_caps /\ got_static_data
    BY DEF StatusFlag, Places
  <1>2. Followed \in [onbatt : BOOLEAN, commlost : BOOLEAN, fastpoll : BOOLEAN,
                     shut_remote : BOOLEAN, BattChg : Nat]
    BY FollowedType
  <1>3. lost \in BOOLEAN /\ (~ lost => filled /\ statbuf.got >= Flag)
    BY DEF Lost, TypeOK
  <1>4. cnt \in Nat /\ cnt <= LossMax + 1
        /\ cnt = (IF lost /\ Followed.onbatt THEN comm_loss + 1 ELSE 0)
    BY LimitAssumption DEF Counted, TypeOK, LossMax
  <1>5. /\ comm_loss' = Capped(cnt)
        /\ missed' = IF lost THEN Capped(missed + 1) ELSE 0
        /\ ups'.onbatt = Followed.onbatt
        /\ ups'.shut_remote = (Followed.shut_remote \/ cnt = CommLossLimit + 1)
        /\ ups' \in [onbatt : BOOLEAN, commlost : BOOLEAN, fastpoll : BOOLEAN,
                     shut_remote : BOOLEAN, BattChg : Nat]
        /\ pc' = After
        /\ UNCHANGED <<caller, filled, statbuf, since, got_caps, got_static_data, battlev,
                       comm_err, core, outside, cut>>
    BY <1>2 DEF StatusFlag, GivesUp
  <1> HIDE DEF lost, cnt
  <1>6. TypeOK'
    <2>1. comm_loss' \in 0 .. LossMax /\ missed' \in 0 .. LossMax
      BY <1>3, <1>4, <1>5, LimitAssumption DEF Capped, LossMax, TypeOK
    <2>2. pc' \in {"act1", "act2"}
      BY <1>5 DEF After
    <2>3. QED
      BY <1>5, <2>1, <2>2 DEF TypeOK, core, outside
  <1>7. Places' /\ Known'
    BY <1>1, <1>5 DEF Places, Known, After, TypeOK
  <1>8. Orders'
    <2>1. prev' = prev /\ heeded' = heeded /\ pc' \in {"act1", "act2"}
      BY <1>5 DEF core, After
    <2>2. ups.shut_remote => heeded
      BY <1>1 DEF Orders, Acting
    <2>3. comm_loss' > CommLossLimit => ups'.shut_remote \/ heeded
      BY <1>4, <1>5, <2>2, LimitAssumption DEF Orders, Capped, LossMax, TypeOK
    <2>4. QED
      BY <2>1, <2>2, <2>3 DEF Orders, Acting
  <1>9. Counts'
    BY <1>3, <1>4, <1>5, LimitAssumption DEF Counts, Capped, LossMax, TypeOK
  <1>10. QED
    BY <1>6, <1>7, <1>8, <1>9

LEMMA LoopSteps ==
    ASSUME IInv, ReadValues \/ FirstAction \/ SecondAction \/ Sleep \/ MasterChanges \/ LinkSettles
    PROVE  IInv'
  <1> USE DEF IInv
  <1>1. CASE ReadValues
    <2>1. /\ ups' \in [onbatt : BOOLEAN, commlost : BOOLEAN, fastpoll : BOOLEAN,
                       shut_remote : BOOLEAN, BattChg : Nat]
          /\ ups'.onbatt = ups.onbatt /\ ups'.shut_remote = ups.shut_remote
      BY <1>1, MasterAssumption DEF ReadValues, TypeOK, Buffers, Says
    <2>2. pc' = StatusPass(got_caps, got_static_data) /\ pc' \in {"flagcaps", "flagstatic", "flag"}
      BY <1>1 DEF ReadValues, StatusPass, Places
    <2>3. TypeOK'
      BY <1>1, <2>1, <2>2 DEF ReadValues, TypeOK, driver, core, outside, history
    <2>4. Places'
      BY <1>1, <2>2 DEF ReadValues, Places, StatusPass, driver
    <2>5. Known' /\ Orders' /\ Counts'
      BY <1>1, <2>1, <2>2 DEF ReadValues, Known, Orders, Counts, Acting, driver, core, history
    <2>6. QED
      BY <2>3, <2>4, <2>5
  <1>2. CASE FirstAction
    <2>1. /\ ups' \in [onbatt : BOOLEAN, commlost : BOOLEAN, fastpoll : BOOLEAN,
                       shut_remote : BOOLEAN, BattChg : Nat]
          /\ ups'.onbatt = ups.onbatt /\ ups'.shut_remote = ups.shut_remote
          /\ prev' \in [onbatt : BOOLEAN, shut_remote : BOOLEAN]
          /\ prev'.shut_remote = ups.shut_remote
          /\ heeded' = (heeded \/ (ups.shut_remote /\ ~ prev.shut_remote))
      BY <1>2 DEF FirstAction, do_action, TypeOK
    <2>2. TypeOK'
      BY <1>2, <2>1 DEF FirstAction, TypeOK, driver, outside, history
    <2>3. Places' /\ Known' /\ Counts'
      BY <1>2, <2>1 DEF FirstAction, Places, Known, Counts, driver, history
    <2>4. Orders'
      BY <1>2, <2>1 DEF FirstAction, Orders, driver
    <2>5. QED
      BY <2>2, <2>3, <2>4
  <1>3. CASE SecondAction
    <2>1. /\ ups' \in [onbatt : BOOLEAN, commlost : BOOLEAN, fastpoll : BOOLEAN,
                       shut_remote : BOOLEAN, BattChg : Nat]
          /\ ups'.onbatt = ups.onbatt /\ ups'.shut_remote = ups.shut_remote
          /\ prev' \in [onbatt : BOOLEAN, shut_remote : BOOLEAN]
          /\ prev'.shut_remote = ups.shut_remote
          /\ heeded' = (heeded \/ (ups.shut_remote /\ ~ prev.shut_remote))
      BY <1>3 DEF SecondAction, do_action, TypeOK
    <2>2. TypeOK'
      BY <1>3, <2>1 DEF SecondAction, TypeOK, driver, outside, history
    <2>3. Places' /\ Known' /\ Counts'
      BY <1>3, <2>1 DEF SecondAction, Places, Known, Counts, driver, history
    <2>4. Orders'
      BY <1>3, <2>1 DEF SecondAction, Orders, driver
    <2>5. QED
      BY <2>2, <2>3, <2>4
  <1>4. CASE Sleep
    <2>1. since' \in 0 .. Fresh
      BY <1>4, LimitAssumption DEF Sleep, TypeOK
    <2>2. pc' = StatusPass(got_caps, got_static_data) /\ pc' \in {"flagcaps", "flagstatic", "fill"}
          /\ caller = "check_state"
      BY <1>4 DEF Sleep, StatusPass, Places
    <2>3. TypeOK'
      BY <1>4, <2>1, <2>2 DEF Sleep, TypeOK, driver, core, outside, history
    <2>4. Places'
      BY <1>4, <2>2 DEF Sleep, Places, StatusPass, driver
    <2>5. Known' /\ Orders' /\ Counts'
      BY <1>4, <2>2 DEF Sleep, Known, Orders, Counts, Acting, driver, core, history
    <2>6. QED
      BY <2>3, <2>4, <2>5
  <1>5. CASE MasterChanges \/ LinkSettles
    BY <1>5 DEF MasterChanges, LinkSettles, TypeOK, Places, Known, Orders, Counts, Acting,
                driver, core, history
  <1>6. QED
    BY <1>1, <1>2, <1>3, <1>4, <1>5

LEMMA StepInvariant == IInv /\ [Next]_vars => IInv'
  <1> SUFFICES ASSUME IInv, [Next]_vars PROVE IInv'
    OBVIOUS
  <1>1. CASE Next
    BY <1>1, FetchSteps, FillSteps, FlagStep, LoopSteps DEF Next, Device
  <1>2. CASE UNCHANGED vars
    BY <1>2 DEF vars, driver, core, outside, history, IInv, TypeOK, Places, Known, Orders,
                Counts, Acting
  <1>3. QED
    BY <1>1, <1>2

\* The invariant holds in every reachable state.
THEOREM Invariance == Spec => []IInv
  BY InitInvariant, StepInvariant, PTL DEF Spec

\* Every variable keeps its type, and no pass that failed to fetch the report
\* finds a complete one in the buffer.
THEOREM TypeCorrect == Spec => []TypeOK
  <1>1. IInv => TypeOK
    BY DEF IInv
  <1>2. QED
    BY <1>1, Invariance, PTL

\* Capabilities are missing only when a report ended early.
THEOREM CapabilitiesComplete == Spec => []CapsComplete
  <1>1. Init => CapsComplete
    BY DEF Init, CapsComplete
  <1>2. IInv /\ CapsComplete /\ [Next]_vars => CapsComplete'
    <2> SUFFICES ASSUME IInv, CapsComplete, [Next]_vars PROVE CapsComplete'
      OBVIOUS
    <2>1. ASSUME NEW goon, get_capabilities(goon) PROVE CapsComplete'
      <3>1. PICK o \in Outcomes : /\ poll_ups(o[1], o[2])
                                  /\ got_caps' = o[1]
                                  /\ battlev' = IF o[1] THEN o[2] >= Values ELSE battlev
        BY <2>1 DEF get_capabilities
      <3>2. o[1] \in BOOLEAN /\ o[2] \in Nothing .. All
        BY OutcomeType
      <3>3. CASE o[1]
        <4>1. CASE o[2] >= Values
          BY <3>1, <3>3, <4>1 DEF CapsComplete
        <4>2. CASE ~ (o[2] >= Values)
          <5>1. o[2] < All
            BY <3>2, <4>2 DEF Nothing, Values, All
          <5>2. cut'
            BY <3>1, <3>3, <5>1 DEF poll_ups
          <5>3. QED
            BY <5>2 DEF CapsComplete
        <4>3. QED
          BY <4>1, <4>2
      <3>4. CASE ~ o[1]
        BY <3>1, <3>4 DEF CapsComplete
      <3>5. QED
        BY <3>3, <3>4
    <2>2. ASSUME UNCHANGED <<got_caps, battlev>>, cut => cut' PROVE CapsComplete'
      BY <2>2 DEF CapsComplete
    <2>3. CASE StartCaps \/ FillCaps \/ FlagCaps
      BY <2>1, <2>3 DEF StartCaps, FillCaps, FlagCaps
    <2>4. CASE StartStatic \/ FillStatic \/ FlagStatic
      BY <2>2, <2>4 DEF StartStatic, FillStatic, FlagStatic, read_static_data, poll_ups
    <2>5. CASE FillFresh \/ FillFails \/ FillSucceeds
      BY <2>2, <2>5 DEF FillFresh, FillFails, FillSucceeds, poll_ups, driver, history
    <2>6. CASE ReadValues \/ StatusFlag \/ FirstAction \/ SecondAction \/ Sleep
               \/ MasterChanges \/ LinkSettles \/ UNCHANGED vars
      BY <2>2, <2>6 DEF ReadValues, StatusFlag, FirstAction, SecondAction, Sleep,
                        MasterChanges, LinkSettles, vars, driver, history
    <2>7. QED
      BY <2>3, <2>4, <2>5, <2>6 DEF Next, Device
  <1>3. QED
    BY <1>1, <1>2, Invariance, PTL DEF Spec

\* Only the status pass touches the order to shut down.
LEMMA OthersKeepOrder ==
    ASSUME IInv, [Next]_vars, ~ StatusFlag
    PROVE  ups'.shut_remote = ups.shut_remote
  <1> USE DEF IInv, TypeOK
  <1>1. ASSUME NEW goon, get_capabilities(goon) \/ read_static_data(goon)
        PROVE  ups'.shut_remote = ups.shut_remote
    BY <1>1 DEF get_capabilities, read_static_data, poll_ups
  <1>2. CASE StartCaps \/ FillCaps \/ FlagCaps \/ StartStatic \/ FillStatic \/ FlagStatic
    BY <1>1, <1>2 DEF StartCaps, FillCaps, FlagCaps, StartStatic, FillStatic, FlagStatic
  <1>3. CASE FillFresh \/ FillFails \/ FillSucceeds \/ ReadValues
    BY <1>3 DEF FillFresh, FillFails, FillSucceeds, ReadValues, poll_ups
  <1>4. CASE FirstAction \/ SecondAction
    BY <1>4 DEF FirstAction, SecondAction, do_action
  <1>5. CASE Sleep \/ MasterChanges \/ LinkSettles \/ UNCHANGED vars
    BY <1>5 DEF Sleep, MasterChanges, LinkSettles, vars
  <1>6. QED
    BY <1>2, <1>3, <1>4, <1>5 DEF Next, Device

\* The driver orders the shutdown for cause only, for any number of passes it waits.
THEOREM OrderedForCause == Spec => RemoteOnlyForCause
  <1>1. ASSUME IInv, [Next]_vars, ups'.shut_remote, ~ ups.shut_remote
        PROVE  \/ statbuf.got >= Flag /\ (statbuf.said.shutdown \/ statbuf.said.shut_remote)
               \/ ups'.onbatt /\ missed' > CommLossLimit
    <2>1. StatusFlag
      BY <1>1, OthersKeepOrder
    <2>2. Followed \in [onbatt : BOOLEAN, commlost : BOOLEAN, fastpoll : BOOLEAN,
                       shut_remote : BOOLEAN, BattChg : Nat]
      BY <1>1, FollowedType DEF IInv
    <2>3. CASE GivesUp
      <3>1. Lost /\ Followed.onbatt /\ comm_loss = CommLossLimit
        BY <1>1, <2>3, LimitAssumption DEF GivesUp, Counted, IInv, TypeOK, LossMax
      <3>2. ups'.onbatt
        BY <2>1, <2>2, <2>3, <3>1 DEF StatusFlag
      <3>3. missed' = Capped(missed + 1) /\ missed >= CommLossLimit
        BY <1>1, <2>1, <3>1, LimitAssumption DEF StatusFlag, IInv, Counts, TypeOK, LossMax
      <3>4. missed' > CommLossLimit
        BY <1>1, <3>3, LimitAssumption DEF Capped, LossMax, IInv, TypeOK
      <3>5. QED
        BY <3>2, <3>4
    <2>4. CASE ~ GivesUp
      <3>1. ups' = Followed
        BY <2>1, <2>4 DEF StatusFlag
      <3>2. statbuf.got >= Flag
        BY <1>1, <3>1 DEF Followed, IInv, TypeOK, Buffers, Nothing, Flag, All
      <3>3. statbuf.said.shutdown \/ statbuf.said.shut_remote
        BY <1>1, <3>1, <3>2, MasterAssumption
        DEF Followed, IInv, TypeOK, Buffers, Says, Nothing, Flag, All
      <3>4. QED
        BY <3>2, <3>3
    <2>5. QED
      BY <2>3, <2>4
  <1>2. IInv /\ [Next]_vars => [ups'.shut_remote /\ ~ ups.shut_remote
            => \/ statbuf.got >= Flag /\ (statbuf.said.shutdown \/ statbuf.said.shut_remote)
               \/ ups'.onbatt /\ missed' > CommLossLimit]_vars
    BY <1>1
  <1>3. QED
    BY <1>2, Invariance, PTL DEF Spec, RemoteOnlyForCause

\* An order that is taken back has been seen by do_action().
THEOREM OrderSeen == Spec => HeededBeforeCleared
  <1>1. IInv /\ [Next]_vars => [ups.shut_remote /\ ~ ups'.shut_remote => heeded]_vars
    <2> SUFFICES ASSUME IInv, [Next]_vars, ups.shut_remote, ~ ups'.shut_remote PROVE heeded
      OBVIOUS
    <2>1. StatusFlag
      BY OthersKeepOrder
    <2>2. QED
      BY <2>1 DEF StatusFlag, IInv, Orders, Acting
  <1>2. QED
    BY <1>1, Invariance, PTL DEF Spec, HeededBeforeCleared

\* Both of it, for any set of masters and any loss limit.
THEOREM RemoteJust == Spec => RemoteJustified
BY OrderedForCause, OrderSeen DEF RemoteJustified
=============================================================================
