---------------------------- MODULE OrderProofs -----------------------------
(***************************************************************************)
(* Proofs about the master mode (SystemState), the routing of orders       *)
(* (OrderRouting) and the paper fills behind them (TradePath), for any     *)
(* instruments, sides, lots and boot modes and any number of tickets and   *)
(* mode changes.                                                           *)
(***************************************************************************)
EXTENDS TradePath, SumLemmas, SequenceTheorems

-----------------------------------------------------------------------------
(* The master mode. *)

(***************************************************************************)
(* Every action either leaves everything alone or appends one record with  *)
(* MoveTo; the lemmas below reason about that one step.                    *)
(***************************************************************************)

\* What appending one transition does to the trail: its length grows by one,
\* old records stay, and the new one goes from the old mode to the new.
LEMMA MoveToExtends ==
    ASSUME NEW new \in Modes, SSTypeOK, MoveTo(new)
    PROVE  /\ Len(history') = Len(history) + 1
           /\ \A i \in 1 .. Len(history) : history'[i] = history[i]
           /\ history'[Len(history')] = Transition(mode, new)
           /\ history' \in Seq([from : Modes, to : Modes])
           /\ Len(history') \in 1 .. MaxHistory
           /\ mode' = new
<1>1. Transition(mode, new) \in [from : Modes, to : Modes]
  BY DEF SSTypeOK, Transition
<1>2. history' = Append(history, Transition(mode, new))
  BY DEF MoveTo
<1>3. QED
  BY <1>1, <1>2, MaxHistoryAssumption DEF SSTypeOK, MoveTo

\* Every target of a step is a mode, and every step is a MoveTo.
LEMMA NextMoves ==
    ASSUME SSTypeOK, SSNext
    PROVE  \E new \in Modes :
             /\ MoveTo(new)
             /\ \/ new = "EMERGENCY_STOP" /\ emergency' = TRUE
                \/ new = "DISABLED" /\ emergency /\ emergency' = FALSE
                \/ /\ emergency => new = "DISABLED"
                   /\ new # "EMERGENCY_STOP"
                   /\ new \in Allowed[mode]
                   /\ emergency' = emergency
<1>1. CASE EngageEmergencyStop
  BY <1>1 DEF EngageEmergencyStop, Modes
<1>2. CASE ResetEmergencyStop
  BY <1>2 DEF ResetEmergencyStop, Modes
<1>3. ASSUME NEW new \in Modes, TransitionTo(new)
      PROVE  \E m \in Modes :
             /\ MoveTo(m)
             /\ \/ m = "EMERGENCY_STOP" /\ emergency' = TRUE
                \/ m = "DISABLED" /\ emergency /\ emergency' = FALSE
                \/ /\ emergency => m = "DISABLED"
                   /\ m # "EMERGENCY_STOP"
                   /\ m \in Allowed[mode]
                   /\ emergency' = emergency
  <2>1. CASE new = "EMERGENCY_STOP"
    BY <1>3, <2>1 DEF TransitionTo, EngageEmergencyStop
  <2>2. CASE new # "EMERGENCY_STOP"
    BY <1>3, <2>2 DEF TransitionTo
  <2>3. QED
    BY <2>1, <2>2
<1>4. QED
  BY <1>1, <1>2, <1>3 DEF SSNext
-----------------------------------------------------------------------------
\* The mode, the flag and the audit trail keep their types (every method of
\* core/system_state.py).
THEOREM Typing == SSSpec => []SSTypeOK
<1>1. SSInit => SSTypeOK
  <2> SUFFICES ASSUME SSInit
               PROVE  SSTypeOK
    OBVIOUS
  <2>1. mode \in Modes /\ emergency \in BOOLEAN
    BY BootAssumption DEF SSInit
  <2>2. Transition(mode, mode) \in [from : Modes, to : Modes]
    BY <2>1 DEF Transition
  <2>3. history = <<Transition(mode, mode)>>
    BY DEF SSInit
  <2>4. history \in Seq([from : Modes, to : Modes]) /\ Len(history) = 1
    BY <2>2, <2>3
  <2>5. QED
    BY <2>1, <2>4, MaxHistoryAssumption DEF SSTypeOK
<1>2. SSTypeOK /\ [SSNext]_ssvars => SSTypeOK'
  <2> SUFFICES ASSUME SSTypeOK, [SSNext]_ssvars
               PROVE  SSTypeOK'
    OBVIOUS
  <2>1. CASE SSNext
    <3>1. PICK new \in Modes :
             /\ MoveTo(new)
             /\ \/ new = "EMERGENCY_STOP" /\ emergency' = TRUE
                \/ new = "DISABLED" /\ emergency /\ emergency' = FALSE
                \/ /\ emergency => new = "DISABLED"
                   /\ new # "EMERGENCY_STOP"
                   /\ new \in Allowed[mode]
                   /\ emergency' = emergency
      BY <2>1, NextMoves
    <3>2. emergency' \in BOOLEAN
      BY <3>1 DEF SSTypeOK
    <3>3. QED
      BY <3>1, <3>2, MoveToExtends DEF SSTypeOK
  <2>2. CASE UNCHANGED ssvars
    BY <2>2 DEF ssvars, SSTypeOK
  <2>3. QED
    BY <2>1, <2>2
<1>3. QED
  BY <1>1, <1>2, PTL DEF SSSpec

\* The audit trail is a complete chain from the boot mode to the current mode.
THEOREM AuditTrail == SSSpec => []AuditTrailFaithful
<1>1. SSInit => AuditTrailFaithful
  BY DEF SSInit, AuditTrailFaithful, Transition
<1>2. SSTypeOK /\ AuditTrailFaithful /\ [SSNext]_ssvars => AuditTrailFaithful'
  <2> SUFFICES ASSUME SSTypeOK, AuditTrailFaithful, [SSNext]_ssvars
               PROVE  AuditTrailFaithful'
    OBVIOUS
  <2>1. CASE SSNext
    <3>1. PICK new \in Modes : MoveTo(new)
      BY <2>1, NextMoves
    <3> DEFINE n == Len(history)
    <3>n. n \in Nat \ {0}
      BY MaxHistoryAssumption DEF SSTypeOK
    <3>2. /\ Len(history') = n + 1
          /\ \A i \in 1 .. n : history'[i] = history[i]
          /\ history'[n + 1] = Transition(mode, new)
          /\ mode' = new
      BY <3>1, MoveToExtends
    <3> HIDE DEF n
    <3>3. history'[1].from = history'[1].to
      BY <3>n, <3>2 DEF AuditTrailFaithful
    <3>4. ASSUME NEW i \in 1 .. n
          PROVE  history'[i + 1].from = history'[i].to
      <4>1. CASE i = n
        BY <3>n, <3>2, <4>1 DEF AuditTrailFaithful, Transition, n
      <4>2. CASE i # n
        BY <3>n, <3>2, <4>2 DEF AuditTrailFaithful, n
      <4>3. QED
        BY <4>1, <4>2
    <3>5. history'[n + 1].to = mode'
      BY <3>2 DEF Transition
    <3>6. QED
      BY <3>n, <3>2, <3>3, <3>4, <3>5 DEF AuditTrailFaithful
  <2>2. CASE UNCHANGED ssvars
    BY <2>2 DEF ssvars, AuditTrailFaithful
  <2>3. QED
    BY <2>1, <2>2
<1>3. QED
  BY <1>1, <1>2, Typing, PTL DEF SSSpec

\* While the flag of the kill switch is set, the mode is EMERGENCY_STOP or
\* DISABLED.
THEOREM StopConfines == SSSpec => []StopConfinesMode
<1>1. SSInit => StopConfinesMode
  BY DEF SSInit, StopConfinesMode
<1>2. SSTypeOK /\ StopConfinesMode /\ [SSNext]_ssvars => StopConfinesMode'
  <2> SUFFICES ASSUME SSTypeOK, StopConfinesMode, [SSNext]_ssvars
               PROVE  StopConfinesMode'
    OBVIOUS
  <2>1. CASE SSNext
    BY <2>1, NextMoves DEF StopConfinesMode, MoveTo
  <2>2. CASE UNCHANGED ssvars
    BY <2>2 DEF ssvars, StopConfinesMode
  <2>3. QED
    BY <2>1, <2>2
<1>3. QED
  BY <1>1, <1>2, Typing, PTL DEF SSSpec

\* The fact of one step the ladder rests on: SHADOW is entered from PAPER or
\* LIVE only, and LIVE from SHADOW only.
LEMMA EntryToUpperModes ==
    ASSUME SSTypeOK, SSNext
    PROVE  /\ mode' = "SHADOW" => mode \in {"PAPER", "LIVE"}
           /\ mode' = "LIVE" => mode = "SHADOW"
<1>1. PICK new \in Modes :
         /\ MoveTo(new)
         /\ \/ new = "EMERGENCY_STOP"
            \/ new = "DISABLED"
            \/ new \in Allowed[mode]
  BY NextMoves
<1>2. mode' = new
  BY <1>1 DEF MoveTo
<1>3. new \in {"SHADOW", "LIVE"} => new \in Allowed[mode]
  BY <1>1
<1>4. mode \in Modes
  BY DEF SSTypeOK
<1>5. QED
  BY <1>2, <1>3, <1>4 DEF Allowed, Modes

\* No promotion stage is skipped on any path of transitions, stops and resets.
THEOREM PromotionLadder == SSSpec => []LadderClimbed
<1>1. SSInit => LadderClimbed
  BY DEF SSInit, LadderClimbed
<1>2. /\ SSTypeOK /\ AuditTrailFaithful /\ LadderClimbed /\ [SSNext]_ssvars
      => LadderClimbed'
  <2> SUFFICES ASSUME SSTypeOK, AuditTrailFaithful, LadderClimbed, [SSNext]_ssvars
               PROVE  LadderClimbed'
    OBVIOUS
  <2>1. CASE SSNext
    <3>1. PICK new \in Modes : MoveTo(new)
      BY <2>1, NextMoves
    <3> DEFINE n == Len(history)
    <3>2. n \in Nat \ {0}
      BY MaxHistoryAssumption DEF SSTypeOK
    <3>3. /\ Len(history') = n + 1
          /\ \A i \in 1 .. n : history'[i] = history[i]
          /\ history'[n + 1] = Transition(mode, new)
          /\ mode' = new
      BY <3>1, MoveToExtends
    <3>4. history[n].to = mode
      BY DEF AuditTrailFaithful
    <3>5. /\ new = "SHADOW" => mode \in {"PAPER", "LIVE"}
          /\ new = "LIVE" => mode = "SHADOW"
      BY <2>1, <3>3, EntryToUpperModes
    <3>6. \A i, j \in 1 .. n :
            (i < j /\ history[i].to \in BelowPaper) =>
              /\ history[j].to \in {"SHADOW", "LIVE"} =>
                   \E k \in i + 1 .. j - 1 : history[k].to = "PAPER"
              /\ history[j].to = "LIVE" =>
                   \E k, l \in i + 1 .. j - 1 :
                       /\ k < l
                       /\ history[k].to = "PAPER"
                       /\ history[l].to = "SHADOW"
      BY DEF LadderClimbed
    <3>7. /\ history'[n + 1].to = new
          /\ "PAPER" \notin BelowPaper
          /\ "SHADOW" \notin BelowPaper
          /\ "LIVE" \notin BelowPaper
      BY <3>3 DEF Transition, BelowPaper
    <3> HIDE DEF n
    <3>8. ASSUME NEW i \in 1 .. n + 1, NEW j \in 1 .. n + 1,
                 i < j, history'[i].to \in BelowPaper
          PROVE  /\ history'[j].to \in {"SHADOW", "LIVE"} =>
                      \E k \in i + 1 .. j - 1 : history'[k].to = "PAPER"
                 /\ history'[j].to = "LIVE" =>
                      \E k, l \in i + 1 .. j - 1 :
                          /\ k < l
                          /\ history'[k].to = "PAPER"
                          /\ history'[l].to = "SHADOW"
      <4>1. i \in 1 .. n /\ history'[i] = history[i]
        BY <3>2, <3>3, <3>8
      <4>2. CASE j \in 1 .. n
        <5>1. \A k \in i + 1 .. j - 1 : history'[k] = history[k]
          BY <3>2, <3>3, <4>1, <4>2
        <5>2. history'[j] = history[j]
          BY <3>3, <4>2
        <5>3. QED
          BY <3>6, <3>8, <4>1, <4>2, <5>1, <5>2
      <4>3. CASE j = n + 1
        <5>1. history'[j].to = new
          BY <3>7, <4>3
        <5>2. history'[n] = history[n] /\ n \in 1 .. n
          BY <3>2, <3>3
        <5>3. new \in {"SHADOW", "LIVE"} => i < n
          BY <3>2, <3>4, <3>5, <3>7, <3>8, <4>1
        <5>4. \A k \in i + 1 .. n : history'[k] = history[k]
          BY <3>2, <3>3, <4>1
        <5>5. CASE new = "SHADOW" /\ mode = "PAPER"
          <6>1. n \in i + 1 .. j - 1
            BY <3>2, <4>1, <4>3, <5>3, <5>5
          <6>2. QED
            BY <3>4, <5>1, <5>2, <5>5, <6>1
        <5>6. CASE new = "SHADOW" /\ mode = "LIVE"
          <6>1. PICK k \in i + 1 .. n - 1 : history[k].to = "PAPER"
            BY <3>4, <3>6, <3>8, <4>1, <5>2, <5>3, <5>6
          <6>2. k \in i + 1 .. j - 1 /\ k \in i + 1 .. n
            BY <3>2, <4>1, <4>3, <6>1
          <6>3. QED
            BY <5>1, <5>4, <5>6, <6>1, <6>2
        <5>7. CASE new = "LIVE" /\ mode = "SHADOW"
          <6>1. PICK k \in i + 1 .. n - 1 : history[k].to = "PAPER"
            BY <3>4, <3>6, <3>8, <4>1, <5>2, <5>3, <5>7
          <6>2. /\ k \in i + 1 .. j - 1
                /\ k \in i + 1 .. n
                /\ n \in i + 1 .. j - 1
                /\ k < n
            BY <3>2, <4>1, <4>3, <6>1
          <6>3. history'[k].to = "PAPER" /\ history'[n].to = "SHADOW"
            BY <3>4, <5>2, <5>4, <5>7, <6>1, <6>2
          <6>4. QED
            BY <6>2, <6>3
        <5>8. CASE new \notin {"SHADOW", "LIVE"}
          BY <5>1, <5>8
        <5>9. QED
          BY <3>5, <5>5, <5>6, <5>7, <5>8
      <4>4. QED
        BY <3>2, <4>2, <4>3
    <3>9. QED
      BY <3>3, <3>8 DEF LadderClimbed
  <2>2. CASE UNCHANGED ssvars
    BY <2>2 DEF ssvars, LadderClimbed
  <2>3. QED
    BY <2>1, <2>2
<1>3. QED
  BY <1>1, <1>2, Typing, AuditTrail, PTL DEF SSSpec
-----------------------------------------------------------------------------
\* The mode machine implements the abstract kill switch: every method call is
\* a Trip, a Rearm, an Operate or a stutter of KillSwitch.
THEOREM KillSwitchRefinement == SSSpec => ImplementsKillSwitch
<1>1. SSInit => KS!KSInit
  BY DEF SSInit, KS!KSInit, IsTradingAllowed
<1>2. SSTypeOK /\ [SSNext]_ssvars => [KS!KSNext]_KS!ksvars
  <2> SUFFICES ASSUME SSTypeOK, [SSNext]_ssvars
               PROVE  [KS!KSNext]_KS!ksvars
    OBVIOUS
  <2>1. CASE SSNext
    <3>1. PICK new \in Modes :
             /\ MoveTo(new)
             /\ \/ new = "EMERGENCY_STOP" /\ emergency' = TRUE
                \/ new = "DISABLED" /\ emergency /\ emergency' = FALSE
                \/ /\ emergency => new = "DISABLED"
                   /\ emergency' = emergency
      BY <2>1, NextMoves
    <3>2. mode' = new
      BY <3>1 DEF MoveTo
    <3>3. CASE emergency' = TRUE
      BY <3>3 DEF KS!KSNext, KS!Trip, IsTradingAllowed
    <3>4. CASE new = "DISABLED" /\ emergency /\ emergency' = FALSE
      BY <3>2, <3>4 DEF KS!KSNext, KS!Rearm, IsTradingAllowed, TradingModes
    <3>5. CASE ~emergency /\ emergency' = FALSE
      BY <3>5 DEF KS!KSNext, KS!Operate, IsTradingAllowed
    <3>6. emergency' \in BOOLEAN /\ emergency \in BOOLEAN
      BY <3>1 DEF SSTypeOK
    <3>7. QED
      BY <3>1, <3>3, <3>4, <3>5, <3>6
  <2>2. CASE UNCHANGED ssvars
    BY <2>2 DEF ssvars, KS!ksvars, IsTradingAllowed
  <2>3. QED
    BY <2>1, <2>2
<1>3. QED
  BY <1>1, <1>2, Typing, PTL DEF SSSpec, ImplementsKillSwitch, KS!KSSpec

-----------------------------------------------------------------------------
(* The routing of orders. *)

Calls ==
    [symbol : Symbols, side : Sides, mode : Modes, stage : Stages, since : Nat]

Tickets ==
    [symbol : Symbols, side : Sides, mode : Modes,
     status : {"PENDING", "SUBMITTED", "FILLED", "REJECTED"}]

\* The modes since a record of the audit trail.
During(since) == {history[k].to : k \in since .. Len(history)}

\* The call under way holds a mode the system was in during the call, and once
\* it has a ticket that ticket is the newest one, its own and still pending.
CallInv ==
    call # None =>
        /\ call \in Calls
        /\ call.since \in 1 .. Len(history)
        /\ call.mode \in During(call.since)
        /\ call.stage = "filling" => call.mode = "PAPER"
        /\ call.stage # "mode read" =>
              /\ tickets # <<>>
              /\ tickets[Len(tickets)].status = "PENDING"
              /\ tickets[Len(tickets)].symbol = call.symbol
              /\ tickets[Len(tickets)].side = call.side

RouteInv ==
    /\ SSTypeOK
    /\ history[Len(history)].to = mode
    /\ tickets \in Seq(Tickets)
    /\ CallInv
    /\ NoDuplicateOpen
    /\ VenueMatchesMode
-----------------------------------------------------------------------------
\* What is executed for a call in the venue of the mode it holds is executed in
\* a mode of the call.
LEMMA ExecutionFits ==
    ASSUME RouteInv, call # None, NEW venue,
           venue = "paper" => call.mode = "PAPER",
           venue = "shadow log" => call.mode = "SHADOW",
           venue = "broker" => call.mode = "LIVE",
           executions' = executions \cup {Execution(venue)}
    PROVE  VenueMatchesMode'
<1>1. Execution(venue).venue = venue /\ Execution(venue).modes = During(call.since)
  BY DEF Execution, During
<1>2. call.mode \in During(call.since)
  BY DEF RouteInv, CallInv
<1> QED BY <1>1, <1>2 DEF RouteInv, VenueMatchesMode

\* The last position of a sequence that is not empty is one of its positions.
LEMMA LastIsInRange ==
    ASSUME NEW n \in Nat \ {0}
    PROVE  n \in 1 .. n
OBVIOUS

LEMMA RangeEnds ==
    ASSUME NEW a \in Nat, NEW b \in Nat, 1 .. a = 1 .. b
    PROVE  a = b
<1>1. CASE a < b
  <2>1. b \in 1 .. b /\ b \notin 1 .. a
    BY <1>1
  <2> QED BY <2>1
<1>2. CASE b < a
  <2>1. a \in 1 .. a /\ a \notin 1 .. b
    BY <1>2
  <2> QED BY <2>1
<1> QED BY <1>1, <1>2

\* Closing the newest ticket, which was open, opens no second one.
LEMMA CloseKeeps ==
    ASSUME RouteInv, call # None, call.stage # "mode read",
           NEW status \in {"SUBMITTED", "FILLED", "REJECTED"},
           Close(status), VenueMatchesMode'
    PROVE  RouteInv'
<1>1. /\ tickets \in Seq(Tickets) /\ tickets # <<>>
      /\ tickets[Len(tickets)].status = "PENDING"
  BY DEF RouteInv, CallInv
<1> DEFINE n == Len(tickets)
           t == [tickets[n] EXCEPT !.status = status]
<1>2. n \in Nat \ {0}
  BY <1>1, EmptySeq
<1>3. n \in 1 .. Len(tickets)
  <2> HIDE DEF n, t
  <2>1. n \in 1 .. n
    BY <1>2, LastIsInRange
  <2> QED BY <2>1 DEF n
<1>4. tickets[n] \in Tickets /\ tickets[n].status = "PENDING"
  <2> HIDE DEF t
  <2>1. tickets \in [1 .. Len(tickets) -> Tickets]
    BY <1>1, LenProperties
  <2> QED BY <1>1, <1>3, <2>1
<1>5. t \in Tickets /\ t.symbol = tickets[n].symbol /\ t.side = tickets[n].side
  BY <1>4 DEF Tickets
<1>6. tickets' = [tickets EXCEPT ![n] = t] /\ call' = None /\ UNCHANGED ssvars
  BY DEF Close
<1>7. Len(tickets) = n
  OBVIOUS
<1> HIDE DEF t, n
<1>8. /\ tickets' \in Seq(Tickets) /\ Len(tickets') = Len(tickets)
      /\ \A i \in 1 .. Len(tickets) : tickets'[i] = IF i = n THEN t ELSE tickets[i]
  <2>1. /\ [tickets EXCEPT ![n] = t] \in Seq(Tickets)
        /\ Len([tickets EXCEPT ![n] = t]) = Len(tickets)
        /\ \A i \in 1 .. Len(tickets) :
              [tickets EXCEPT ![n] = t][i] = IF i = n THEN t ELSE tickets[i]
    <3> DEFINE T == Tickets
    <3>1. tickets \in Seq(T) /\ n \in 1 .. Len(tickets) /\ t \in T
      BY <1>1, <1>3, <1>5
    <3> HIDE DEF T
    <3>2. [tickets EXCEPT ![n] = t] \in Seq(T)
      BY <3>1, ExceptSeq, Zenon
    <3>3. tickets \in [1 .. Len(tickets) -> T]
      BY <3>1, LenProperties
    <3>4. Len([tickets EXCEPT ![n] = t]) = Len(tickets)
      <4> DEFINE f == [tickets EXCEPT ![n] = t]
      <4>1. f \in Seq(T) /\ DOMAIN f = 1 .. Len(tickets)
        BY <3>2, <3>3
      <4> HIDE DEF f
      <4>2. Len(f) \in Nat /\ DOMAIN f = 1 .. Len(f) /\ Len(tickets) \in Nat
        BY <3>1, <4>1, LenProperties
      <4>3. Len(f) = Len(tickets)
        BY <4>1, <4>2, RangeEnds
      <4> QED BY <4>3 DEF f
    <3>5. \A i \in 1 .. Len(tickets) :
              [tickets EXCEPT ![n] = t][i] = IF i = n THEN t ELSE tickets[i]
      BY <3>1, <3>3
    <3> QED BY <3>2, <3>4, <3>5 DEF T
  <2> QED BY <1>6, <2>1
<1>9. NoDuplicateOpen'
  <2> SUFFICES ASSUME NEW i \in 1 .. Len(tickets), NEW j \in 1 .. Len(tickets), i # j,
                      tickets'[i].symbol = tickets'[j].symbol,
                      tickets'[i].side = tickets'[j].side
               PROVE  {tickets'[i].status, tickets'[j].status}
                          \cap {"FILLED", "REJECTED"} # {}
    BY <1>8 DEF NoDuplicateOpen
  <2>1. tickets[i].symbol = tickets[j].symbol /\ tickets[i].side = tickets[j].side
    BY <1>5, <1>8
  <2>2. {tickets[i].status, tickets[j].status} \cap {"FILLED", "REJECTED"} # {}
    BY <2>1 DEF RouteInv, NoDuplicateOpen
  <2>3. CASE i = n
    <3>1. tickets[j].status \in {"FILLED", "REJECTED"}
      BY <1>4, <2>2, <2>3
    <3> QED BY <1>8, <2>3, <3>1
  <2>4. CASE j = n
    <3>1. tickets[i].status \in {"FILLED", "REJECTED"}
      BY <1>4, <2>2, <2>4
    <3> QED BY <1>8, <2>4, <3>1
  <2>5. CASE i # n /\ j # n
    BY <1>8, <2>2, <2>5
  <2> QED BY <2>3, <2>4, <2>5
<1>10. SSTypeOK' /\ history'[Len(history')].to = mode'
  BY <1>6 DEF RouteInv, SSTypeOK, ssvars
<1>11. CallInv'
  BY <1>6 DEF CallInv
<1> QED BY <1>8, <1>9, <1>10, <1>11 DEF RouteInv

\* A step that leaves tickets, executions and the system state alone.
LEMMA CallMoves ==
    ASSUME RouteInv, UNCHANGED <<ssvars, tickets, executions>>, CallInv'
    PROVE  RouteInv'
<1>1. SSTypeOK' /\ history'[Len(history')].to = mode'
  BY DEF RouteInv, SSTypeOK, ssvars
<1>2. tickets' \in Seq(Tickets)
  BY DEF RouteInv
<1>3. NoDuplicateOpen'
  BY DEF RouteInv, NoDuplicateOpen
<1>4. VenueMatchesMode'
  BY DEF RouteInv, VenueMatchesMode
<1> QED BY <1>1, <1>2, <1>3, <1>4 DEF RouteInv

LEMMA ReadModeKeeps ==
    ASSUME RouteInv, NEW symbol \in Symbols, NEW side \in Sides, ReadMode(symbol, side)
    PROVE  RouteInv'
<1> DEFINE c == [symbol |-> symbol, side |-> side, mode |-> mode,
                 stage |-> "mode read", since |-> Len(history)]
<1>1. Len(history) \in 1 .. Len(history) /\ Len(history) \in Nat /\ mode \in Modes
  BY DEF RouteInv, SSTypeOK
<1>2. c \in Calls /\ c.since = Len(history) /\ c.mode = mode /\ c.stage = "mode read"
  BY <1>1 DEF Calls, Stages
<1>3. call' = c /\ UNCHANGED <<ssvars, tickets, executions>>
  BY DEF ReadMode
<1> HIDE DEF c
<1>4. mode \in During(Len(history))
  BY <1>1 DEF RouteInv, During
<1>5. CallInv'
  BY <1>1, <1>2, <1>3, <1>4 DEF CallInv, During, ssvars
<1> QED BY <1>3, <1>5, CallMoves

LEMMA OpenTicketKeeps ==
    ASSUME RouteInv, OpenTicket
    PROVE  RouteInv'
<1>1. call # None /\ call \in Calls /\ call.stage = "mode read"
      /\ UNCHANGED <<ssvars, executions>>
  BY DEF RouteInv, CallInv, OpenTicket, At
<1>2. CASE call' = None /\ UNCHANGED tickets
  BY <1>1, <1>2, CallMoves DEF CallInv
<1>3. CASE ~(call' = None /\ UNCHANGED tickets)
  <2> DEFINE t == Ticket(call.symbol, call.side, call.mode)
             c == [call EXCEPT !.stage = IF call.mode = "PAPER"
                                         THEN "filling" ELSE "submitting"]
  <2>1. /\ ~HasDuplicate(call.symbol, call.side)
        /\ tickets' = Append(tickets, t)
        /\ call' = c
    BY <1>3 DEF OpenTicket
  <2>2. /\ t \in Tickets /\ t.status = "PENDING"
        /\ t.symbol = call.symbol /\ t.side = call.side
    BY <1>1 DEF Calls, Tickets, Ticket
  <2>3. /\ c \in Calls /\ c.since = call.since /\ c.mode = call.mode
        /\ c.symbol = call.symbol /\ c.side = call.side
        /\ c.stage = "filling" => call.mode = "PAPER"
    BY <1>1 DEF Calls, Stages
  <2> HIDE DEF t, c
  <2>4. tickets \in Seq(Tickets)
    BY DEF RouteInv
  <2>5. /\ tickets' \in Seq(Tickets) /\ Len(tickets') = Len(tickets) + 1
        /\ tickets'[Len(tickets')] = t /\ tickets' # <<>>
        /\ \A i \in 1 .. Len(tickets') :
              tickets'[i] = IF i = Len(tickets') THEN t ELSE tickets[i]
        /\ \A i \in 1 .. Len(tickets') : i # Len(tickets') => i \in 1 .. Len(tickets)
    BY <2>1, <2>2, <2>4
  <2>6. CallInv'
    BY <1>1, <2>1, <2>2, <2>3, <2>5 DEF RouteInv, CallInv, During, ssvars
  <2>7. \A i \in 1 .. Len(tickets) :
           tickets[i].symbol = t.symbol /\ tickets[i].side = t.side =>
              tickets[i].status \in {"FILLED", "REJECTED"}
    <3> SUFFICES ASSUME NEW i \in 1 .. Len(tickets),
                        tickets[i].symbol = t.symbol, tickets[i].side = t.side
                 PROVE  tickets[i].status \in {"FILLED", "REJECTED"}
      OBVIOUS
    <3>1. tickets[i].status \notin OpenStatuses
      BY <2>1, <2>2 DEF HasDuplicate
    <3>2. tickets[i] \in Tickets
      BY <2>4
    <3> QED BY <3>1, <3>2 DEF OpenStatuses, Tickets
  <2>8. NoDuplicateOpen'
    <3> SUFFICES ASSUME NEW i \in 1 .. Len(tickets'), NEW j \in 1 .. Len(tickets'),
                        i # j,
                        tickets'[i].symbol = tickets'[j].symbol,
                        tickets'[i].side = tickets'[j].side
                 PROVE  {tickets'[i].status, tickets'[j].status}
                            \cap {"FILLED", "REJECTED"} # {}
      BY DEF NoDuplicateOpen
    <3>1. CASE i = Len(tickets')
      BY <2>5, <2>7, <3>1
    <3>2. CASE j = Len(tickets')
      BY <2>5, <2>7, <3>2
    <3>3. CASE i # Len(tickets') /\ j # Len(tickets')
      BY <2>5, <3>3 DEF RouteInv, NoDuplicateOpen
    <3> QED BY <3>1, <3>2, <3>3
  <2> QED BY <1>1, <2>5, <2>6, <2>8 DEF RouteInv, SSTypeOK, ssvars, VenueMatchesMode
<1> QED BY <1>2, <1>3

LEMMA SubmitReadModeKeeps ==
    ASSUME RouteInv, SubmitReadMode
    PROVE  RouteInv'
<1> DEFINE c == [call EXCEPT !.mode = mode, !.stage = "mode reread"]
<1>1. /\ call # None /\ call \in Calls /\ call.stage = "submitting"
      /\ call.since \in 1 .. Len(history)
      /\ tickets # <<>> /\ tickets[Len(tickets)].status = "PENDING"
      /\ tickets[Len(tickets)].symbol = call.symbol
      /\ tickets[Len(tickets)].side = call.side
      /\ mode \in Modes
  BY DEF RouteInv, CallInv, SubmitReadMode, At, SSTypeOK
<1>2. /\ c \in Calls /\ c.since = call.since /\ c.mode = mode
      /\ c.stage = "mode reread" /\ c.symbol = call.symbol /\ c.side = call.side
  BY <1>1 DEF Calls, Stages
<1>3. call' = c /\ UNCHANGED <<ssvars, tickets, executions>>
  BY DEF SubmitReadMode
<1> HIDE DEF c
<1>4. mode \in During(call.since)
  <2>1. Len(history) \in call.since .. Len(history)
    BY <1>1 DEF RouteInv, SSTypeOK
  <2> QED BY <2>1 DEF RouteInv, During
<1>5. CallInv'
  BY <1>1, <1>2, <1>3, <1>4 DEF CallInv, During, ssvars
<1> QED BY <1>3, <1>5, CallMoves

LEMMA SubmitCheckKeeps ==
    ASSUME RouteInv, SubmitCheck
    PROVE  RouteInv'
<1>1. call # None /\ call \in Calls /\ call.stage = "mode reread" /\ UNCHANGED executions
  BY DEF RouteInv, CallInv, SubmitCheck, At
<1>2. CASE IsTradingAllowed
  <2> DEFINE c == [call EXCEPT !.stage = "routed"]
  <2>1. /\ c \in Calls /\ c.since = call.since /\ c.mode = call.mode
        /\ c.stage = "routed" /\ c.symbol = call.symbol /\ c.side = call.side
    BY <1>1 DEF Calls, Stages
  <2>2. call' = c /\ UNCHANGED <<ssvars, tickets, executions>>
    BY <1>1, <1>2 DEF SubmitCheck
  <2> HIDE DEF c
  <2>3. CallInv'
    BY <1>1, <2>1, <2>2 DEF RouteInv, CallInv, During, ssvars
  <2> QED BY <2>2, <2>3, CallMoves
<1>3. CASE ~IsTradingAllowed
  <2>1. Close("REJECTED")
    BY <1>3 DEF SubmitCheck
  <2>2. VenueMatchesMode'
    BY <1>1 DEF RouteInv, VenueMatchesMode
  <2> QED BY <1>1, <2>1, <2>2, CloseKeeps
<1> QED BY <1>2, <1>3

\* Another thread changes the mode: the trail grows and what was in it stays.
LEMMA ModeChangeKeeps ==
    ASSUME RouteInv, SSNext, UNCHANGED <<tickets, call, executions>>
    PROVE  RouteInv'
<1>1. PICK new \in Modes : MoveTo(new) /\ emergency' \in BOOLEAN
  BY NextMoves DEF RouteInv, SSTypeOK
<1>2. /\ Len(history') = Len(history) + 1
      /\ \A i \in 1 .. Len(history) : history'[i] = history[i]
      /\ history'[Len(history')] = Transition(mode, new)
      /\ history' \in Seq([from : Modes, to : Modes])
      /\ Len(history') \in 1 .. MaxHistory
      /\ mode' = new
  BY <1>1, MoveToExtends DEF RouteInv
<1>3. SSTypeOK' /\ history'[Len(history')].to = mode'
  BY <1>1, <1>2 DEF SSTypeOK, Transition
<1>4. ASSUME NEW since \in 1 .. Len(history)
      PROVE  During(since) \subseteq During(since)' /\ since \in 1 .. Len(history')
  <2>1. \A k \in since .. Len(history) :
           k \in since .. Len(history') /\ history'[k] = history[k]
    BY <1>2 DEF RouteInv, SSTypeOK
  <2> QED BY <1>2, <2>1 DEF During, RouteInv, SSTypeOK
<1>5. CallInv'
  BY <1>4 DEF RouteInv, CallInv
<1>6. tickets' \in Seq(Tickets) /\ NoDuplicateOpen'
  BY DEF RouteInv, NoDuplicateOpen
<1>7. VenueMatchesMode'
  BY DEF RouteInv, VenueMatchesMode
<1> QED BY <1>3, <1>5, <1>6, <1>7 DEF RouteInv

LEMMA RouteInit == ORInit => RouteInv
<1> SUFFICES ASSUME ORInit PROVE RouteInv
  OBVIOUS
<1>1. SSTypeOK /\ history[Len(history)].to = mode
  <2>1. mode \in Modes /\ emergency \in BOOLEAN
    BY BootAssumption DEF ORInit, SSInit
  <2>2. Transition(mode, mode) \in [from : Modes, to : Modes]
        /\ Transition(mode, mode).to = mode
    BY <2>1 DEF Transition
  <2>3. history = <<Transition(mode, mode)>>
    BY DEF ORInit, SSInit
  <2>4. history \in Seq([from : Modes, to : Modes]) /\ Len(history) = 1
        /\ history[1] = Transition(mode, mode)
    BY <2>2, <2>3
  <2> QED BY <2>1, <2>2, <2>4, MaxHistoryAssumption DEF SSTypeOK
<1> QED BY <1>1 DEF ORInit, RouteInv, CallInv, NoDuplicateOpen, VenueMatchesMode

LEMMA RouteStep == RouteInv /\ [ORNext]_orvars => RouteInv'
<1> SUFFICES ASSUME RouteInv, [ORNext]_orvars PROVE RouteInv'
  OBVIOUS
<1>1. CASE \E symbol \in Symbols, side \in Sides : ReadMode(symbol, side)
  BY <1>1, ReadModeKeeps
<1>2. CASE OpenTicket
  BY <1>2, OpenTicketKeeps
<1>3. CASE PaperFill
  <2>1. call # None /\ call.stage = "filling" /\ call.mode = "PAPER"
    BY <1>3 DEF RouteInv, CallInv, PaperFill, At
  <2>2. VenueMatchesMode'
    BY <1>3, <2>1, ExecutionFits DEF PaperFill
  <2> QED BY <1>3, <2>1, <2>2, CloseKeeps DEF PaperFill
<1>4. CASE PaperFillRaises
  BY <1>4, CallMoves DEF PaperFillRaises, CallInv
<1>5. CASE SubmitReadMode
  BY <1>5, SubmitReadModeKeeps
<1>6. CASE SubmitCheck
  BY <1>6, SubmitCheckKeeps
<1>7. CASE ShadowLog
  <2>1. call # None /\ call.stage = "routed" /\ call.mode = "SHADOW"
    BY <1>7 DEF ShadowLog, At
  <2>2. VenueMatchesMode'
    BY <1>7, <2>1, ExecutionFits DEF ShadowLog
  <2> QED BY <1>7, <2>1, <2>2, CloseKeeps DEF ShadowLog
<1>8. CASE SubmitToBroker \/ AnswerLost
  <2>1. call # None /\ call.stage = "routed" /\ call.mode = "LIVE"
    BY <1>8 DEF SubmitToBroker, AnswerLost, At
  <2>2. VenueMatchesMode'
    BY <1>8, <2>1, ExecutionFits DEF SubmitToBroker, AnswerLost
  <2> QED BY <1>8, <2>1, <2>2, CloseKeeps DEF SubmitToBroker, AnswerLost
<1>9. CASE NotSent
  <2>1. call # None /\ call.stage = "routed" /\ VenueMatchesMode'
    BY <1>9 DEF NotSent, At, RouteInv, VenueMatchesMode
  <2> QED BY <1>9, <2>1, CloseKeeps DEF NotSent
<1>10. CASE SSNext /\ UNCHANGED <<tickets, call, executions>>
  BY <1>10, ModeChangeKeeps
<1>11. CASE UNCHANGED orvars
  BY <1>11, CallMoves DEF orvars, ssvars, RouteInv, CallInv, During
<1> QED BY <1>1, <1>2, <1>3, <1>4, <1>5, <1>6, <1>7, <1>8, <1>9, <1>10, <1>11
        DEF ORNext, RouteNext

THEOREM RouteInvariant == ORSpec => []RouteInv
BY RouteInit, RouteStep, PTL DEF ORSpec

\* place_order never has two open tickets for an instrument and side, whatever
\* fails and however many orders were placed before.
THEOREM NoDuplicates == ORSpec => []NoDuplicateOpen
BY RouteInvariant, PTL DEF RouteInv

\* However the mode moves while an order is placed, no venue is used without
\* the system having been in that venue's mode during the call.
THEOREM VenueMode == ORSpec => []VenueMatchesMode
BY RouteInvariant, PTL DEF RouteInv

-----------------------------------------------------------------------------
(* The fills and the paper account. *)

Filled == {i \in 1 .. Len(tickets) : tickets[i].status = "FILLED"}

FillRecords == [symbol : Names, side : Sides, qty : Nat \ {0}, price : Int]

LogInv ==
    /\ RouteInv
    /\ fills \in Seq(FillRecords)
    /\ FillsAreTickets
-----------------------------------------------------------------------------
\* The rank of an element among the elements up to it.
LEMMA RankInRange ==
    ASSUME NEW n \in Nat, NEW S \in SUBSET (1 .. n), NEW i \in S
    PROVE  /\ IsFiniteSet({j \in S : j <= i})
           /\ Cardinality({j \in S : j <= i}) \in 1 .. Cardinality(S)
           /\ Cardinality(S) \in Nat
<1> DEFINE R == {j \in S : j <= i}
<1>1. IsFiniteSet(S)
  <2>1. IsFiniteSet(1 .. n)
    BY FS_Interval
  <2> QED BY <2>1, FS_Subset
<1>2. R \in SUBSET S /\ R # {}
  OBVIOUS
<1> HIDE DEF R
<1>3. IsFiniteSet(R) /\ Cardinality(R) <= Cardinality(S)
  BY <1>1, <1>2, FS_Subset
<1>4. Cardinality(R) \in Nat /\ Cardinality(S) \in Nat /\ Cardinality(R) # 0
  BY <1>1, <1>2, <1>3, FS_CardinalityType, FS_EmptySet
<1>5. Cardinality(R) \in 1 .. Cardinality(S)
  BY <1>3, <1>4
<1> QED BY <1>3, <1>4, <1>5 DEF R

LEMMA FilledFinite ==
    ASSUME RouteInv
    PROVE  /\ Len(tickets) \in Nat /\ IsFiniteSet(Filled)
           /\ Filled \in SUBSET (1 .. Len(tickets))
           /\ Cardinality(Filled) \in Nat
<1>1. Len(tickets) \in Nat
  BY LenProperties DEF RouteInv
<1>2. Filled \in SUBSET (1 .. Len(tickets)) /\ IsFiniteSet(1 .. Len(tickets))
  BY <1>1, FS_Interval DEF Filled
<1>3. IsFiniteSet(Filled)
  BY <1>2, FS_Subset
<1> QED BY <1>1, <1>2, <1>3, FS_CardinalityType

\* Steps that fill no ticket and leave the filled ones as they are.
LEMMA LogKept ==
    ASSUME LogInv, RouteInv', UNCHANGED fills, Filled' = Filled,
           \A i \in Filled : /\ tickets'[i].symbol = tickets[i].symbol
                             /\ tickets'[i].side = tickets[i].side
    PROVE  LogInv'
BY DEF LogInv, FillsAreTickets, Filled

\* What closing the newest ticket makes of the tickets.
LEMMA CloseIsLocal ==
    ASSUME RouteInv, RouteInv', NEW status, Close(status),
           call # None, call.stage # "mode read"
    PROVE  /\ Len(tickets') = Len(tickets)
           /\ Len(tickets) \in 1 .. Len(tickets)
           /\ tickets[Len(tickets)].status = "PENDING"
           /\ \A i \in 1 .. Len(tickets) :
                 /\ tickets'[i].symbol = tickets[i].symbol
                 /\ tickets'[i].side = tickets[i].side
                 /\ tickets'[i].status = IF i = Len(tickets) THEN status
                                         ELSE tickets[i].status
<1> DEFINE n == Len(tickets)
<1>1. /\ tickets \in Seq(Tickets) /\ tickets # <<>>
      /\ tickets[n].status = "PENDING"
  BY DEF RouteInv, CallInv
<1>2. n \in Nat \ {0} /\ tickets \in [1 .. n -> Tickets]
  BY <1>1, EmptySeq, LenProperties
<1>3. tickets' = [tickets EXCEPT ![n].status = status]
  BY DEF Close
<1>4. n \in 1 .. n
  <2> HIDE DEF n
  <2> QED BY <1>2, LastIsInRange
<1>5. \A i \in 1 .. n : tickets[i] \in Tickets
  BY <1>2
<1>6. tickets' = [i \in 1 .. n |-> IF i = n THEN [tickets[n] EXCEPT !.status = status]
                                   ELSE tickets[i]]
  <2> HIDE DEF n
  <2> QED BY <1>2, <1>3
<1>7. Len(tickets') = n
  <2>1. DOMAIN tickets' = 1 .. n
    BY <1>6
  <2>2. DOMAIN tickets' = 1 .. Len(tickets') /\ Len(tickets') \in Nat
    BY LenProperties DEF RouteInv
  <2> HIDE DEF n
  <2>3. 1 .. n = 1 .. Len(tickets')
    BY <2>1, <2>2, Zenon
  <2> QED BY <1>2, <2>2, <2>3, RangeEnds
<1> HIDE DEF n
<1>8. ASSUME NEW i \in 1 .. n
      PROVE  /\ tickets'[i].symbol = tickets[i].symbol
             /\ tickets'[i].side = tickets[i].side
             /\ tickets'[i].status = IF i = n THEN status ELSE tickets[i].status
  BY <1>5, <1>6 DEF Tickets
<1> QED BY <1>1, <1>4, <1>7, <1>8 DEF n

\* Every step of the orders but a fill leaves the filled tickets alone.
LEMMA RouteKeepsFilled ==
    ASSUME RouteInv, RouteInv', RouteNext
    PROVE  /\ Filled' = Filled
           /\ \A i \in Filled : /\ tickets'[i].symbol = tickets[i].symbol
                                /\ tickets'[i].side = tickets[i].side
<1> DEFINE Goal == /\ Filled' = Filled
                   /\ \A i \in Filled : /\ tickets'[i].symbol = tickets[i].symbol
                                        /\ tickets'[i].side = tickets[i].side
<1>1. CASE UNCHANGED tickets
  BY <1>1 DEF Filled
<1>2. ASSUME NEW status \in {"SUBMITTED", "REJECTED"}, Close(status), call # None,
             call.stage # "mode read"
      PROVE  Goal
  <2>1. /\ Len(tickets') = Len(tickets)
        /\ tickets[Len(tickets)].status = "PENDING"
        /\ \A i \in 1 .. Len(tickets) :
                 /\ tickets'[i].symbol = tickets[i].symbol
                 /\ tickets'[i].side = tickets[i].side
                 /\ tickets'[i].status = IF i = Len(tickets) THEN status
                                         ELSE tickets[i].status
    BY <1>2, CloseIsLocal
  <2> QED BY <2>1 DEF Filled
<1>3. CASE OpenTicket
  <2>1. CASE UNCHANGED tickets
    BY <2>1, <1>1
  <2>2. CASE tickets' = Append(tickets, Ticket(call.symbol, call.side, call.mode))
    <3> DEFINE t == Ticket(call.symbol, call.side, call.mode)
    <3>1. call \in Calls /\ tickets \in Seq(Tickets)
      BY <1>3 DEF RouteInv, CallInv, OpenTicket, At
    <3>2. t \in Tickets /\ t.status = "PENDING"
      BY <3>1 DEF Ticket, Tickets, Calls
    <3> HIDE DEF t
    <3>3. /\ Len(tickets') = Len(tickets) + 1 /\ Len(tickets) \in Nat
          /\ \A i \in 1 .. Len(tickets) : tickets'[i] = tickets[i]
          /\ tickets'[Len(tickets) + 1] = t
      BY <2>2, <3>1, <3>2, AppendProperties, LenProperties DEF t
    <3> QED BY <3>2, <3>3 DEF Filled
  <2> QED BY <1>3, <2>1, <2>2 DEF OpenTicket
<1>4. CASE \E symbol \in Symbols, side \in Sides : ReadMode(symbol, side)
  BY <1>1, <1>4 DEF ReadMode
<1>5. CASE PaperFillRaises \/ SubmitReadMode
  BY <1>1, <1>5 DEF PaperFillRaises, SubmitReadMode
<1>6. CASE SubmitCheck
  <2>1. call # None /\ call.stage # "mode read"
    BY <1>6 DEF SubmitCheck, At
  <2> QED BY <1>1, <1>2, <1>6, <2>1 DEF SubmitCheck
<1>7. CASE ShadowLog \/ SubmitToBroker \/ AnswerLost \/ NotSent
  <2>1. call # None /\ call.stage # "mode read"
    BY <1>7 DEF ShadowLog, SubmitToBroker, AnswerLost, NotSent, At
  <2> QED BY <1>2, <1>7, <2>1 DEF ShadowLog, SubmitToBroker, AnswerLost, NotSent
<1>8. CASE SSNext /\ UNCHANGED <<tickets, call, executions>>
  BY <1>1, <1>8
<1> QED BY <1>3, <1>4, <1>5, <1>6, <1>7, <1>8 DEF RouteNext

\* A fill is recorded for the ticket it fills.
LEMMA FillRecorded ==
    ASSUME LogInv, PaperFill, NEW lot \in Lots,
           FillOrder(call.symbol, call.side, lot.qty, lot.price, lot.thin),
           NEW n, n = Len(fills)
    PROVE  /\ fills' \in Seq(FillRecords)
           /\ n \in Nat /\ Len(fills') = n + 1
           /\ \A k \in 1 .. n : fills'[k] = fills[k]
           /\ fills'[n + 1].symbol = call.symbol /\ fills'[n + 1].side = call.side
           /\ fills'[n + 1].qty = lot.qty
           /\ fills'[n + 1].price = Slipped(lot.price, call.side, lot.thin)
           /\ call.symbol \in Names /\ call.side \in Sides
           /\ lot.qty \in Nat \ {0} /\ fills'[n + 1].price \in Int
<1> DEFINE price == Slipped(lot.price, call.side, lot.thin)
           r == [symbol |-> call.symbol, side |-> call.side,
                 qty |-> lot.qty, price |-> price]
<1>1. call \in Calls
  BY DEF LogInv, RouteInv, CallInv, PaperFill, At
<1>2. call.symbol \in Names /\ call.side \in Sides
  BY <1>1, LotsAssumption DEF Calls
<1>3. /\ lot.qty \in Nat \ {0} /\ lot.price \in Nat /\ lot.thin \in Nat
      /\ SlipBps \in Nat
  BY LotsAssumption, AccountAssumption
<1>4. price \in Int
  <2>1. lot.price * SlipBps \in Nat
    BY <1>3
  <2>2. (lot.price * SlipBps) * lot.thin \in Nat
    BY <1>3, <2>1
  <2>3. ((lot.price * SlipBps) * lot.thin) \div 10000 \in Int
    BY <2>2
  <2> QED BY <1>3, <2>3 DEF Slipped, Signed
<1> HIDE DEF price
<1>5. r \in FillRecords
  BY <1>2, <1>3, <1>4 DEF FillRecords
<1>6. fills' = Append(fills, r)
  BY DEF FillOrder, price
<1>7. fills \in Seq(FillRecords)
  BY DEF LogInv
<1>8. r.symbol = call.symbol /\ r.side = call.side /\ r.qty = lot.qty /\ r.price = price
  OBVIOUS
<1> HIDE DEF r
<1> QED BY <1>2, <1>3, <1>4, <1>5, <1>6, <1>7, <1>8, AppendProperties, LenProperties DEF price

LEMMA FillKeepsLog ==
    ASSUME LogInv, RouteInv', PaperFill, NEW lot \in Lots,
           FillOrder(call.symbol, call.side, lot.qty, lot.price, lot.thin)
    PROVE  LogInv'
<1> DEFINE n == Len(tickets)
           c == Cardinality(Filled)
<1>1. call # None /\ call.stage = "filling" /\ Close("FILLED")
  BY DEF PaperFill, At
<1>2. /\ n \in 1 .. n /\ Len(tickets') = n
      /\ tickets[n].status = "PENDING"
      /\ \A i \in 1 .. n :
            /\ tickets'[i].symbol = tickets[i].symbol
            /\ tickets'[i].side = tickets[i].side
            /\ tickets'[i].status = IF i = n THEN "FILLED" ELSE tickets[i].status
  BY <1>1, CloseIsLocal DEF LogInv
<1>3. tickets[n].symbol = call.symbol /\ tickets[n].side = call.side
  BY <1>1 DEF LogInv, RouteInv, CallInv
<1>4. n \in Nat /\ IsFiniteSet(Filled) /\ Filled \in SUBSET (1 .. n) /\ c \in Nat
  BY FilledFinite DEF LogInv
<1>5. n \notin Filled /\ Filled' = Filled \cup {n}
  BY <1>2 DEF Filled
<1>6. Cardinality(Filled') = c + 1
  BY <1>4, <1>5, FS_AddElement
<1>7. Len(fills) = c
  BY DEF LogInv, FillsAreTickets, Filled
<1>8. /\ fills' \in Seq(FillRecords) /\ Len(fills') = c + 1
      /\ \A k \in 1 .. c : fills'[k] = fills[k]
      /\ fills'[c + 1].symbol = call.symbol /\ fills'[c + 1].side = call.side
  <2> HIDE DEF c
  <2> QED BY <1>7, FillRecorded
<1>9. ASSUME NEW i \in Filled'
      PROVE  LET f == fills'[Cardinality({j \in Filled' : j <= i})]
             IN  f.symbol = tickets'[i].symbol /\ f.side = tickets'[i].side
  <2>1. CASE i = n
    <3>1. {j \in Filled' : j <= i} = Filled'
      <4>1. \A j \in Filled' : j <= i
        <5> HIDE DEF n
        <5> QED BY <1>4, <1>5, <2>1
      <4> QED BY <4>1
    <3>2. Cardinality({j \in Filled' : j <= i}) = c + 1
      BY <1>6, <3>1, Zenon
    <3> QED BY <1>2, <1>3, <1>8, <2>1, <3>2
  <2>2. CASE i # n
    <3>1. i \in Filled /\ i \in 1 .. n
      BY <1>4, <1>5, <2>2
    <3>2. {j \in Filled' : j <= i} = {j \in Filled : j <= i}
      BY <1>4, <1>5, <2>2, <3>1
    <3> DEFINE rank == Cardinality({j \in Filled : j <= i})
    <3>3. rank \in 1 .. c
      <4> HIDE DEF n
      <4> QED BY <1>4, <3>1, RankInRange
    <3>4. fills[rank].symbol = tickets[i].symbol /\ fills[rank].side = tickets[i].side
      BY <3>1 DEF LogInv, FillsAreTickets, Filled
    <3>5. Cardinality({j \in Filled' : j <= i}) = rank
      BY <3>2, Zenon
    <3> HIDE DEF rank
    <3> QED BY <1>2, <1>8, <3>1, <3>3, <3>4, <3>5
  <2> QED BY <2>1, <2>2
<1>10. FillsAreTickets'
  BY <1>6, <1>8, <1>9 DEF FillsAreTickets, Filled
<1> QED BY <1>8, <1>10 DEF LogInv

LEMMA LogStep == LogInv /\ [TPNext]_tpvars => LogInv'
<1> SUFFICES ASSUME LogInv, [TPNext]_tpvars PROVE LogInv'
  OBVIOUS
<1>1. RouteInv /\ [ORNext]_orvars
  BY DEF LogInv, TPNext, FillTicket, ORNext, tpvars
<1>2. RouteInv'
  BY <1>1, RouteStep
<1>3. CASE FillTicket
  BY <1>2, <1>3, FillKeepsLog DEF FillTicket
<1>4. CASE RouteNext /\ UNCHANGED pevars
  <2>1. UNCHANGED fills
    BY <1>4 DEF pevars
  <2> QED BY <1>1, <1>2, <1>4, <2>1, RouteKeepsFilled, LogKept
<1>5. CASE UNCHANGED <<orvars, fills>>
  <2>1. UNCHANGED tickets /\ UNCHANGED fills
    BY <1>5 DEF orvars
  <2> QED BY <1>2, <2>1, LogKept DEF Filled
<1>6. CASE (\E marks \in [Names -> Marks] : PortfolioValue(marks)) /\ UNCHANGED orvars
  BY <1>5, <1>6 DEF PortfolioValue
<1>7. CASE UNCHANGED tpvars
  BY <1>5, <1>7 DEF tpvars, pevars
<1> QED BY <1>3, <1>4, <1>6, <1>7 DEF TPNext

LEMMA LogInit == TPInit => LogInv
<1> SUFFICES ASSUME TPInit PROVE LogInv
  OBVIOUS
<1>1. RouteInv
  BY RouteInit DEF TPInit
<1>2. tickets = <<>> /\ fills = <<>>
  BY DEF TPInit, ORInit, PEInit
<1>3. Filled = {} /\ Cardinality({}) = 0 /\ Len(fills) = 0 /\ fills \in Seq(FillRecords)
  BY <1>2, FS_EmptySet DEF Filled
<1>4. FillsAreTickets
  <2>1. Cardinality(Filled) = 0
    BY <1>3, Zenon
  <2> QED BY <1>3, <2>1 DEF FillsAreTickets, Filled
<1> QED BY <1>1, <1>3, <1>4 DEF LogInv

THEOREM LogInvariant == TPSpec => []LogInv
BY LogInit, LogStep, PTL DEF TPSpec

\* The paper account and the order log tell the same story.
THEOREM FillsMatchTickets == TPSpec => []FillsAreTickets
BY LogInvariant, PTL DEF LogInv
-----------------------------------------------------------------------------
\* A fill that opens or adds makes the average come out without a remainder,
\* as the quotient of the code's numbers does.
AverageIsExact ==
    \A s \in Names :
        LET signed == book'[s].qty - book[s].qty
        IN  /\ signed # 0
            /\ book[s].qty = 0 \/ (book[s].qty > 0) = (signed > 0)
            => book'[s].qty * book'[s].avg
                  = book[s].qty * book[s].avg + signed * fills'[Len(fills')].price

Positions == [qty : Int, avg : Int, realized : Int]

Worth == [s \in Names |-> book[s].qty * book[s].avg]

Gains == [s \in Names |-> book[s].realized]

Paid == [i \in 1 .. Len(fills) |-> FeePerShare * fills[i].qty]

\* How each of the first k fills moved what is held of a symbol.
Moved(fs, s, k) == [i \in 1 .. k |-> IF fs[i].symbol = s
                                    THEN Signed(fs[i].side, fs[i].qty) ELSE 0]

Explained ==
    cash + Sum(Worth, Names) = StartingCash + Sum(Gains, Names) - Sum(Paid, 1 .. Len(fills))

AccountInv ==
    /\ cash \in Int
    /\ book \in [Names -> Positions]
    /\ \A s \in Names : book[s].qty = Held(s, Len(fills))
    /\ TurnedOver \/ Explained

LEMMA SumOfFunction ==
    ASSUME NEW f, NEW S, DOMAIN f = S
    PROVE  SumFunction(f) = Sum(f, S)
BY Zenon DEF Sum, SumFunction

LEMMA MovesAreIntegers ==
    ASSUME NEW fs \in Seq(FillRecords), NEW s, NEW k \in 0 .. Len(fs)
    PROVE  \A i \in 1 .. k : Moved(fs, s, k)[i] \in Int
<1>1. \A i \in 1 .. Len(fs) : fs[i] \in FillRecords
  BY LenProperties
<1>2. \A i \in 1 .. k : i \in 1 .. Len(fs)
  BY LenProperties
<1> QED BY <1>1, <1>2 DEF Moved, Signed, FillRecords

\* One more fill: the quantities held before it stay what they were, and it
\* moves the last one.
LEMMA HeldMoves ==
    ASSUME NEW n \in Nat, fills \in Seq(FillRecords), Len(fills) = n,
           fills' \in Seq(FillRecords), Len(fills') = n + 1,
           \A k \in 1 .. n : fills'[k] = fills[k],
           NEW s
    PROVE  /\ \A k \in 0 .. n : Held(s, k)' = Held(s, k)
           /\ Held(s, n) \in Int
           /\ Held(s, n + 1)' = Held(s, n) +
                IF fills'[n + 1].symbol = s
                THEN Signed(fills'[n + 1].side, fills'[n + 1].qty) ELSE 0
<1>1. ASSUME NEW k
      PROVE  /\ Held(s, k) = SumFunction(Moved(fills, s, k))
             /\ Held(s, k)' = SumFunction(Moved(fills', s, k))
  BY DEF Held, Moved
<1>2. ASSUME NEW k \in 0 .. n PROVE Moved(fills', s, k) = Moved(fills, s, k)
  BY DEF Moved
<1>3. ASSUME NEW k \in 0 .. n PROVE Held(s, k)' = Held(s, k)
  <2>1. SumFunction(Moved(fills', s, k)) = SumFunction(Moved(fills, s, k))
    BY <1>2, Zenon
  <2> QED BY <1>1, <2>1, Zenon
<1> DEFINE new == Moved(fills', s, n + 1)
           old == Moved(fills, s, n)
<1>4. DOMAIN new = 1 .. n + 1 /\ DOMAIN old = 1 .. n
  BY DEF Moved
<1>5. /\ \A i \in 1 .. n : new[i] = old[i]
      /\ new[n + 1] = IF fills'[n + 1].symbol = s
                     THEN Signed(fills'[n + 1].side, fills'[n + 1].qty) ELSE 0
  BY DEF Moved
<1>6. (\A i \in 1 .. n + 1 : new[i] \in Int) /\ \A i \in 1 .. n : old[i] \in Int
  <2>1. n + 1 \in 0 .. Len(fills') /\ n \in 0 .. Len(fills)
    OBVIOUS
  <2> HIDE DEF new, old
  <2> QED BY <2>1, MovesAreIntegers DEF new, old
<1>7. Held(s, n + 1)' = SumFunction(new) /\ Held(s, n) = SumFunction(old)
  BY <1>1, Zenon
<1> HIDE DEF new, old
<1>8. SumFunction(new) = Sum(new, 1 .. n + 1) /\ SumFunction(old) = Sum(old, 1 .. n)
  BY <1>4, SumOfFunction
<1>9. Sum(new, 1 .. n + 1) = Sum(new, 1 .. n) + new[n + 1]
  BY <1>6, SumExtends
<1>10. Sum(new, 1 .. n) = Sum(old, 1 .. n) /\ Sum(old, 1 .. n) \in Int
  <2>1. IsFiniteSet(1 .. n)
    BY FS_Interval
  <2> QED BY <1>5, <1>6, <2>1, SumAgrees, SumTakes
<1> QED BY <1>3, <1>5, <1>7, <1>8, <1>9, <1>10

LEMMA ExplainedIsBook == (TurnedOver \/ Explained) <=> BookExplained
<1>1. SumFunction(Worth) = Sum(Worth, Names)
  <2>1. DOMAIN Worth = Names
    BY DEF Worth
  <2> QED BY <2>1, SumOfFunction, Zenon
<1>2. SumFunction(Gains) = Sum(Gains, Names)
  <2>1. DOMAIN Gains = Names
    BY DEF Gains
  <2> QED BY <2>1, SumOfFunction, Zenon
<1>3. SumFunction(Paid) = Sum(Paid, 1 .. Len(fills))
  <2>1. DOMAIN Paid = 1 .. Len(fills)
    BY DEF Paid
  <2> QED BY <2>1, SumOfFunction, Zenon
<1>4. Fees = SumFunction(Paid)
  BY DEF Fees, Paid
<1>5. BookExplained <=> TurnedOver \/ cash + SumFunction(Worth)
                                      = StartingCash + SumFunction(Gains) - Fees
  BY DEF BookExplained, Worth, Gains
<1> QED BY <1>1, <1>2, <1>3, <1>4, <1>5, Zenon DEF Explained
-----------------------------------------------------------------------------
LEMMA LeastOfTwo ==
    ASSUME NEW a \in Int, NEW b \in Int
    PROVE  Min({a, b}) = IF a <= b THEN a ELSE b
<1> DEFINE m == IF a <= b THEN a ELSE b
           P(x) == x \in {a, b} /\ \A y \in {a, b} : x =< y
<1>1. P(m) /\ \A x : P(x) => x = m
  OBVIOUS
<1>2. Min({a, b}) = CHOOSE x \in {a, b} : \A y \in {a, b} : x =< y
  BY DEF Min
<1>3. Min({a, b}) = m
  BY <1>1, <1>2
<1> QED BY <1>3

LEMMA QuotientType ==
    ASSUME NEW n \in Int, NEW d \in Int \ {0}
    PROVE  Quotient(n, d) \in Int
BY DEF Quotient

LEMMA OppositeSigns ==
    ASSUME NEW a \in Int, NEW b \in Int, a * b >= 0
    PROVE  /\ a > 0 => b >= 0
           /\ a < 0 => b <= 0
OBVIOUS

\* A position that was not turned over accounts for what moved it, if its
\* average is exact.
Accounts(pos, new, signed, price) ==
    /\ pos.qty * (pos.qty + signed) >= 0
    /\ pos.qty = 0 \/ (pos.qty > 0) = (signed > 0) =>
          new.qty * new.avg = pos.qty * pos.avg + signed * price
    => new.qty * new.avg
          = pos.qty * pos.avg + signed * price + (new.realized - pos.realized)

\* What a fill does to what a position cost and earned, if it does not turn the
\* position over.
LEMMA PositionExplained ==
    ASSUME NEW pos \in Positions, NEW signed \in Int \ {0}, NEW price \in Int,
           NEW new, new = Position(pos, signed, price)
    PROVE  /\ new \in Positions
           /\ new.qty = pos.qty + signed
           /\ Accounts(pos, new, signed, price)
<1> DEFINE q == pos.qty
           qty == q + signed
           adds == q = 0 \/ (q > 0) = (signed > 0)
<1>1. q \in Int /\ pos.avg \in Int /\ pos.realized \in Int /\ qty \in Int
  BY DEF Positions
<1>2. CASE adds
  <2> DEFINE avg == Quotient(pos.avg * q + price * signed, qty)
  <2>1. qty # 0
    BY <1>1, <1>2
  <2>2. avg \in Int
    <3>1. pos.avg * q + price * signed \in Int
      BY <1>1
    <3> HIDE DEF qty
    <3> QED BY <1>1, <2>1, <3>1, QuotientType
  <2>3. new = [pos EXCEPT !.qty = qty, !.avg = avg]
    BY <1>2 DEF Position
  <2> HIDE DEF avg
  <2>4. new \in Positions /\ new.qty = qty /\ new.avg = avg /\ new.realized = pos.realized
    BY <1>1, <2>2, <2>3 DEF Positions
  <2>5. new.qty * new.avg = pos.qty * pos.avg + signed * price
           => new.qty * new.avg = pos.qty * pos.avg + signed * price
                                  + (new.realized - pos.realized)
    <3>1. pos.qty * pos.avg \in Int /\ signed * price \in Int
      BY <1>1
    <3> QED BY <1>1, <2>4, <3>1
  <2> QED BY <1>2, <2>4, <2>5 DEF Accounts
<1>3. CASE ~adds
  <2> DEFINE closing == Min({Magnitude(signed), Magnitude(q)})
             direction == IF q > 0 THEN 1 ELSE -1
             avg == IF qty = 0 THEN 0 ELSE pos.avg
             gain == (price - pos.avg) * closing * direction
  <2>1. Magnitude(signed) \in Int /\ Magnitude(q) \in Int
    BY <1>1 DEF Magnitude
  <2>2. closing = IF Magnitude(signed) <= Magnitude(q) THEN Magnitude(signed) ELSE Magnitude(q)
    BY <2>1, LeastOfTwo
  <2>3. closing \in Int /\ direction \in Int
    BY <2>1, <2>2
  <2>4. new = [qty |-> qty, avg |-> avg, realized |-> pos.realized + gain]
    BY <1>3 DEF Position
  <2>5. gain \in Int /\ avg \in Int
    <3> HIDE DEF closing, direction
    <3> QED BY <1>1, <2>3
  <2> HIDE DEF gain
  <2>6. /\ new \in Positions /\ new.qty = qty /\ new.avg = avg
        /\ new.realized = pos.realized + gain
    BY <1>1, <2>4, <2>5 DEF Positions
  <2>7. ASSUME pos.qty * (pos.qty + signed) >= 0
        PROVE  new.qty * new.avg
                  = pos.qty * pos.avg + signed * price + (new.realized - pos.realized)
    <3>1. (q > 0 => qty >= 0) /\ (q < 0 => qty <= 0)
      <4> HIDE DEF q
      <4> QED BY <1>1, <2>7, OppositeSigns DEF q
    <3>2. closing * direction = -signed /\ closing \in Int /\ direction \in Int
      <4>1. CASE q > 0
        <5>1. signed < 0 /\ closing = -signed
          BY <1>1, <1>3, <2>2, <3>1, <4>1 DEF Magnitude
        <5>2. direction = 1
          BY <4>1
        <5> HIDE DEF closing, direction
        <5> QED BY <5>1, <5>2
      <4>2. CASE q < 0
        <5>1. signed > 0 /\ closing = signed
          BY <1>1, <1>3, <2>2, <3>1, <4>2 DEF Magnitude
        <5>2. direction = -1
          BY <1>1, <4>2
        <5> HIDE DEF closing, direction
        <5> QED BY <5>1, <5>2
      <4> QED BY <1>1, <1>3, <4>1, <4>2
    <3> HIDE DEF closing, direction
    <3>3. gain = (price - pos.avg) * (-signed)
      <4>1. price - pos.avg \in Int
        BY <1>1
      <4> QED BY <3>2, <4>1 DEF gain
    <3>4. gain = pos.avg * signed - signed * price
      BY <1>1, <3>3
    <3>5. qty * avg = q * pos.avg + pos.avg * signed
      <4>1. CASE qty = 0
        <5>1. (q + signed) * pos.avg = 0
          BY <1>1, <4>1
        <5>2. (q + signed) * pos.avg = q * pos.avg + pos.avg * signed
          <6> HIDE DEF q
          <6> QED BY <1>1
        <5>3. qty * avg = 0
          BY <4>1
        <5> HIDE DEF q, qty, avg
        <5> QED BY <1>1, <5>1, <5>2, <5>3
      <4>2. CASE qty # 0
        <5> HIDE DEF q
        <5> QED BY <1>1, <4>2
      <4> QED BY <4>1, <4>2
    <3>6. q * pos.avg \in Int /\ pos.avg * signed \in Int /\ signed * price \in Int
      BY <1>1
    <3> HIDE DEF qty, avg
    <3> QED BY <1>1, <2>5, <2>6, <3>4, <3>5, <3>6
  <2> QED BY <2>6, <2>7 DEF Accounts
<1> QED BY <1>2, <1>3

\* A fill that turns no position over leaves the account explained.
LEMMA FillKeepsAccount ==
    ASSUME LogInv, AccountInv, PaperFill, AverageIsExact, NEW lot \in Lots,
           FillOrder(call.symbol, call.side, lot.qty, lot.price, lot.thin)
    PROVE  AccountInv'
<1> SUFFICES ASSUME NEW n, n = Len(fills), NEW s, s = call.symbol,
                    NEW price, price = fills'[n + 1].price,
                    NEW signed, signed = Signed(call.side, lot.qty)
             PROVE  AccountInv'
  OBVIOUS
<1>1. /\ fills \in Seq(FillRecords) /\ fills' \in Seq(FillRecords)
      /\ n \in Nat /\ Len(fills') = n + 1
      /\ \A k \in 1 .. n : fills'[k] = fills[k]
      /\ fills'[n + 1].symbol = s /\ fills'[n + 1].side = call.side
      /\ fills'[n + 1].qty = lot.qty
      /\ price = Slipped(lot.price, call.side, lot.thin)
      /\ s \in Names /\ call.side \in Sides
      /\ lot.qty \in Nat \ {0} /\ price \in Int
  BY FillRecorded DEF LogInv
<1>2. signed \in Int \ {0}
  BY <1>1 DEF Signed
<1>3. /\ book' = [book EXCEPT ![s] = Position(@, signed, price)]
      /\ cash' = cash - (signed * price + FeePerShare * lot.qty)
  BY <1>1 DEF FillOrder
<1>4. /\ book \in [Names -> Positions] /\ cash \in Int
      /\ \A x \in Names : book[x].qty = Held(x, n)
  BY DEF AccountInv
<1>5. fills'[Len(fills')].price = price
  BY <1>1
<1>6. FeePerShare * lot.qty \in Int /\ signed * price \in Int
  BY <1>1, <1>2, AccountAssumption
<1>7. \A x \in Names : /\ \A k \in 0 .. n : Held(x, k)' = Held(x, k)
                       /\ Held(x, n) \in Int
                       /\ Held(x, n + 1)' = Held(x, n) + IF s = x THEN signed ELSE 0
  <2> SUFFICES ASSUME NEW x \in Names
               PROVE  /\ \A k \in 0 .. n : Held(x, k)' = Held(x, k)
                      /\ Held(x, n) \in Int
                      /\ Held(x, n + 1)' = Held(x, n) + IF s = x THEN signed ELSE 0
    OBVIOUS
  <2> QED BY <1>1, HeldMoves
<1>8. /\ book'[s] = Position(book[s], signed, price) /\ book[s] \in Positions
      /\ \A x \in Names \ {s} : book'[x] = book[x]
  BY <1>1, <1>3, <1>4
<1>9. /\ book'[s] \in Positions
      /\ book'[s].qty = book[s].qty + signed
      /\ Accounts(book[s], book'[s], signed, price)
  <2> SUFFICES ASSUME NEW pos, pos = book[s], NEW new, new = book'[s]
               PROVE  /\ new \in Positions /\ new.qty = pos.qty + signed
                      /\ Accounts(pos, new, signed, price)
    OBVIOUS
  <2>1. pos \in Positions /\ new = Position(pos, signed, price)
    BY <1>8
  <2>2. signed \in Int \ {0} /\ price \in Int
    BY <1>1, <1>2
  <2> QED BY ONLY <2>1, <2>2, PositionExplained
<1>10. book' \in [Names -> Positions] /\ cash' \in Int
  <2>1. book' \in [Names -> Positions]
    BY <1>3, <1>4, <1>8, <1>9
  <2> QED BY <1>3, <1>4, <1>6, <2>1
<1>11. \A x \in Names : book'[x].qty = Held(x, n + 1)'
  <2> SUFFICES ASSUME NEW x \in Names PROVE book'[x].qty = Held(x, n + 1)'
    OBVIOUS
  <2>1. /\ book[x].qty = Held(x, n) /\ Held(x, n) \in Int
        /\ Held(x, n + 1)' = Held(x, n) + IF s = x THEN signed ELSE 0
    BY <1>4, <1>7
  <2>2. CASE x = s
    BY <1>9, <2>1, <2>2
  <2>3. CASE x # s
    BY <1>8, <2>1, <2>3
  <2> QED BY <2>2, <2>3
<1>12. \A x \in Names : book'[x].qty = Held(x, Len(fills))'
  <2>1. \A x \in Names : Held(x, Len(fills))' = Held(x, n + 1)'
    BY <1>1, Zenon DEF Held
  <2> QED BY <1>11, <2>1
<1>13. ASSUME ~ TurnedOver' PROVE Explained'
  <2>1. ~ TurnedOver
    <3> SUFFICES ASSUME NEW k \in 1 .. n, NEW x \in Names, Held(x, k - 1) * Held(x, k) < 0
                 PROVE  FALSE
      BY DEF TurnedOver
    <3>1. k \in 0 .. n /\ k - 1 \in 0 .. n /\ k \in 1 .. n + 1
      BY <1>1
    <3>2. Held(x, k)' = Held(x, k) /\ Held(x, k - 1)' = Held(x, k - 1)
      BY <1>7, <3>1
    <3>3. Held(x, k - 1)' * Held(x, k)' < 0
      BY <3>2
    <3> QED BY <1>1, <1>13, <3>1, <3>3 DEF TurnedOver
  <2>2. book[s].qty * (book[s].qty + signed) >= 0
    <3>1. n + 1 \in 1 .. n + 1 /\ (n + 1) - 1 = n
      BY <1>1
    <3>2. ~ (Held(s, (n + 1) - 1)' * Held(s, n + 1)' < 0)
      BY <1>1, <1>13, <3>1 DEF TurnedOver
    <3>3. Held(s, (n + 1) - 1)' = Held(s, n)'
      BY <3>1, Zenon DEF Held
    <3>4. Held(s, n)' = book[s].qty /\ Held(s, n + 1)' = book[s].qty + signed
      BY <1>1, <1>4, <1>7
    <3>5. book[s].qty \in Int
      BY <1>8 DEF Positions
    <3>6. ~ (book[s].qty * (book[s].qty + signed) < 0)
      BY <3>2, <3>3, <3>4
    <3>7. book[s].qty * (book[s].qty + signed) \in Int
      BY <1>2, <3>5
    <3> QED BY <3>6, <3>7
  <2>3. book[s].qty = 0 \/ (book[s].qty > 0) = (signed > 0) =>
           book'[s].qty * book'[s].avg = book[s].qty * book[s].avg + signed * price
    <3>1. book'[s].qty - book[s].qty = signed
      BY <1>2, <1>8, <1>9 DEF Positions
    <3> QED BY <1>1, <1>2, <1>5, <3>1 DEF AverageIsExact
  <2>4. book'[s].qty * book'[s].avg
           = book[s].qty * book[s].avg + signed * price
             + (book'[s].realized - book[s].realized)
    BY <1>9, <2>2, <2>3 DEF Accounts
  <2>5. IsFiniteSet(Names)
    BY AccountAssumption
  <2>6. \A x \in Names : /\ Worth[x] \in Int /\ Worth'[x] \in Int
                         /\ Gains[x] \in Int /\ Gains'[x] \in Int
    BY <1>4, <1>10 DEF Worth, Gains, Positions
  <2>7. \A x \in Names \ {s} : Worth'[x] = Worth[x] /\ Gains'[x] = Gains[x]
    BY <1>8 DEF Worth, Gains
  <2>8. /\ Sum(Worth', Names) = Sum(Worth, Names) + (Worth'[s] - Worth[s])
        /\ Sum(Gains', Names) = Sum(Gains, Names) + (Gains'[s] - Gains[s])
    BY <1>1, <2>5, <2>6, <2>7, SumChanges
  <2>9. /\ Worth'[s] = book'[s].qty * book'[s].avg
        /\ Worth[s] = book[s].qty * book[s].avg
        /\ Gains'[s] = book'[s].realized /\ Gains[s] = book[s].realized
    BY <1>1 DEF Worth, Gains
  <2>10. Sum(Worth, Names) \in Int /\ Sum(Gains, Names) \in Int
    BY <2>5, <2>6, SumTakes
  <2>11. /\ Sum(Paid', 1 .. n + 1) = Sum(Paid, 1 .. n) + FeePerShare * lot.qty
         /\ Sum(Paid, 1 .. n) \in Int
    <3>1. /\ \A i \in 1 .. n : fills[i] \in FillRecords
          /\ \A i \in 1 .. n + 1 : fills'[i] \in FillRecords
      BY <1>1, LenProperties
    <3>3. /\ \A i \in 1 .. n : Paid[i] = FeePerShare * fills[i].qty
          /\ \A i \in 1 .. n + 1 : Paid'[i] = FeePerShare * fills'[i].qty
      BY <1>1 DEF Paid
    <3>4. /\ \A i \in 1 .. n : Paid[i] \in Int
          /\ \A i \in 1 .. n + 1 : Paid'[i] \in Int
      BY <3>1, <3>3, AccountAssumption DEF FillRecords
    <3>5. \A i \in 1 .. n : Paid'[i] = Paid[i]
      BY <1>1, <3>3
    <3>6. Sum(Paid', 1 .. n + 1) = Sum(Paid', 1 .. n) + Paid'[n + 1]
      BY <1>1, <3>4, SumExtends
    <3>7. IsFiniteSet(1 .. n)
      BY <1>1, FS_Interval
    <3>8. Sum(Paid', 1 .. n) = Sum(Paid, 1 .. n) /\ Sum(Paid, 1 .. n) \in Int
      BY <3>4, <3>5, <3>7, SumAgrees, SumTakes
    <3>9. Paid'[n + 1] = FeePerShare * lot.qty
      BY <1>1, <3>3
    <3> QED BY <3>6, <3>8, <3>9
  <2>12. cash + Sum(Worth, Names)
            = StartingCash + Sum(Gains, Names) - Sum(Paid, 1 .. n)
    BY <2>1 DEF AccountInv, Explained
  <2>13. cash' + Sum(Worth', Names)
            = StartingCash + Sum(Gains', Names) - Sum(Paid', 1 .. n + 1)
    <3>1. /\ Worth'[s] \in Int /\ Worth[s] \in Int
          /\ Gains'[s] \in Int /\ Gains[s] \in Int
      BY <1>1, <2>6
    <3>2. Worth'[s] = Worth[s] + signed * price + (Gains'[s] - Gains[s])
      BY <2>4, <2>9
    <3> DEFINE cost == signed * price
               fee == FeePerShare * lot.qty
               dw == Worth'[s] - Worth[s]
               dg == Gains'[s] - Gains[s]
    <3>3. /\ cost \in Int /\ fee \in Int /\ dw \in Int /\ dg \in Int
          /\ StartingCash \in Int
      BY <1>6, <3>1, AccountAssumption
    <3>4. dw = cost + dg
      <4> HIDE DEF cost
      <4> QED BY <3>1, <3>2, <3>3 DEF cost
    <3>5. /\ cash' = cash - (cost + fee)
          /\ Sum(Worth', Names) = Sum(Worth, Names) + dw
          /\ Sum(Gains', Names) = Sum(Gains, Names) + dg
          /\ Sum(Paid', 1 .. n + 1) = Sum(Paid, 1 .. n) + fee
      BY <1>3, <2>8, <2>11
    <3> HIDE DEF cost, fee, dw, dg
    <3>6. (cash - (cost + fee)) + (Sum(Worth, Names) + dw)
             = StartingCash + (Sum(Gains, Names) + dg) - (Sum(Paid, 1 .. n) + fee)
      <4> SUFFICES ASSUME NEW c, c = cash, NEW w, w = Sum(Worth, Names),
                          NEW g, g = Sum(Gains, Names), NEW p, p = Sum(Paid, 1 .. n)
                   PROVE  (c - (cost + fee)) + (w + dw)
                             = StartingCash + (g + dg) - (p + fee)
        OBVIOUS
      <4>1. c \in Int /\ w \in Int /\ g \in Int /\ p \in Int
        BY <1>4, <2>10, <2>11
      <4>2. c + w = StartingCash + g - p
        BY <2>12
      <4> QED BY ONLY <3>3, <3>4, <4>1, <4>2
    <3> QED BY <3>5, <3>6
  <2> QED BY <1>1, <2>13 DEF Explained
<1> QED BY <1>10, <1>12, <1>13 DEF AccountInv

LEMMA AccountKept ==
    ASSUME AccountInv, UNCHANGED <<cash, book, fills>>
    PROVE  AccountInv'
<1>1. Worth' = Worth /\ Gains' = Gains /\ Paid' = Paid
  BY DEF Worth, Gains, Paid
<1>2. Explained' <=> Explained
  BY <1>1 DEF Explained
<1>3. \A s, k : Held(s, k)' = Held(s, k)
  BY DEF Held
<1>4. TurnedOver' <=> TurnedOver
  BY <1>3 DEF TurnedOver
<1>5. \A s \in Names : Held(s, Len(fills))' = Held(s, Len(fills))
  BY DEF Held
<1> QED BY <1>2, <1>4, <1>5 DEF AccountInv

LEMMA AccountStep ==
    LogInv /\ AccountInv /\ [TPNext]_tpvars /\ [AverageIsExact]_tpvars => AccountInv'
<1> SUFFICES ASSUME LogInv, AccountInv, [TPNext]_tpvars, [AverageIsExact]_tpvars
             PROVE  AccountInv'
  OBVIOUS
<1>1. CASE FillTicket
  <2>1. PICK lot \in Lots :
            PaperFill /\ FillOrder(call.symbol, call.side, lot.qty, lot.price, lot.thin)
    BY <1>1 DEF FillTicket
  <2>2. AverageIsExact
    <3>1. Len(fills') = Len(fills) + 1 /\ Len(fills) \in Nat
      BY <2>1, FillRecorded
    <3>2. fills' # fills
      BY <3>1
    <3> QED BY <3>2 DEF tpvars, pevars
  <2> QED BY <2>1, <2>2, FillKeepsAccount
<1>2. CASE ~ FillTicket
  <2>1. UNCHANGED <<cash, book, fills>>
    BY <1>2 DEF TPNext, tpvars, pevars, PortfolioValue
  <2> QED BY <2>1, AccountKept
<1> QED BY <1>1, <1>2

LEMMA AccountInit == TPInit => AccountInv
<1> SUFFICES ASSUME TPInit PROVE AccountInv
  OBVIOUS
<1>1. /\ cash = StartingCash /\ book = [s \in Names |-> Flat] /\ fills = <<>>
      /\ cash \in Int
  BY AccountAssumption DEF TPInit, PEInit
<1>2. Flat \in Positions /\ Flat.qty = 0 /\ Flat.avg = 0 /\ Flat.realized = 0
  BY DEF Flat, Positions
<1>3. Len(fills) = 0 /\ 1 .. 0 = {}
  BY <1>1
<1>4. \A s \in Names : Worth[s] = 0 /\ Gains[s] = 0
  BY <1>1, <1>2 DEF Worth, Gains
<1>5. Sum(Worth, Names) = Sum(Gains, Names)
  BY <1>4, SumAgrees, AccountAssumption
<1>6. Sum(Worth, Names) \in Int
  BY <1>4, SumTakes, AccountAssumption
<1>7. ASSUME NEW f PROVE Sum(f, 1 .. Len(fills)) = 0
  <2>1. Sum(f, {}) = 0
    BY SumStep, FS_EmptySet
  <2>2. 1 .. Len(fills) = {}
    BY <1>3
  <2> QED BY <2>1, <2>2, Zenon
<1>8. \A s \in Names : Held(s, Len(fills)) = 0
  <2> SUFFICES ASSUME NEW s \in Names PROVE Held(s, Len(fills)) = 0
    OBVIOUS
  <2> DEFINE m == Moved(fills, s, Len(fills))
  <2>1. Held(s, Len(fills)) = SumFunction(m) /\ DOMAIN m = 1 .. Len(fills)
    BY DEF Held, Moved
  <2> HIDE DEF m
  <2> QED BY <1>7, <2>1, SumOfFunction
<1>9. Explained
  BY <1>1, <1>5, <1>6, <1>7 DEF Explained
<1> QED BY <1>1, <1>2, <1>8, <1>9 DEF AccountInv

THEOREM AccountInvariant == TPSpec /\ [][AverageIsExact]_tpvars => []AccountInv
<1>1. TPInit => AccountInv
  BY AccountInit
<1>2. LogInv /\ AccountInv /\ [TPNext]_tpvars /\ [AverageIsExact]_tpvars => AccountInv'
  BY AccountStep
<1>3. TPSpec => []LogInv
  BY LogInvariant
<1> QED BY <1>1, <1>2, <1>3, PTL DEF TPSpec

\* As long as averages come out exact, the account explains its money, or some
\* fill turned a position over.
THEOREM AccountIsExplained == TPSpec /\ [][AverageIsExact]_tpvars => []BookExplained
<1>1. AccountInv => BookExplained
  BY ExplainedIsBook DEF AccountInv
<1> QED BY <1>1, AccountInvariant, PTL
=============================================================================
