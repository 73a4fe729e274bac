---------------------------- MODULE SystemState ----------------------------
(***************************************************************************)
(* The master trading mode and the kill switch (core/system_state.py).     *)
(*                                                                         *)
(* SystemState is a process-wide singleton whose methods all hold one      *)
(* re-entrant lock, so each method is one atomic action.  The actions are  *)
(* called from the control-plane routes (/system/mode, /system/kill,       *)
(* /system/reset), from the risk engine's circuit breaker and from the     *)
(* paper loop.  A call that raises or returns early changes nothing and is *)
(* not a step.  The emergency reason, timestamps and actors are left out.  *)
(***************************************************************************)
EXTENDS Naturals, Sequences

CONSTANTS
    BootModes,    \* the values settings.TRADING_MODE may have at start-up
    MaxHistory    \* bound on the length of the audit trail

Modes == {"DISABLED", "RESEARCH", "BACKTEST", "PAPER", "SHADOW", "LIVE",
          "EMERGENCY_STOP"}

ASSUME BootAssumption == BootModes \subseteq Modes
ASSUME MaxHistoryAssumption == MaxHistory \in Nat \ {0}

VARIABLES
    mode,         \* _mode
    emergency,    \* _emergency
    history       \* _history: every transition, oldest first

ssvars == <<mode, emergency, history>>
-----------------------------------------------------------------------------
(* Definitions named Faulty... are not the code: each is a plausible bug in   *)
(* the definition after it, seeded to show that a property can fail.         *)
-----------------------------------------------------------------------------
\* _ALLOWED_TRANSITIONS.
Allowed ==
    [m \in Modes |->
        CASE m = "DISABLED"       -> {"RESEARCH", "BACKTEST", "PAPER"}
          [] m = "RESEARCH"       -> {"BACKTEST", "PAPER", "DISABLED"}
          [] m = "BACKTEST"       -> {"RESEARCH", "PAPER", "DISABLED"}
          [] m = "PAPER"          -> {"RESEARCH", "BACKTEST", "SHADOW", "DISABLED"}
          [] m = "SHADOW"         -> {"PAPER", "LIVE", "DISABLED"}
          [] m = "LIVE"           -> {"SHADOW", "PAPER"}
          [] m = "EMERGENCY_STOP" -> {"DISABLED"}]

TradingModes == {"PAPER", "SHADOW", "LIVE"}

IsTradingAllowed == ~emergency /\ mode \in TradingModes

Transition(from, to) == [from |-> from, to |-> to]

SSInit ==
    /\ mode \in BootModes
    /\ emergency = FALSE
    /\ history = <<Transition(mode, mode)>>

\* Every state change appends one audit record and moves the mode.
MoveTo(new) ==
    /\ Len(history) < MaxHistory
    /\ history' = Append(history, Transition(mode, new))
    /\ mode' = new

EngageEmergencyStop ==
    /\ MoveTo("EMERGENCY_STOP")
    /\ emergency' = TRUE

FaultyResetResumes ==
    /\ emergency
    /\ emergency' = FALSE
    /\ MoveTo(history[Len(history)].from)

FaultyResetUnrecorded ==
    /\ emergency
    /\ emergency' = FALSE
    /\ mode' = "DISABLED"
    /\ UNCHANGED history

ResetEmergencyStop ==
    /\ emergency
    /\ emergency' = FALSE
    /\ MoveTo("DISABLED")

FaultyTransitionIgnoresFlag(new) ==
    \/ new = "EMERGENCY_STOP" /\ EngageEmergencyStop
    \/ /\ new # mode
       /\ new \in Allowed[mode]
       /\ MoveTo(new)
       /\ UNCHANGED emergency

\* While the flag is set only DISABLED is accepted; EMERGENCY_STOP is handed
\* to engage_emergency_stop; anything else has to be an allowed transition.
TransitionTo(new) ==
    /\ emergency => new = "DISABLED"
    /\ \/ new = "EMERGENCY_STOP" /\ EngageEmergencyStop
       \/ /\ new # "EMERGENCY_STOP"
          /\ new # mode
          /\ new \in Allowed[mode]
          /\ MoveTo(new)
          /\ UNCHANGED emergency

SSNext ==
    \/ \E new \in Modes : TransitionTo(new)
    \/ EngageEmergencyStop
    \/ ResetEmergencyStop

SSSpec == SSInit /\ [][SSNext]_ssvars
-----------------------------------------------------------------------------
(* Properties *)

\* Type correctness of the mode, the flag and the audit trail.
SSTypeOK ==
    /\ mode \in Modes
    /\ emergency \in BOOLEAN
    /\ history \in Seq([from : Modes, to : Modes])
    /\ Len(history) \in 1 .. MaxHistory

\* The audit trail served by /system/history is complete: it starts at the
\* boot mode, every record starts where the one before it ended, and the last
\* one ends in the current mode, whichever mixture of transitions, stops and
\* resets was called.
AuditTrailFaithful ==
    /\ history[1].from = history[1].to
    /\ \A i \in 1 .. Len(history) - 1 : history[i + 1].from = history[i].to
    /\ history[Len(history)].to = mode

\* While the kill switch is engaged the mode is never one that trades, nor
\* one of the working modes: transition_to may at most park it in DISABLED.
StopConfinesMode == emergency => mode \in {"EMERGENCY_STOP", "DISABLED"}

\* Modes at the bottom of the promotion ladder.
BelowPaper == Modes \ {"PAPER", "SHADOW", "LIVE"}

\* No promotion stage is ever skipped: between a record that ends below PAPER
\* and a later record that ends in SHADOW or LIVE the system was in PAPER,
\* and before LIVE it was in SHADOW after that.
LadderClimbed ==
    \A i, j \in 1 .. Len(history) :
        (i < j /\ history[i].to \in BelowPaper) =>
            /\ history[j].to \in {"SHADOW", "LIVE"} =>
                   \E k \in i + 1 .. j - 1 : history[k].to = "PAPER"
            /\ history[j].to = "LIVE" =>
                   \E k, l \in i + 1 .. j - 1 :
                       /\ k < l
                       /\ history[k].to = "PAPER"
                       /\ history[l].to = "SHADOW"

KS == INSTANCE KillSwitch WITH tripped <- emergency, trading <- IsTradingAllowed

\* The mode machine implements the abstract kill switch: a stop turns trading
\* off at once, nothing but a reset ends it, and a reset never resumes trading.
ImplementsKillSwitch == KS!KSSpec
=============================================================================
