--------------------------------- MODULE Alerts ---------------------------------
(***************************************************************************)
(* The alerts of the monitoring manager                                    *)
(* (src/internal/monitoring/monitoring.go): rules with a cooldown, checked *)
(* on every tick of a 30-second ticker, and the history that the HTTP      *)
(* interface shows.  Rules may be added at any time, and a rule's          *)
(* condition may hold or not whenever it is asked.  A tick that comes      *)
(* while the last one has not been received is dropped, so checks may be   *)
(* late, but not early.                                                    *)
(***************************************************************************)
EXTENDS Naturals, Sequences, FiniteSets

CONSTANTS
    Cooldowns, \* bound: cooldowns of the rules, in ticks
    MaxRules,  \* bound: rules added
    MaxTicks,  \* bound: ticks of the clock
    Limit,     \* alerts that getAlerts asks for
    Never

VARIABLES
    clock,    \* now, in ticks
    tick,     \* a tick waits in the ticker's channel
    rules,    \* am.rules: [cooldown, last]
    history,  \* am.history: [rule, time]
    recent,   \* what getAlerts answered last
    stopped   \* mm.ctx is cancelled

alertVars == <<clock, tick, rules, history, recent, stopped>>

AlertInit ==
    /\ clock = 0 /\ tick = FALSE
    /\ rules = <<>> /\ history = <<>> /\ recent = <<>>
    /\ stopped = FALSE

\* LastAlert is the zero time until the first alert.
AddRule(cooldown) ==
    /\ Len(rules) < MaxRules
    /\ rules' = Append(rules, [cooldown |-> cooldown, last |-> Never])
    /\ UNCHANGED <<clock, tick, history, recent, stopped>>

Tick ==
    /\ clock < MaxTicks
    /\ clock' = clock + 1 /\ tick' = TRUE
    /\ UNCHANGED <<rules, history, recent, stopped>>

Cool(rule) == rule.last = Never \/ clock - rule.last >= rule.cooldown

\* Mutation: the copy of the rule that range made remembers the alert.
RulesAsBefore(fired) == rules

\* am.rules[i].LastAlert of the rules that raised an alert.
LastAlert(fired) ==
    [i \in 1 .. Len(rules) |-> IF i \in fired THEN [rules[i] EXCEPT !.last = clock] ELSE rules[i]]

\* checkAlerts and CheckRules, under the mutex.  Each rule that has cooled down and
\* whose condition holds raises an alert, in their order.  A channel that fails changes nothing.
CheckRules ==
    /\ tick /\ ~stopped
    /\ tick' = FALSE
    /\ \E fired \in SUBSET {i \in 1 .. Len(rules) : Cool(rules[i])} :
          /\ rules' = LastAlert(fired)
          /\ \E raised \in [1 .. Cardinality(fired) -> fired] :
                /\ \A i, j \in DOMAIN raised : i < j => raised[i] < raised[j]
                /\ history' = history \o
                      [i \in DOMAIN raised |-> [rule |-> raised[i], time |-> clock]]
    /\ UNCHANGED <<clock, recent, stopped>>

\* getAlerts and GetRecentAlerts
GetRecentAlerts ==
    /\ recent' = IF Len(history) <= Limit THEN history
                 ELSE SubSeq(history, Len(history) - Limit + 1, Len(history))
    /\ UNCHANGED <<clock, tick, rules, history, stopped>>

\* Stop: the loop ends.
StopMonitoring ==
    /\ ~stopped /\ stopped' = TRUE
    /\ UNCHANGED <<clock, tick, rules, history, recent>>

AlertNext ==
    \/ \E c \in Cooldowns : AddRule(c)
    \/ Tick \/ CheckRules \/ GetRecentAlerts \/ StopMonitoring

-----------------------------------------------------------------------------
(* Properties *)

AlertTypeOK ==
    /\ clock \in 0 .. MaxTicks /\ tick \in BOOLEAN /\ stopped \in BOOLEAN
    /\ \A i \in 1 .. Len(rules) :
          rules[i].cooldown \in Cooldowns /\ rules[i].last \in 0 .. clock \cup {Never}
    /\ \A h \in 1 .. Len(history) :
          history[h].rule \in 1 .. Len(rules) /\ history[h].time \in 0 .. clock
    /\ Len(recent) <= Limit

\* A rule does not raise an alert again before its cooldown is over, in the history
\* and in what of it is shown, which is in the order of the alerts.
CooldownKept ==
    \A shown \in {history, recent} : \A i, j \in 1 .. Len(shown) :
        i < j => /\ shown[i].time <= shown[j].time
                 /\ shown[i].rule = shown[j].rule =>
                       shown[j].time - shown[i].time >= rules[shown[i].rule].cooldown

=============================================================================
