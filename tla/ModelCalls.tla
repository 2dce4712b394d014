----------------------------- MODULE ModelCalls -----------------------------
(***************************************************************************)
(* The cost guard around every call of a language model: call_llm checks   *)
(* the day's budget with an estimate, awaits the provider and records what *)
(* the answer cost.  The tracker lives in the process; nothing is recorded *)
(* for a call that raises.  Tasks are the report jobs of the process, each *)
(* of which awaits one call at a time.                                     *)
(*                                                                         *)
(* Costs are integers.  A day begins at midnight UTC for the clock and, in *)
(* the tracker, with the first look at it afterwards.                      *)
(***************************************************************************)
EXTENDS Integers, FiniteSets

CONSTANTS
    Tasks,        \* report jobs that call a model
    Estimates,    \* what a call may be estimated to cost
    Overrun,      \* by how much the answer may cost more than its estimate
    DailyCap,     \* daily_cost_cap_usd
    Days,         \* bound: midnights
    Restarts      \* bound: how often the server process may die

MaxEstimate == CHOOSE m \in Estimates : \A e \in Estimates : e <= m
MaxCost     == MaxEstimate + Overrun

ASSUME ModelCallsAssumption ==
    /\ IsFiniteSet(Tasks) /\ Tasks # {}
    /\ IsFiniteSet(Estimates) /\ Estimates # {} /\ Estimates \subseteq Nat
    /\ \E m \in Estimates : \A e \in Estimates : e <= m
    /\ Overrun \in Nat
    /\ DailyCap \in Nat \ {0}
    /\ Days \in Nat /\ Restarts \in Nat

VARIABLES
    key,        \* the active provider has a key
    today,      \* the clock's day
    last_reset, \* _last_reset: the tracker's day
    daily_cost, \* _daily_cost
    model_costs,\* _model_costs, of all models together
    call,       \* per task, the call it awaits
    answered,   \* history: what answers of this process cost today
    lifetime,   \* history: what answers of this process cost
    billed,     \* history: what the provider charged today
    causes,     \* history: what happened today that the guard cannot see
    restarts    \* how often the server process has died

ledger  == <<last_reset, daily_cost, model_costs>>
history == <<answered, lifetime, billed, causes>>
vars    == <<key, today, ledger, call, history, restarts>>

NoCall == [estimate |-> 0, sent |-> FALSE]

InFlight == {t \in Tasks : call[t].sent}

-----------------------------------------------------------------------------
(* _check_reset: the first look at the tracker of a new day empties the    *)
(* day's cost, and only that.                                              *)
CostToday == IF today = last_reset THEN daily_cost ELSE 0

CheckReset(cost) == last_reset' = today /\ daily_cost' = cost

(* Bugs: the estimate is not added; a projection at the cap is admitted.   *)
SpentWithinBudget(estimate) == CostToday <= DailyCap
UpToBudget(estimate) == CostToday + estimate <= DailyCap

(* check_budget.                                                           *)
WithinBudget(estimate) == CostToday + estimate < DailyCap

(* A bug: the day is not checked before the cost is added.                 *)
RecordUnchecked(cost) ==
    /\ CheckReset(daily_cost + cost)
    /\ model_costs' = model_costs + cost
    /\ answered' = answered + cost
    /\ lifetime' = lifetime + cost

(* record_cost, for today and for the model.                               *)
Record(cost) ==
    /\ CheckReset(CostToday + cost)
    /\ model_costs' = model_costs + cost
    /\ answered' = answered + cost
    /\ lifetime' = lifetime + cost

(* The charges of a day are only counted until they reach the cap.         *)
Charge(cost) == billed' = IF billed < DailyCap THEN billed + cost ELSE billed

Because(condition, cause) ==
    causes' = IF condition THEN causes \cup {cause} ELSE causes

-----------------------------------------------------------------------------
(* call_llm up to the await: the budget is checked, nothing is reserved.   *)
Send(t) ==
    /\ key
    /\ ~call[t].sent
    /\ \E estimate \in Estimates :
         /\ WithinBudget(estimate)
         /\ call' = [call EXCEPT ![t] = [estimate |-> estimate, sent |-> TRUE]]
    /\ CheckReset(CostToday)
    /\ Because(InFlight # {}, "overlap")
    /\ UNCHANGED <<key, today, model_costs, answered, lifetime, billed, restarts>>

(* CostCapExceededError, or TokenCapExceededError after it.                *)
Refuse(t) ==
    /\ ~call[t].sent
    /\ CheckReset(CostToday)
    /\ UNCHANGED <<key, today, model_costs, call, history, restarts>>

(* Without a key a deterministic answer is recorded at once, at the cost   *)
(* its text would have had; nothing is charged.                            *)
Fallback(t) ==
    /\ ~key
    /\ \E estimate \in Estimates : \E cost \in 0..(estimate + Overrun) :
         WithinBudget(estimate) /\ Record(cost)
    /\ UNCHANGED <<key, today, call, billed, causes, restarts>>

(* A bug: the estimate is given back, though it was never reserved.        *)
AnswerRefunded(t) ==
    /\ call[t].sent
    /\ \E cost \in 0..(call[t].estimate + Overrun) :
         /\ Record(cost - call[t].estimate)
         /\ Charge(cost)
         /\ Because(cost > call[t].estimate, "overrun")
    /\ call' = [call EXCEPT ![t] = NoCall]
    /\ UNCHANGED <<key, today, restarts>>

(* The provider answers; the tracker learns what it cost.                  *)
Answer(t) ==
    /\ call[t].sent
    /\ \E cost \in 0..(call[t].estimate + Overrun) :
         /\ Record(cost)
         /\ Charge(cost)
         /\ Because(cost > call[t].estimate, "overrun")
    /\ call' = [call EXCEPT ![t] = NoCall]
    /\ UNCHANGED <<key, today, restarts>>

(* The request raises, or the job is cancelled or times out: nothing is    *)
(* recorded, whatever the provider charges.                                *)
Lose(t) ==
    /\ call[t].sent
    /\ \E cost \in {0, call[t].estimate} :
         Charge(cost) /\ Because(cost > 0, "lost")
    /\ call' = [call EXCEPT ![t] = NoCall]
    /\ UNCHANGED <<key, today, ledger, answered, lifetime, restarts>>

(* A call in flight at midnight is recorded on a day whose budget never    *)
(* admitted it.                                                            *)
Midnight ==
    /\ today < Days
    /\ today' = today + 1
    /\ answered' = 0 /\ billed' = 0
    /\ causes' = IF InFlight # {} THEN {"midnight"} ELSE {}
    /\ UNCHANGED <<key, ledger, call, lifetime, restarts>>

(* GET /admin/cost reads the day's cost, which resets it.                  *)
ReadCost ==
    /\ CheckReset(CostToday)
    /\ UNCHANGED <<key, today, model_costs, call, history, restarts>>

(* The process dies, and the day's ledger with it.                         *)
Restart ==
    /\ restarts < Restarts
    /\ restarts' = restarts + 1
    /\ key' \in BOOLEAN
    /\ last_reset' = today /\ daily_cost' = 0 /\ model_costs' = 0
    /\ call' = [t \in Tasks |-> NoCall]
    /\ answered' = 0 /\ lifetime' = 0
    /\ \E cost \in {0, MaxCost * Cardinality(InFlight)} : Charge(cost)
    /\ Because(TRUE, "restart")
    /\ UNCHANGED today

Init ==
    /\ key \in BOOLEAN
    /\ today = 0 /\ last_reset = 0
    /\ daily_cost = 0 /\ model_costs = 0
    /\ call = [t \in Tasks |-> NoCall]
    /\ answered = 0 /\ lifetime = 0 /\ billed = 0 /\ causes = {}
    /\ restarts = 0

Next ==
    \/ Midnight \/ ReadCost \/ Restart
    \/ \E t \in Tasks : Send(t) \/ Refuse(t) \/ Fallback(t) \/ Answer(t) \/ Lose(t)

Spec == Init /\ [][Next]_vars

-----------------------------------------------------------------------------
(* Types.                                                                  *)
CostTypeOK ==
    /\ key \in BOOLEAN
    /\ today \in 0..Days
    /\ last_reset \in 0..today
    /\ daily_cost \in Nat /\ model_costs \in Nat
    /\ call \in [Tasks -> [estimate : Estimates \cup {0}, sent : BOOLEAN]]
    /\ answered \in Nat /\ lifetime \in Nat /\ billed \in Nat
    /\ causes \subseteq {"overlap", "overrun", "lost", "midnight", "restart"}
    /\ restarts \in 0..Restarts

(* The budget is checked before an await and charged after it, so calls in *)
(* flight together may pass the cap: by less than one call each.           *)
OvershootBounded ==
    CostToday + MaxCost * Cardinality(InFlight)
        < DailyCap + MaxCost * Cardinality(Tasks)

(* A day costs its cap or more only if the guard could not know: two calls *)
(* were in flight at once, an answer cost more than its estimate, a call   *)
(* was lost or recorded after midnight, or the process died.               *)
CapExplained == billed >= DailyCap => causes # {}

(* Both ledgers: the day's cost, reset lazily, is what today's answers     *)
(* cost; the breakdown by model is not reset and is what all answers of    *)
(* the process cost, although the screen shows the two side by side.       *)
LedgersAgree == CostToday = answered /\ model_costs = lifetime
=============================================================================
