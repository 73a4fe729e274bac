------------------------- MODULE LiveAuthorization -------------------------
(***************************************************************************)
(* The gate in front of live capital (governance/live_authorization.py),   *)
(* with the risk-review checklist it consults (governance/risk_review.py), *)
(* the approval registry, the master mode and the routes that call them    *)
(* (api/routers/governance.py).                                            *)
(*                                                                         *)
(* Evaluating the gate is a route handler that runs beside the others: it  *)
(* reviews the checklist, then looks the approval up, then checks the kill *)
(* switch and issues the grant, and other handlers act between those       *)
(* steps.  One evaluation is in flight at a time.  Subjects are strategies *)
(* asking for PROMOTE_TO_LIVE.  The validation summary and the evidence    *)
(* are the caller's: any value may arrive.                                 *)
(***************************************************************************)
EXTENDS ApprovalRegistry, SystemState

CONSTANTS
    ManualItems,      \* the checklist items a human attests
    AutomatedItems,   \* the checklist items read from the evidence
    Capitals,         \* the amounts an evaluation may ask for
    CapitalCap,       \* max_capital_cap, 0 when it was never configured
    AuthTtl,          \* ttl_hours of a grant, in ticks of the clock
    EnvAuthorized     \* env_authorized(): LIVE_TRADING_AUTHORIZED is true

ASSUME GateAssumption ==
    /\ ManualItems \cap AutomatedItems = {}
    /\ Capitals \subseteq Nat
    /\ CapitalCap \in Nat
    /\ AuthTtl \in Nat
    /\ EnvAuthorized \in BOOLEAN

VARIABLES
    checklist,    \* _checklists: the answer to each item, for each strategy
    evaluation,   \* the evaluation in flight, or None
    issued        \* _issued: the latest grant of each strategy, or None

lavars == <<arvars, ssvars, checklist, evaluation, issued>>

Items == ManualItems \cup AutomatedItems
-----------------------------------------------------------------------------
(* The risk review. *)

Attest(s, item, satisfied) ==
    /\ item \in ManualItems
    /\ checklist' = [checklist EXCEPT ![s][item] = IF satisfied THEN "yes" ELSE "no"]
    /\ UNCHANGED <<arvars, ssvars, evaluation, issued>>

FaultyReviewed(answers, evidence) ==
    [item \in Items |->
        IF item \in evidence THEN "yes" ELSE answers[item]]

\* evaluate_automated(): the automated items are answered afresh.
Reviewed(answers, evidence) ==
    [item \in Items |->
        IF item \in ManualItems THEN answers[item]
        ELSE IF item \in evidence THEN "yes" ELSE "no"]

\* All the items are mandatory and an unanswered one blocks.
Passed(answers) == \A item \in Items : answers[item] = "yes"

RunRiskReview(s, evidence) ==
    /\ checklist' = [checklist EXCEPT ![s] = Reviewed(@, evidence)]
    /\ UNCHANGED <<arvars, ssvars, evaluation, issued>>
-----------------------------------------------------------------------------
(* The grant. *)

FaultyAuthIsValid(g) == g # None /\ ~g.revoked

\* is_valid() of a grant, None being no grant.
AuthIsValid(g) == g # None /\ ~g.revoked /\ now <= g.at + AuthTtl

\* require_authorization() returns a grant instead of raising.
Usable(s) == AuthIsValid(issued[s]) /\ EnvAuthorized /\ ~emergency

FaultyCapitalWithinCap(capital) == capital > 0 /\ CapitalCap > 0

CapitalWithinCap(capital) ==
    /\ capital > 0
    /\ CapitalCap > 0
    /\ capital <= CapitalCap

\* The route reviews the checklist and hands the result to the gate.  What
\* the caller sent and the review's result are settled here.
BeginEvaluate(s, complete, evidence, capital) ==
    /\ evaluation = None
    /\ LET answers == Reviewed(checklist[s], evidence)
       IN  /\ checklist' = [checklist EXCEPT ![s] = answers]
           /\ evaluation' =
                 [strategy |-> s, capital |-> capital, stage |-> "reviewed",
                  granted |-> complete /\ Passed(answers)
                                       /\ CapitalWithinCap(capital),
                  approval |-> None, at |-> now]
    /\ UNCHANGED <<arvars, ssvars, issued>>

\* evaluate() notes the time and looks up a valid approval.
LookUpApproval ==
    /\ evaluation # None /\ evaluation.stage = "reviewed"
    /\ evaluation' = [evaluation EXCEPT !.stage = "looked_up", !.at = now,
                          !.approval = LatestValid(evaluation.strategy)]
    /\ UNCHANGED <<arvars, ssvars, checklist, issued>>

\* Nothing was found missing.  A valid approval lacks no role (see DualControl).
Authorized(e) ==
    /\ e.granted
    /\ e.approval # None
    /\ EnvAuthorized
    /\ ~emergency

\* The rest of evaluate(): the stop is read, then a grant issued or denied.
FinishEvaluate ==
    /\ evaluation # None /\ evaluation.stage = "looked_up"
    /\ issued' = IF Authorized(evaluation)
                 THEN [issued EXCEPT ![evaluation.strategy] =
                          [approval |-> evaluation.approval,
                           capital |-> evaluation.capital,
                           at |-> evaluation.at, revoked |-> FALSE]]
                 ELSE issued
    /\ evaluation' = None
    /\ UNCHANGED <<arvars, ssvars, checklist>>

\* revoke() of each strategy of S: its grant and its newest valid approval.
Withdraw(S) ==
    LET backing == {LatestValid(s) : s \in S} \ {None}
    IN  /\ issued' = [s \in Subjects |->
                         IF s \in S /\ issued[s] # None
                         THEN [issued[s] EXCEPT !.revoked = TRUE] ELSE issued[s]]
        /\ records' = [i \in 1 .. Len(records) |->
                          IF i \in backing
                          THEN [records[i] EXCEPT !.status = "REVOKED", !.resolved = now]
                          ELSE records[i]]
        /\ \A i \in backing : Len(audit[i]) < MaxAudit
        /\ audit' = [i \in 1 .. Len(audit) |->
                        IF i \in backing THEN Append(audit[i], "revoked") ELSE audit[i]]
        /\ UNCHANGED <<now, ssvars, checklist, evaluation>>

RevokeGrant(s) == Withdraw({s})

Unrevoked == {s \in Subjects : issued[s] # None /\ ~issued[s].revoked}

RevokeAll == Unrevoked # {} /\ Withdraw(Unrevoked)
-----------------------------------------------------------------------------
LAInit ==
    /\ ARInit
    /\ SSInit
    /\ checklist = [s \in Subjects |-> [item \in Items |-> "unanswered"]]
    /\ evaluation = None
    /\ issued = [s \in Subjects |-> None]

GateNext ==
    \/ \E s \in Subjects, item \in ManualItems, satisfied \in BOOLEAN :
          Attest(s, item, satisfied)
    \/ \E s \in Subjects, evidence \in SUBSET AutomatedItems :
          \/ RunRiskReview(s, evidence)
          \/ \E complete \in BOOLEAN, capital \in Capitals :
                BeginEvaluate(s, complete, evidence, capital)
    \/ LookUpApproval
    \/ FinishEvaluate
    \/ \E s \in Subjects : RevokeGrant(s)
    \/ RevokeAll

LANext ==
    \/ GateNext
    \/ ARNext /\ UNCHANGED <<ssvars, checklist, evaluation, issued>>
    \/ SSNext /\ UNCHANGED <<arvars, checklist, evaluation, issued>>

LASpec == LAInit /\ [][LANext]_lavars
-----------------------------------------------------------------------------
(* Properties *)

\* Every grant rests on a request for the same strategy that was approved,
\* whatever has happened to that request since, and its capital respects a
\* configured cap.
GrantsAreBacked ==
    \A s \in Subjects : issued[s] # None =>
        /\ issued[s].approval \in 1 .. Len(records)
        /\ records[issued[s].approval].subject = s
        /\ EverApproved(issued[s].approval)
        /\ issued[s].capital \in 1 .. CapitalCap

\* No grant outlives the human decision behind it by more than the two ttls:
\* votes, use of the approval, and use of the grant are each time-boxed, and
\* the boxes follow on from one another.
GrantLifetime ==
    \A s \in Subjects : Usable(s) =>
        now <= records[issued[s].approval].created + 2 * ApprovalTtl + AuthTtl

\* The route that changes the mode says it refuses LIVE unless the gate is
\* satisfied.  transition_to() asks nobody.
LiveNeedsGrant ==
    [][mode # "LIVE" /\ mode' = "LIVE" => \E s \in Subjects : Usable(s)]_lavars
=============================================================================
