-------------------------- MODULE ApprovalRegistry --------------------------
(***************************************************************************)
(* The ledger of approval requests (governance/approval_registry.py).      *)
(*                                                                         *)
(* A request is opened for a subject (a strategy and the action asked for, *)
(* taken together), gathers votes, and is resolved: APPROVED once both     *)
(* required roles have signed, REJECTED by the first rejecting vote,       *)
(* EXPIRED by age, REVOKED by an operator.  The methods are taken as       *)
(* atomic here, as when one thread uses the registry; the interleavings of *)
(* concurrent route handlers are the subject of ConcurrentVoting.          *)
(*                                                                         *)
(* Request ids are positions in the ledger.  Comments, reasons and the     *)
(* request context are left out.  audit groups the append-only log by      *)
(* request.  A call that raises without changing anything is not a step.   *)
(***************************************************************************)
EXTENDS Naturals, Sequences

CONSTANTS
    Subjects,       \* strategy/action pairs that approval is asked for
    Approvers,      \* the [name, role] pairs that may cast votes
    ApprovalTtl,    \* ttl_hours, in ticks of the clock
    MaxRequests,    \* bound on the number of requests
    MaxAudit,       \* bound on the audit entries of one request
    MaxTime,        \* bound on the clock
    None            \* Python's None

Roles == {"RISK_OFFICER", "PORTFOLIO_OWNER", "OPERATOR", "SYSTEM"}
RequiredRoles == {"RISK_OFFICER", "PORTFOLIO_OWNER"}

Statuses == {"PENDING", "APPROVED", "REJECTED", "EXPIRED", "REVOKED"}
Events == {"requested", "vote", "approved", "rejected", "expired", "revoked"}

ASSUME ApproversAssumption == \A a \in Approvers : a.role \in Roles
ASSUME TtlAssumption == ApprovalTtl \in Nat
ASSUME RegistryBounds ==
    MaxRequests \in Nat /\ MaxAudit \in Nat /\ MaxTime \in Nat
ASSUME NoneAssumption == None \notin Nat

VARIABLES
    records,    \* _records, in the order of _order
    audit,      \* _audit: for each request the events logged about it
    now         \* the wall clock

arvars == <<records, audit, now>>
-----------------------------------------------------------------------------
(* One request.  Definitions named Faulty... are not the code: each is a    *)
(* plausible bug in the definition after it, seeded to show that a property  *)
(* can fail.                                                                 *)

NewRecord(s) ==
    [subject |-> s, status |-> "PENDING", decisions |-> {},
     created |-> now, resolved |-> None]

ApprovingRoles(r) == {d.approver.role : d \in {e \in r.decisions : e.approved}}

MissingRoles(r) == RequiredRoles \ ApprovingRoles(r)

\* The age of a request counts from its resolution once it has one.
Anchor(r) == IF r.resolved = None THEN r.created ELSE r.resolved

IsExpired(r) == now > Anchor(r) + ApprovalTtl

IsValid(r) == r.status = "APPROVED" /\ ~IsExpired(r)

HasVoted(r, name) == \E d \in r.decisions : d.approver.name = name

\* latest_valid: the newest valid request for a subject, None if there is none.
LatestValid(s) ==
    LET valid == {i \in 1 .. Len(records) :
                     records[i].subject = s /\ IsValid(records[i])}
    IN  IF valid = {} THEN None
        ELSE CHOOSE i \in valid : \A j \in valid : j <= i
-----------------------------------------------------------------------------
(* The operations. *)

ARInit == records = <<>> /\ audit = <<>> /\ now = 0

Tick ==
    /\ now < MaxTime
    /\ now' = now + 1
    /\ UNCHANGED <<records, audit>>

Request(s) ==
    /\ Len(records) < MaxRequests
    /\ records' = Append(records, NewRecord(s))
    /\ audit' = Append(audit, <<"requested">>)
    /\ UNCHANGED now

Log(i, events) ==
    /\ Len(audit[i] \o events) <= MaxAudit
    /\ audit' = [audit EXCEPT ![i] = @ \o events]

\* A vote on a request that has outlived its ttl marks it EXPIRED and raises.
VoteTooLate(i) ==
    /\ IsExpired(records[i])
    /\ records' = [records EXCEPT ![i].status = "EXPIRED", ![i].resolved = now]
    /\ Log(i, <<"expired">>)

\* What a vote makes of a request once it has been accepted.
Decide(r, decision) ==
    LET voted == [r EXCEPT !.decisions = @ \cup {decision}]
    IN  IF ~decision.approved
        THEN [voted EXCEPT !.status = "REJECTED", !.resolved = now]
        ELSE IF MissingRoles(voted) = {}
        THEN [voted EXCEPT !.status = "APPROVED", !.resolved = now]
        ELSE voted

VoteEvents(r) ==
    CASE r.status = "REJECTED" -> <<"vote", "rejected">>
      [] r.status = "APPROVED" -> <<"vote", "approved">>
      [] OTHER                 -> <<"vote">>

FaultyVoteAllowsRepeat(i, approver, approved) ==
    /\ records[i].status = "PENDING"
    /\ \/ VoteTooLate(i)
       \/ /\ ~IsExpired(records[i])
          /\ approved => approver.role # "SYSTEM"
          /\ LET r == Decide(records[i],
                             [approver |-> approver, approved |-> approved])
             IN  /\ records' = [records EXCEPT ![i] = r]
                 /\ Log(i, VoteEvents(r))
    /\ UNCHANGED now

FaultyVoteKeepsNoRecord(i, approver, approved) ==
    /\ records[i].status = "PENDING"
    /\ \/ VoteTooLate(i)
       \/ /\ ~IsExpired(records[i])
          /\ approved => approver.role # "SYSTEM"
          /\ ~HasVoted(records[i], approver.name)
          /\ LET r == Decide(records[i],
                             [approver |-> approver, approved |-> approved])
             IN  /\ records' = [records EXCEPT ![i] = r]
                 /\ Log(i, <<"vote">>)
    /\ UNCHANGED now

\* vote(): the checks in the order of the code, then the vote itself.
Vote(i, approver, approved) ==
    /\ records[i].status = "PENDING"
    /\ \/ VoteTooLate(i)
       \/ /\ ~IsExpired(records[i])
          /\ approved => approver.role # "SYSTEM"
          /\ ~HasVoted(records[i], approver.name)
          /\ LET r == Decide(records[i],
                             [approver |-> approver, approved |-> approved])
             IN  /\ records' = [records EXCEPT ![i] = r]
                 /\ Log(i, VoteEvents(r))
    /\ UNCHANGED now

\* revoke(): whatever the status of the request is.
RevokeRequest(i) ==
    /\ records' = [records EXCEPT ![i].status = "REVOKED", ![i].resolved = now]
    /\ Log(i, <<"revoked">>)
    /\ UNCHANGED now

\* expire_stale(): every open or approved request past its ttl, in one sweep.
Stale == {i \in 1 .. Len(records) :
             records[i].status \in {"PENDING", "APPROVED"} /\ IsExpired(records[i])}

ExpireStale ==
    /\ Stale # {}
    /\ records' = [i \in 1 .. Len(records) |->
                      IF i \in Stale
                      THEN [records[i] EXCEPT !.status = "EXPIRED",
                                              !.resolved = IF @ = None THEN now ELSE @]
                      ELSE records[i]]
    /\ \A i \in Stale : Len(audit[i]) < MaxAudit
    /\ audit' = [i \in 1 .. Len(audit) |->
                    IF i \in Stale THEN Append(audit[i], "expired") ELSE audit[i]]
    /\ UNCHANGED now

ARNext ==
    \/ Tick
    \/ \E s \in Subjects : Request(s)
    \/ \E i \in 1 .. Len(records) :
          \/ \E a \in Approvers, approved \in BOOLEAN : Vote(i, a, approved)
          \/ RevokeRequest(i)
    \/ ExpireStale

ARSpec == ARInit /\ [][ARNext]_arvars
-----------------------------------------------------------------------------
(* Properties *)

Decisions == [approver : Approvers, approved : BOOLEAN]

Records ==
    [subject : Subjects, status : Statuses, decisions : SUBSET Decisions,
     created : Nat, resolved : Nat \cup {None}]

\* A request that was ever approved carries the sign-off of both required
\* roles given under two different names, no rejecting vote, and no vote of the
\* automated system, even after it was revoked or expired.
EverApproved(i) == \E k \in 1 .. Len(audit[i]) : audit[i][k] = "approved"

DualControl ==
    \A i \in 1 .. Len(records) : EverApproved(i) =>
        /\ \A d \in records[i].decisions : d.approved /\ d.approver.role # "SYSTEM"
        /\ \E d, e \in records[i].decisions :
              /\ d.approver.role = "RISK_OFFICER"
              /\ e.approver.role = "PORTFOLIO_OWNER"
              /\ d.approver.name # e.approver.name

\* The status of every request is the one its last audit event announces, so
\* the ledger can be rebuilt from the audit log.
AuditExplainsStatus ==
    \A i \in 1 .. Len(records) :
        LET last == audit[i][Len(audit[i])]
            s == records[i].status
        IN  /\ audit[i] # <<>>
            /\ s = "PENDING"  <=> last \in {"requested", "vote"}
            /\ s = "APPROVED" <=> last = "approved"
            /\ s = "REJECTED" <=> last = "rejected"
            /\ s = "EXPIRED"  <=> last = "expired"
            /\ s = "REVOKED"  <=> last = "revoked"
=============================================================================
