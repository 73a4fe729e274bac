-------------------------- MODULE ConcurrentVoting --------------------------
(***************************************************************************)
(* vote() called by several request handlers at once.                      *)
(*                                                                         *)
(* The /governance routes are plain functions, which the server runs in a  *)
(* pool of threads, and ApprovalRegistry takes no lock.  A call of vote()  *)
(* therefore interleaves with the others between its checks, the append of *)
(* the decision and the resolution of the request.  The other methods stay *)
(* atomic.                                                                 *)
(***************************************************************************)
EXTENDS ApprovalRegistry

CONSTANT Threads    \* the threads of the server's pool

VARIABLE calls      \* for each thread the vote() it is in, or None

cvvars == <<arvars, calls>>

Idle == [t \in Threads |-> None]

CVInit == ARInit /\ calls = Idle

\* The four checks of vote(), passed; it has noted the time.
BeginVote(t, i, approver, approved) ==
    /\ calls[t] = None
    /\ records[i].status = "PENDING"
    /\ ~IsExpired(records[i])
    /\ approved => approver.role # "SYSTEM"
    /\ ~HasVoted(records[i], approver.name)
    /\ calls' = [calls EXCEPT ![t] =
                    [request |-> i, stage |-> "checked", at |-> now,
                     decision |-> [approver |-> approver, approved |-> approved]]]
    /\ UNCHANGED arvars

\* The request turned out too old: vote() marks it and raises.
BeginVoteTooLate(t, i) ==
    /\ calls[t] = None
    /\ records[i].status = "PENDING"
    /\ VoteTooLate(i)
    /\ UNCHANGED <<now, calls>>

\* The decision is appended and logged.
RecordVote(t) ==
    /\ calls[t] # None /\ calls[t].stage = "checked"
    /\ LET i == calls[t].request
       IN  /\ records' = [records EXCEPT ![i].decisions = @ \cup {calls[t].decision}]
           /\ Log(i, <<"vote">>)
    /\ calls' = [calls EXCEPT ![t].stage = "recorded"]
    /\ UNCHANGED now

\* A vote resolves its request if it rejects, or if no required role is missing
\* among the votes found at that point.
Resolves(r, approved) == ~approved \/ MissingRoles(r) = {}

\* The end of vote(): the status is written over whatever it has become, with
\* the time noted at the beginning.
ResolveVote(t) ==
    /\ calls[t] # None /\ calls[t].stage = "recorded"
    /\ LET i == calls[t].request
           outcome == IF calls[t].decision.approved THEN "APPROVED" ELSE "REJECTED"
           event == IF calls[t].decision.approved THEN "approved" ELSE "rejected"
       IN  IF Resolves(records[i], calls[t].decision.approved)
           THEN /\ records' = [records EXCEPT ![i].status = outcome,
                                              ![i].resolved = calls[t].at]
                /\ Log(i, <<event>>)
           ELSE UNCHANGED <<records, audit>>
    /\ calls' = [calls EXCEPT ![t] = None]
    /\ UNCHANGED now

CVNext ==
    \/ \E t \in Threads :
          \/ \E i \in 1 .. Len(records) :
                \/ \E a \in Approvers, approved \in BOOLEAN :
                      BeginVote(t, i, a, approved)
                \/ BeginVoteTooLate(t, i)
          \/ RecordVote(t)
          \/ ResolveVote(t)
    \/ \E s \in Subjects : Request(s) /\ UNCHANGED calls
    \/ \E i \in 1 .. Len(records) : RevokeRequest(i) /\ UNCHANGED calls
    \/ (Tick \/ ExpireStale) /\ UNCHANGED calls

CVSpec == CVInit /\ [][CVNext]_cvvars
-----------------------------------------------------------------------------
(* Properties *)

\* Even with handlers racing, a request is APPROVED only while its ledger holds
\* an approving vote for each required role and none by the automated system.
BothRolesSigned ==
    \A i \in 1 .. Len(records) : records[i].status = "APPROVED" =>
        /\ RequiredRoles \subseteq ApprovingRoles(records[i])
        /\ "SYSTEM" \notin ApprovingRoles(records[i])
=============================================================================
