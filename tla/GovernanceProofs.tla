-------------------------- MODULE GovernanceProofs --------------------------
(***************************************************************************)
(* Proofs about the approval registry, while calls are atomic and when     *)
(* they interleave, and about the gate in front of live capital together   *)
(* with the registry and the master mode behind it, for any strategies,    *)
(* people, roles they claim, amounts, times to live and bounds.            *)
(***************************************************************************)
EXTENDS LiveAuthorization, ConcurrentVoting, WellFoundedInduction, TLAPS

-----------------------------------------------------------------------------
(* The approval registry. *)

Logged(a, event) == \E k \in 1 .. Len(a) : a[k] = event

Signed(r) ==
    /\ \A d \in r.decisions : d.approved /\ d.approver.role # "SYSTEM"
    /\ \E d, e \in r.decisions :
          /\ d.approver.role = "RISK_OFFICER"
          /\ e.approver.role = "PORTFOLIO_OWNER"
          /\ d.approver.name # e.approver.name

\* What is true of a request and the events about it after every call: nobody
\* voted twice, and while it is open every vote approves and none decided it.
Sound(r, a) ==
    /\ \A d \in r.decisions : d.approved => d.approver.role # "SYSTEM"
    /\ \A d, e \in r.decisions : d.approver.name = e.approver.name => d = e
    /\ r.status = "PENDING" =>
          ~Logged(a, "approved") /\ \A d \in r.decisions : d.approved
    /\ Logged(a, "approved") => Signed(r)

\* The last event announces the status.
Explains(r, a) ==
    LET last == a[Len(a)]
    IN  /\ a # <<>>
        /\ r.status = "PENDING"  <=> last \in {"requested", "vote"}
        /\ r.status = "APPROVED" <=> last = "approved"
        /\ r.status = "REJECTED" <=> last = "rejected"
        /\ r.status = "EXPIRED"  <=> last = "expired"
        /\ r.status = "REVOKED"  <=> last = "revoked"

Ledger ==
    /\ records \in Seq(Records)
    /\ audit \in Seq(Seq(Events))
    /\ Len(audit) = Len(records)
    /\ now \in Nat

Registry ==
    \A i \in 1 .. Len(records) :
        Sound(records[i], audit[i]) /\ Explains(records[i], audit[i])

RegistryInv == Ledger /\ Registry
-----------------------------------------------------------------------------
(* Single requests. *)

LEMMA LoggedAppended ==
    ASSUME NEW a \in Seq(Events), NEW b \in Seq(Events), NEW event
    PROVE  Logged(a \o b, event) <=> Logged(a, event) \/ Logged(b, event)
<1>1. \A k \in 1 .. Len(a) : (a \o b)[k] = a[k] /\ k \in 1 .. Len(a \o b)
  OBVIOUS
<1>2. \A k \in 1 .. Len(b) :
         (a \o b)[Len(a) + k] = b[k] /\ Len(a) + k \in 1 .. Len(a \o b)
  OBVIOUS
<1>3. \A k \in 1 .. Len(a \o b) :
         k \in 1 .. Len(a) \/ (k - Len(a) \in 1 .. Len(b) /\ (a \o b)[k] = b[k - Len(a)])
  OBVIOUS
<1> QED BY <1>1, <1>2, <1>3 DEF Logged

LEMMA LoggedOnce ==
    ASSUME NEW x \in Events, NEW event
    PROVE  /\ Logged(<<x>>, event) <=> x = event
           /\ \A y \in Events : Logged(<<y, x>>, event) <=> y = event \/ x = event
BY DEF Logged

\* A call that ends a request and casts no vote keeps it sound.
LEMMA ClosedSound ==
    ASSUME NEW r \in Records, NEW q \in Records, NEW a \in Seq(Events),
           NEW event \in {"expired", "revoked"}, Sound(r, a),
           q.decisions = r.decisions,
           q.status = IF event = "expired" THEN "EXPIRED" ELSE "REVOKED"
    PROVE  Sound(q, a \o <<event>>) /\ Explains(q, a \o <<event>>)
<1>1. event \in Events /\ <<event>> \in Seq(Events)
  BY DEF Events
<1>2. Logged(a \o <<event>>, "approved") <=> Logged(a, "approved")
  BY <1>1, LoggedAppended, LoggedOnce
<1>3. (a \o <<event>>)[Len(a \o <<event>>)] = event /\ a \o <<event>> # <<>>
  BY <1>1
<1>4. Signed(q) <=> Signed(r)
  BY DEF Signed
<1>5. Sound(q, a \o <<event>>)
  BY <1>2, <1>4 DEF Sound
<1>6. Explains(q, a \o <<event>>)
  BY <1>3 DEF Explains
<1> QED BY <1>5, <1>6

LEMMA NewSound ==
    ASSUME NEW r \in Records, r.status = "PENDING", r.decisions = {}
    PROVE  Sound(r, <<"requested">>) /\ Explains(r, <<"requested">>)
<1>1. ~Logged(<<"requested">>, "approved")
  BY DEF Logged
<1> QED BY <1>1 DEF Sound, Explains

LEMMA LastAppended ==
    ASSUME NEW a \in Seq(Events), NEW b \in Seq(Events), b # <<>>
    PROVE  a \o b # <<>> /\ (a \o b)[Len(a \o b)] = b[Len(b)]
<1>1. Len(b) \in Nat \ {0}
  OBVIOUS
<1> QED BY <1>1

LEMMA EventsOfAVote ==
    ASSUME NEW r
    PROVE  \E v \in Seq(Events) :
              /\ VoteEvents(r) = v
              /\ v # <<>>
              /\ Logged(v, "approved") <=> r.status = "APPROVED"
              /\ v[Len(v)] = IF r.status = "REJECTED" THEN "rejected"
                             ELSE IF r.status = "APPROVED" THEN "approved" ELSE "vote"
<1>1. CASE r.status = "REJECTED"
  <2>1. VoteEvents(r) = <<"vote", "rejected">>
    BY <1>1 DEF VoteEvents
  <2>2. ~Logged(<<"vote", "rejected">>, "approved") /\ <<"vote", "rejected">> \in Seq(Events)
    BY LoggedOnce DEF Events
  <2> QED BY <1>1, <2>1, <2>2
<1>2. CASE r.status = "APPROVED"
  <2>1. VoteEvents(r) = <<"vote", "approved">>
    BY <1>2 DEF VoteEvents
  <2>2. Logged(<<"vote", "approved">>, "approved") /\ <<"vote", "approved">> \in Seq(Events)
    BY LoggedOnce DEF Events
  <2> QED BY <1>2, <2>1, <2>2
<1>3. CASE r.status \notin {"REJECTED", "APPROVED"}
  <2>1. VoteEvents(r) = <<"vote">>
    BY <1>3 DEF VoteEvents
  <2>2. ~Logged(<<"vote">>, "approved") /\ <<"vote">> \in Seq(Events)
    BY LoggedOnce DEF Events
  <2> QED BY <1>3, <2>1, <2>2
<1> QED BY <1>1, <1>2, <1>3

\* A vote that was let in keeps the request sound and logs what it did.
LEMMA VoteSound ==
    ASSUME NEW r \in Records, NEW a \in Seq(Events), Sound(r, a),
           NEW approver \in Approvers, NEW approved \in BOOLEAN,
           r.status = "PENDING", approved => approver.role # "SYSTEM",
           ~HasVoted(r, approver.name), now \in Nat
    PROVE  LET d == [approver |-> approver, approved |-> approved]
               q == Decide(r, d)
           IN  /\ q \in Records
               /\ VoteEvents(q) \in Seq(Events)
               /\ Sound(q, a \o VoteEvents(q))
               /\ Explains(q, a \o VoteEvents(q))
<1> DEFINE d == [approver |-> approver, approved |-> approved]
           q == Decide(r, d)
           b == a \o VoteEvents(q)
<1>1. d \in Decisions /\ d.approver = approver /\ d.approved = approved
  BY DEF Decisions
<1>2. /\ q \in Records
      /\ q.decisions = r.decisions \cup {d}
      /\ q.status = IF ~approved THEN "REJECTED"
                    ELSE IF MissingRoles(q) = {} THEN "APPROVED" ELSE "PENDING"
  <2> DEFINE voted == [r EXCEPT !.decisions = @ \cup {d}]
  <2>1. voted \in Records /\ voted.decisions = r.decisions \cup {d} /\ voted.status = "PENDING"
    BY <1>1 DEF Records, Decisions
  <2>2. MissingRoles(q) = MissingRoles(voted)
    BY <2>1 DEF Decide, MissingRoles, ApprovingRoles, Records
  <2> HIDE DEF voted
  <2>3. q = IF ~approved THEN [voted EXCEPT !.status = "REJECTED", !.resolved = now]
            ELSE IF MissingRoles(voted) = {}
            THEN [voted EXCEPT !.status = "APPROVED", !.resolved = now]
            ELSE voted
    BY <1>1 DEF Decide, voted
  <2> QED BY <2>1, <2>2, <2>3 DEF Records, Statuses
<1> HIDE DEF q, d
<1>3. \E v \in Seq(Events) :
         /\ VoteEvents(q) = v
         /\ v # <<>>
         /\ Logged(v, "approved") <=> q.status = "APPROVED"
         /\ v[Len(v)] = IF q.status = "REJECTED" THEN "rejected"
                        ELSE IF q.status = "APPROVED" THEN "approved" ELSE "vote"
  BY EventsOfAVote
<1>4. Logged(b, "approved") <=> q.status = "APPROVED"
  BY <1>3, LoggedAppended DEF Sound
<1>5. Explains(q, b)
  <2>1. /\ b # <<>>
        /\ b[Len(b)] = IF q.status = "REJECTED" THEN "rejected"
                       ELSE IF q.status = "APPROVED" THEN "approved" ELSE "vote"
    BY <1>3, LastAppended
  <2> QED BY <1>2, <2>1 DEF Explains
<1>6. \A e \in q.decisions : e.approved => e.approver.role # "SYSTEM"
  BY <1>1, <1>2 DEF Sound
<1>7. \A e, f \in q.decisions : e.approver.name = f.approver.name => e = f
  BY <1>1, <1>2 DEF Sound, HasVoted
<1>8. q.status = "APPROVED" => Signed(q)
  <2> SUFFICES ASSUME q.status = "APPROVED" PROVE Signed(q)
    OBVIOUS
  <2>1. approved /\ MissingRoles(q) = {}
    BY <1>2
  <2>2. \A e \in q.decisions : e.approved /\ e.approver.role # "SYSTEM"
    BY <1>1, <1>2, <1>6, <2>1 DEF Sound
  <2>3. RequiredRoles \subseteq ApprovingRoles(q)
    BY <2>1 DEF MissingRoles
  <2>4. PICK e \in q.decisions : e.approver.role = "RISK_OFFICER"
    BY <2>3 DEF RequiredRoles, ApprovingRoles
  <2>5. PICK f \in q.decisions : f.approver.role = "PORTFOLIO_OWNER"
    BY <2>3 DEF RequiredRoles, ApprovingRoles
  <2>6. e.approver.name # f.approver.name
    BY <1>7, <2>4, <2>5
  <2> QED BY <2>2, <2>4, <2>5, <2>6 DEF Signed
<1>9. q.status = "PENDING" => \A e \in q.decisions : e.approved
  BY <1>1, <1>2 DEF Sound
<1>10. Sound(q, b)
  BY <1>4, <1>6, <1>7, <1>8, <1>9 DEF Sound
<1> QED BY <1>2, <1>3, <1>5, <1>10 DEF q, d
-----------------------------------------------------------------------------
(* The ledger. *)

\* A call about one request leaves the ledger sound if it keeps that request so.
LEMMA OneRequest ==
    ASSUME RegistryInv, NEW i \in 1 .. Len(records), NEW q \in Records,
           NEW events \in Seq(Events),
           records' = [records EXCEPT ![i] = q],
           audit' = [audit EXCEPT ![i] = @ \o events],
           Sound(q, audit[i] \o events), Explains(q, audit[i] \o events),
           now' = now
    PROVE  RegistryInv'
<1>1. records \in Seq(Records) /\ audit \in Seq(Seq(Events)) /\ Len(audit) = Len(records)
  BY DEF RegistryInv, Ledger
<1>2. audit[i] \o events \in Seq(Events)
  BY <1>1
<1>3. Ledger'
  BY <1>1, <1>2 DEF RegistryInv, Ledger
<1>4. /\ Len(records') = Len(records)
      /\ \A j \in 1 .. Len(records) :
            /\ records'[j] = IF j = i THEN q ELSE records[j]
            /\ audit'[j] = IF j = i THEN audit[i] \o events ELSE audit[j]
  BY <1>1
<1>5. ASSUME NEW j \in 1 .. Len(records)
      PROVE  Sound(records'[j], audit'[j]) /\ Explains(records'[j], audit'[j])
  BY <1>4 DEF RegistryInv, Registry
<1>6. Registry'
  BY <1>4, <1>5 DEF Registry
<1> QED BY <1>3, <1>6 DEF RegistryInv

LEMMA RequestKeeps ==
    ASSUME RegistryInv, NEW s \in Subjects, Request(s)
    PROVE  RegistryInv'
<1> DEFINE r == NewRecord(s)
<1>1. records \in Seq(Records) /\ audit \in Seq(Seq(Events)) /\ Len(audit) = Len(records)
      /\ now \in Nat
  BY DEF RegistryInv, Ledger
<1>2. r \in Records /\ r.status = "PENDING" /\ r.decisions = {}
  BY <1>1 DEF NewRecord, Records, Statuses
<1> HIDE DEF r
<1>3. Sound(r, <<"requested">>) /\ Explains(r, <<"requested">>)
  BY <1>2, NewSound
<1>4. <<"requested">> \in Seq(Events)
  BY DEF Events
<1>5. records' = Append(records, r) /\ audit' = Append(audit, <<"requested">>) /\ now' = now
  BY DEF Request, r
<1>6. Ledger'
  BY <1>1, <1>2, <1>4, <1>5 DEF Ledger
<1>7. /\ Len(records') = Len(records) + 1
      /\ records'[Len(records) + 1] = r
      /\ audit'[Len(records) + 1] = <<"requested">>
      /\ \A j \in 1 .. Len(records) : records'[j] = records[j] /\ audit'[j] = audit[j]
  BY <1>1, <1>2, <1>4, <1>5
<1>8. \A j \in 1 .. Len(records') : j \in 1 .. Len(records) \/ j = Len(records) + 1
  BY <1>1, <1>7
<1>9. ASSUME NEW j \in 1 .. Len(records')
      PROVE  Sound(records'[j], audit'[j]) /\ Explains(records'[j], audit'[j])
  <2>1. CASE j \in 1 .. Len(records)
    BY <1>7, <2>1 DEF RegistryInv, Registry
  <2>2. CASE j = Len(records) + 1
    BY <1>3, <1>7, <2>2
  <2> QED BY <1>8, <2>1, <2>2
<1>10. Registry'
  BY <1>9 DEF Registry
<1> QED BY <1>6, <1>10 DEF RegistryInv

LEMMA VoteKeeps ==
    ASSUME RegistryInv, NEW i \in 1 .. Len(records), NEW approver \in Approvers,
           NEW approved \in BOOLEAN, Vote(i, approver, approved)
    PROVE  RegistryInv'
<1>1. records[i] \in Records /\ audit[i] \in Seq(Events) /\ now \in Nat
      /\ Sound(records[i], audit[i]) /\ now' = now
  BY DEF RegistryInv, Ledger, Registry, Vote
<1>2. CASE VoteTooLate(i)
  <2> DEFINE q == [records[i] EXCEPT !.status = "EXPIRED", !.resolved = now]
  <2>1. q \in Records /\ q.decisions = records[i].decisions /\ q.status = "EXPIRED"
    BY <1>1 DEF Records, Statuses
  <2>2. /\ records' = [records EXCEPT ![i] = q]
        /\ audit' = [audit EXCEPT ![i] = @ \o <<"expired">>]
    BY <1>1, <1>2 DEF VoteTooLate, Log, RegistryInv, Ledger
  <2> HIDE DEF q
  <2>3. Sound(q, audit[i] \o <<"expired">>) /\ Explains(q, audit[i] \o <<"expired">>)
    BY <1>1, <2>1, ClosedSound
  <2>4. <<"expired">> \in Seq(Events)
    BY DEF Events
  <2> QED BY <1>1, <2>1, <2>2, <2>3, <2>4, OneRequest
<1>3. CASE ~VoteTooLate(i)
  <2> DEFINE q == Decide(records[i], [approver |-> approver, approved |-> approved])
  <2>1. /\ records[i].status = "PENDING"
        /\ approved => approver.role # "SYSTEM"
        /\ ~HasVoted(records[i], approver.name)
        /\ records' = [records EXCEPT ![i] = q]
        /\ audit' = [audit EXCEPT ![i] = @ \o VoteEvents(q)]
    BY <1>3 DEF Vote, Log
  <2>2. /\ q \in Records
        /\ VoteEvents(q) \in Seq(Events)
        /\ Sound(q, audit[i] \o VoteEvents(q))
        /\ Explains(q, audit[i] \o VoteEvents(q))
    BY <1>1, <2>1, VoteSound
  <2> HIDE DEF q
  <2> QED BY <1>1, <2>1, <2>2, OneRequest
<1> QED BY <1>2, <1>3

LEMMA RevokeKeeps ==
    ASSUME RegistryInv, NEW i \in 1 .. Len(records), RevokeRequest(i)
    PROVE  RegistryInv'
<1>1. records[i] \in Records /\ audit[i] \in Seq(Events) /\ now \in Nat
      /\ Sound(records[i], audit[i]) /\ now' = now
  BY DEF RegistryInv, Ledger, Registry, RevokeRequest
<1> DEFINE q == [records[i] EXCEPT !.status = "REVOKED", !.resolved = now]
<1>2. q \in Records /\ q.decisions = records[i].decisions /\ q.status = "REVOKED"
  BY <1>1 DEF Records, Statuses
<1>3. /\ records' = [records EXCEPT ![i] = q]
      /\ audit' = [audit EXCEPT ![i] = @ \o <<"revoked">>]
  BY <1>1 DEF RevokeRequest, Log, RegistryInv, Ledger
<1> HIDE DEF q
<1>4. Sound(q, audit[i] \o <<"revoked">>) /\ Explains(q, audit[i] \o <<"revoked">>)
  BY <1>1, <1>2, ClosedSound
<1>5. <<"revoked">> \in Seq(Events)
  BY DEF Events
<1> QED BY <1>1, <1>2, <1>3, <1>4, <1>5, OneRequest

LEMMA SweepKeeps ==
    ASSUME RegistryInv, ExpireStale
    PROVE  RegistryInv'
<1> DEFINE q(i) == [records[i] EXCEPT !.status = "EXPIRED",
                                      !.resolved = IF @ = None THEN now ELSE @]
<1>1. records \in Seq(Records) /\ audit \in Seq(Seq(Events)) /\ Len(audit) = Len(records)
      /\ now \in Nat /\ now' = now
  BY DEF RegistryInv, Ledger, ExpireStale
<1>2. \A i \in 1 .. Len(records) :
         /\ q(i) \in Records
         /\ q(i).decisions = records[i].decisions
         /\ q(i).status = "EXPIRED"
  <2> SUFFICES ASSUME NEW i \in 1 .. Len(records)
               PROVE  /\ q(i) \in Records
                      /\ q(i).decisions = records[i].decisions
                      /\ q(i).status = "EXPIRED"
    OBVIOUS
  <2>1. records[i] \in Records
    BY <1>1
  <2>2. (IF records[i].resolved = None THEN now ELSE records[i].resolved) \in Nat \cup {None}
    BY <1>1, <2>1 DEF Records
  <2>3. q(i) = [records[i] EXCEPT !.status = "EXPIRED",
                   !.resolved = IF records[i].resolved = None THEN now
                                ELSE records[i].resolved]
    BY <2>1 DEF Records
  <2> QED BY <2>1, <2>2, <2>3 DEF Records, Statuses
<1>3. /\ records' = [i \in 1 .. Len(records) |->
                        IF i \in Stale THEN q(i) ELSE records[i]]
      /\ audit' = [i \in 1 .. Len(records) |->
                      IF i \in Stale THEN Append(audit[i], "expired") ELSE audit[i]]
  BY <1>1 DEF ExpireStale
<1> HIDE DEF q
<1>4. \A i \in 1 .. Len(records) :
         /\ audit[i] \in Seq(Events)
         /\ Append(audit[i], "expired") = audit[i] \o <<"expired">>
         /\ Append(audit[i], "expired") \in Seq(Events)
  BY <1>1 DEF Events
<1>5. Len(records) \in Nat
  BY <1>1
<1>6. records' \in Seq(Records) /\ Len(records') = Len(records)
  BY <1>1, <1>2, <1>3, <1>5
<1>7. audit' \in Seq(Seq(Events)) /\ Len(audit') = Len(records)
  <2>1. \A i \in 1 .. Len(records) : audit'[i] \in Seq(Events)
    BY <1>3, <1>4
  <2> QED BY <1>3, <1>5, <2>1
<1>8. ASSUME NEW i \in 1 .. Len(records)
      PROVE  Sound(records'[i], audit'[i]) /\ Explains(records'[i], audit'[i])
  <2>1. CASE i \in Stale
    <3>1. records'[i] = q(i) /\ audit'[i] = audit[i] \o <<"expired">>
      BY <1>3, <1>4, <2>1
    <3>2. Sound(records[i], audit[i]) /\ records[i] \in Records
      BY <1>1 DEF RegistryInv, Registry
    <3> QED BY <1>2, <1>4, <3>1, <3>2, ClosedSound
  <2>2. CASE i \notin Stale
    BY <1>3, <2>2 DEF RegistryInv, Registry
  <2> QED BY <2>1, <2>2
<1>9. Registry'
  BY <1>6, <1>8 DEF Registry
<1>10. Ledger'
  BY <1>1, <1>6, <1>7 DEF Ledger
<1> QED BY <1>9, <1>10 DEF RegistryInv

\* The ledger keeps its types and every request in it stays sound and explained
\* by the audit log: the invariant behind the two theorems that follow.
THEOREM RegistryInvariant == ARSpec => []RegistryInv
<1>1. ARInit => RegistryInv
  BY DEF ARInit, RegistryInv, Ledger, Registry
<1>2. RegistryInv /\ [ARNext]_arvars => RegistryInv'
  <2> SUFFICES ASSUME RegistryInv, [ARNext]_arvars PROVE RegistryInv'
    OBVIOUS
  <2>1. CASE Tick
    BY <2>1 DEF Tick, RegistryInv, Ledger, Registry
  <2>2. CASE \E s \in Subjects : Request(s)
    BY <2>2, RequestKeeps
  <2>3. CASE \E i \in 1 .. Len(records) : \E a \in Approvers, approved \in BOOLEAN :
                Vote(i, a, approved)
    BY <2>3, VoteKeeps
  <2>4. CASE \E i \in 1 .. Len(records) : RevokeRequest(i)
    BY <2>4, RevokeKeeps
  <2>5. CASE ExpireStale
    BY <2>5, SweepKeeps
  <2>6. CASE UNCHANGED arvars
    BY <2>6 DEF arvars, RegistryInv, Ledger, Registry
  <2> QED BY <2>1, <2>2, <2>3, <2>4, <2>5, <2>6 DEF ARNext
<1> QED BY <1>1, <1>2, PTL DEF ARSpec

\* Dual control, whoever asks, votes, revokes and however time passes: a request
\* ever approved was signed by two people in the two required roles.
THEOREM DualApproval == ARSpec => []DualControl
<1>1. RegistryInv => DualControl
  BY DEF RegistryInv, Registry, Sound, Signed, DualControl, EverApproved, Logged
<1> QED BY <1>1, RegistryInvariant, PTL

\* The audit log announces the status of every request.
THEOREM AuditedStatus == ARSpec => []AuditExplainsStatus
<1>1. RegistryInv => AuditExplainsStatus
  BY DEF RegistryInv, Registry, Explains, AuditExplainsStatus
<1> QED BY <1>1, RegistryInvariant, PTL
-----------------------------------------------------------------------------
(* Interleaved calls. *)

VoteCalls ==
    [request : Nat, stage : {"checked", "recorded"}, at : Nat, decision : Decisions]

RolesSigned(r) ==
    /\ "SYSTEM" \notin ApprovingRoles(r)
    /\ r.status = "APPROVED" => RequiredRoles \subseteq ApprovingRoles(r)

\* No call under way approves for the automated system.
RaceInv ==
    /\ records \in Seq(Records)
    /\ now \in Nat
    /\ calls \in [Threads -> {None} \cup VoteCalls]
    /\ \A t \in Threads : calls[t] # None =>
          /\ calls[t].request \in 1 .. Len(records)
          /\ calls[t].decision.approved => calls[t].decision.approver.role # "SYSTEM"
    /\ \A i \in 1 .. Len(records) : RolesSigned(records[i])

\* A step that changes one request and keeps its roles signed.
LEMMA RaceOneRequest ==
    ASSUME RaceInv, NEW i \in 1 .. Len(records), NEW q \in Records, RolesSigned(q),
           records' = [records EXCEPT ![i] = q]
    PROVE  /\ records' \in Seq(Records) /\ Len(records') = Len(records)
           /\ \A j \in 1 .. Len(records') : RolesSigned(records'[j])
<1>1. records \in Seq(Records)
  BY DEF RaceInv
<1>2. records' \in Seq(Records) /\ Len(records') = Len(records)
      /\ \A j \in 1 .. Len(records) : records'[j] = IF j = i THEN q ELSE records[j]
  BY <1>1
<1> QED BY <1>2 DEF RaceInv

\* A request whose votes stand and that is not approved now stays signed.
LEMMA SameVotes ==
    ASSUME NEW r, NEW q, RolesSigned(r), q.decisions = r.decisions,
           q.status # "APPROVED" \/ RequiredRoles \subseteq ApprovingRoles(r)
    PROVE  RolesSigned(q)
BY DEF RolesSigned, ApprovingRoles

LEMMA RaceStep ==
    ASSUME RaceInv, [CVNext]_cvvars
    PROVE  RaceInv'
<1> USE DEF RaceInv
<1>0. \A i \in 1 .. Len(records) : records[i] \in Records
  OBVIOUS
<1>1. ASSUME NEW t \in Threads, NEW i \in 1 .. Len(records), NEW a \in Approvers,
             NEW approved \in BOOLEAN, BeginVote(t, i, a, approved)
      PROVE  RaceInv'
  <2> DEFINE d == [approver |-> a, approved |-> approved]
             c == [request |-> i, stage |-> "checked", at |-> now, decision |-> d]
  <2>1. d \in Decisions /\ d.approved = approved /\ d.approver = a
    BY DEF Decisions
  <2>2. c \in VoteCalls /\ c.request = i /\ c.decision = d
    BY <2>1 DEF VoteCalls
  <2>3. calls' = [calls EXCEPT ![t] = c] /\ (approved => a.role # "SYSTEM")
        /\ UNCHANGED arvars
    BY <1>1 DEF BeginVote
  <2> HIDE DEF c, d
  <2> QED BY <2>1, <2>2, <2>3 DEF arvars
<1>2. ASSUME NEW t \in Threads, NEW i \in 1 .. Len(records), BeginVoteTooLate(t, i)
      PROVE  RaceInv'
  <2> DEFINE q == [records[i] EXCEPT !.status = "EXPIRED", !.resolved = now]
  <2>1. q \in Records /\ q.decisions = records[i].decisions /\ q.status = "EXPIRED"
    BY <1>0 DEF Records, Statuses
  <2>2. records' = [records EXCEPT ![i] = q] /\ UNCHANGED <<now, calls>>
    BY <1>0, <1>2 DEF BeginVoteTooLate, VoteTooLate
  <2> HIDE DEF q
  <2>3. RolesSigned(q)
    BY <2>1, SameVotes
  <2> QED BY <2>1, <2>2, <2>3, RaceOneRequest
<1>3. ASSUME NEW t \in Threads, RecordVote(t) PROVE RaceInv'
  <2> DEFINE i == calls[t].request
             d == calls[t].decision
             q == [records[i] EXCEPT !.decisions = @ \cup {d}]
  <2>1. calls[t] \in VoteCalls /\ i \in 1 .. Len(records) /\ d \in Decisions
        /\ (d.approved => d.approver.role # "SYSTEM")
    BY <1>3 DEF RecordVote, VoteCalls
  <2>2. q \in Records /\ q.decisions = records[i].decisions \cup {d}
        /\ q.status = records[i].status
    BY <1>0, <2>1 DEF Records
  <2>3. /\ records' = [records EXCEPT ![i] = q]
        /\ calls' = [calls EXCEPT ![t].stage = "recorded"]
        /\ now' = now
    BY <1>3, <2>1 DEF RecordVote
  <2>4. RolesSigned(q)
    <3>1. RolesSigned(records[i])
      BY <2>1
    <3>2. ApprovingRoles(records[i]) \subseteq ApprovingRoles(q)
      BY <2>2 DEF ApprovingRoles
    <3>3. \A e \in q.decisions : e.approved => e.approver.role # "SYSTEM"
      BY <2>1, <2>2, <3>1 DEF RolesSigned, ApprovingRoles
    <3> QED BY <2>2, <3>1, <3>2, <3>3 DEF RolesSigned, ApprovingRoles
  <2> HIDE DEF q
  <2>5. /\ calls' \in [Threads -> {None} \cup VoteCalls]
        /\ \A u \in Threads :
              /\ calls'[u] # None => calls[u] # None
              /\ calls'[u] # None => calls'[u].request = calls[u].request
              /\ calls'[u] # None => calls'[u].decision = calls[u].decision
    BY <1>3, <2>1, <2>3 DEF VoteCalls, RecordVote
  <2> QED BY <2>1, <2>2, <2>3, <2>4, <2>5, RaceOneRequest
<1>4. ASSUME NEW t \in Threads, ResolveVote(t) PROVE RaceInv'
  <2> DEFINE i == calls[t].request
             approved == calls[t].decision.approved
             q == [records[i] EXCEPT
                      !.status = IF approved THEN "APPROVED" ELSE "REJECTED",
                      !.resolved = calls[t].at]
  <2>1. calls[t] \in VoteCalls /\ i \in 1 .. Len(records) /\ calls[t].at \in Nat
    BY <1>4 DEF ResolveVote, VoteCalls
  <2>2. calls' = [calls EXCEPT ![t] = None] /\ now' = now
    BY <1>4 DEF ResolveVote
  <2>3. CASE Resolves(records[i], approved)
    <3>1. q \in Records /\ q.decisions = records[i].decisions
          /\ q.status = IF approved THEN "APPROVED" ELSE "REJECTED"
      BY <1>0, <2>1 DEF Records, Statuses
    <3>2. records' = [records EXCEPT ![i] = q]
      BY <1>4, <2>3 DEF ResolveVote
    <3>3. approved => RequiredRoles \subseteq ApprovingRoles(records[i])
      BY <2>3 DEF Resolves, MissingRoles
    <3>4. RolesSigned(records[i])
      BY <2>1
    <3> HIDE DEF q, approved, i
    <3>5. q.status # "APPROVED" \/ RequiredRoles \subseteq ApprovingRoles(records[i])
      BY <3>1, <3>3
    <3>6. RolesSigned(q)
      BY <3>1, <3>4, <3>5, SameVotes
    <3> QED BY <2>1, <2>2, <3>1, <3>2, <3>6, RaceOneRequest
  <2>4. CASE ~Resolves(records[i], approved)
    <3>1. records' = records
      BY <1>4, <2>4 DEF ResolveVote
    <3> QED BY <2>2, <3>1
  <2> QED BY <2>3, <2>4
<1>5. ASSUME NEW s \in Subjects, Request(s), UNCHANGED calls PROVE RaceInv'
  <2> DEFINE r == NewRecord(s)
  <2>1. r \in Records /\ RolesSigned(r)
    BY DEF NewRecord, Records, Statuses, RolesSigned, ApprovingRoles
  <2>2. records' = Append(records, r) /\ now' = now
    BY <1>5 DEF Request
  <2> HIDE DEF r
  <2>3. /\ records' \in Seq(Records) /\ Len(records') = Len(records) + 1
        /\ \A j \in 1 .. Len(records') :
              records'[j] = IF j = Len(records) + 1 THEN r ELSE records[j]
    BY <2>1, <2>2
  <2> QED BY <1>5, <2>1, <2>2, <2>3
<1>6. ASSUME NEW i \in 1 .. Len(records), RevokeRequest(i), UNCHANGED calls PROVE RaceInv'
  <2> DEFINE q == [records[i] EXCEPT !.status = "REVOKED", !.resolved = now]
  <2>1. q \in Records /\ q.decisions = records[i].decisions /\ q.status = "REVOKED"
    BY <1>0 DEF Records, Statuses
  <2>2. records' = [records EXCEPT ![i] = q] /\ now' = now
    BY <1>0, <1>6 DEF RevokeRequest
  <2> HIDE DEF q
  <2>3. RolesSigned(q)
    BY <2>1, SameVotes
  <2> QED BY <1>6, <2>1, <2>2, <2>3, RaceOneRequest
<1>7. ASSUME ExpireStale, UNCHANGED calls PROVE RaceInv'
  <2> DEFINE resolved(i) == IF records[i].resolved = None THEN now
                            ELSE records[i].resolved
             q(i) == [records[i] EXCEPT !.status = "EXPIRED", !.resolved = resolved(i)]
  <2>1. \A i \in 1 .. Len(records) : resolved(i) \in Nat \cup {None}
    BY <1>0 DEF Records
  <2> HIDE DEF resolved
  <2>2. \A i \in 1 .. Len(records) :
           /\ q(i) \in Records
           /\ q(i).decisions = records[i].decisions
           /\ q(i).status = "EXPIRED"
    BY <1>0, <2>1 DEF Records, Statuses
  <2>3. /\ records' = [i \in 1 .. Len(records) |->
                          IF i \in Stale THEN q(i) ELSE records[i]]
        /\ now' = now
    BY <1>0, <1>7 DEF ExpireStale, Records, resolved
  <2> HIDE DEF q
  <2>4. Len(records) \in Nat
    OBVIOUS
  <2>5. \A i \in 1 .. Len(records) :
           /\ records'[i] \in Records
           /\ RolesSigned(records'[i])
    BY <1>0, <2>2, <2>3, SameVotes
  <2>6. records' \in Seq(Records) /\ Len(records') = Len(records)
    BY <2>3, <2>4, <2>5
  <2> QED BY <1>7, <2>3, <2>5, <2>6
<1>8. ASSUME Tick, UNCHANGED calls PROVE RaceInv'
  BY <1>8 DEF Tick
<1>9. CASE UNCHANGED cvvars
  BY <1>9 DEF cvvars, arvars
<1> QED BY <1>1, <1>2, <1>3, <1>4, <1>5, <1>6, <1>7, <1>8, <1>9 DEF CVNext

\* However many handlers race through vote(), an approved request holds an
\* approval for each required role and none by the automated system.
THEOREM BothRoles == CVSpec => []BothRolesSigned
<1>1. CVInit => RaceInv
  BY DEF CVInit, ARInit, Idle, RaceInv
<1>2. RaceInv => BothRolesSigned
  BY DEF RaceInv, BothRolesSigned, RolesSigned
<1> QED BY <1>1, <1>2, RaceStep, PTL DEF CVSpec

-----------------------------------------------------------------------------
(* The gate in front of live capital. *)

\* An approval is given within the ttl of its request, an open request has no
\* resolution yet.
TimeBoxed(r) ==
    /\ r.status = "PENDING" => r.resolved = None
    /\ r.status = "APPROVED" =>
          r.resolved \in Nat /\ r.resolved <= r.created + ApprovalTtl

Grants == [approval : Nat, capital : Nat, at : Nat, revoked : BOOLEAN]

Evaluations ==
    [strategy : Subjects, capital : Nat, stage : {"reviewed", "looked_up"},
     granted : BOOLEAN, approval : Nat \cup {None}, at : Nat]

\* Request i of strategy s, once approved, may back a grant made at a time.
Backs(i, s, at) ==
    /\ i \in 1 .. Len(records)
    /\ records[i].subject = s
    /\ Logged(audit[i], "approved")
    /\ at <= records[i].created + 2 * ApprovalTtl

EvaluationInv ==
    evaluation # None =>
        /\ evaluation \in Evaluations
        /\ evaluation.granted => evaluation.capital \in 1 .. CapitalCap
        /\ evaluation.approval # None =>
              Backs(evaluation.approval, evaluation.strategy, evaluation.at)

GrantInv ==
    /\ issued \in [Subjects -> Grants \cup {None}]
    /\ \A s \in Subjects : issued[s] # None =>
          /\ issued[s].capital \in 1 .. CapitalCap
          /\ Backs(issued[s].approval, s, issued[s].at)

LAInv ==
    /\ RegistryInv
    /\ \A i \in 1 .. Len(records) : TimeBoxed(records[i])
    /\ EvaluationInv
    /\ GrantInv
-----------------------------------------------------------------------------
(* The registry moves on. *)

\* What becomes of a request: its subject and time of creation stand, what was
\* logged stays logged, and it remains time-boxed.
Later(r, a, q, b) ==
    /\ q.subject = r.subject
    /\ q.created = r.created
    /\ Logged(a, "approved") => Logged(b, "approved")
    /\ TimeBoxed(q)

Grows ==
    /\ Len(records) <= Len(records')
    /\ \A i \in 1 .. Len(records) :
          Later(records[i], audit[i], records'[i], audit'[i])
    /\ \A i \in 1 .. Len(records') :
          i \notin 1 .. Len(records) => TimeBoxed(records'[i])

LEMMA GrowsBacks ==
    ASSUME RegistryInv, Grows, NEW i, NEW s, NEW at, Backs(i, s, at)
    PROVE  Backs(i, s, at)'
<1>1. Len(records) \in Nat /\ Len(records') >= Len(records)
  BY DEF RegistryInv, Ledger, Grows
<1>2. i \in 1 .. Len(records)
  BY DEF Backs
<1> QED BY <1>1, <1>2 DEF Grows, Later, Backs

\* A step that changes one request, and logs something about it.
LEMMA OneGrows ==
    ASSUME RegistryInv, \A j \in 1 .. Len(records) : TimeBoxed(records[j]),
           NEW i \in 1 .. Len(records), NEW q \in Records,
           NEW events \in Seq(Events),
           q.subject = records[i].subject, q.created = records[i].created,
           TimeBoxed(q),
           records' = [records EXCEPT ![i] = q],
           audit' = [audit EXCEPT ![i] = @ \o events]
    PROVE  Grows
<1>1. records \in Seq(Records) /\ audit \in Seq(Seq(Events)) /\ Len(audit) = Len(records)
  BY DEF RegistryInv, Ledger
<1>2. /\ Len(records') = Len(records)
      /\ \A j \in 1 .. Len(records) :
            /\ records'[j] = IF j = i THEN q ELSE records[j]
            /\ audit'[j] = IF j = i THEN audit[i] \o events ELSE audit[j]
  BY <1>1
<1>3. Logged(audit[i], "approved") => Logged(audit[i] \o events, "approved")
  BY <1>1, LoggedAppended
<1>4. ASSUME NEW j \in 1 .. Len(records)
      PROVE  Later(records[j], audit[j], records'[j], audit'[j])
  BY <1>2, <1>3 DEF Later
<1> QED BY <1>1, <1>2, <1>4 DEF Grows

LEMMA RegistryGrows ==
    ASSUME RegistryInv, \A i \in 1 .. Len(records) : TimeBoxed(records[i]), ARNext
    PROVE  Grows
<1>1. records \in Seq(Records) /\ audit \in Seq(Seq(Events)) /\ Len(audit) = Len(records)
      /\ now \in Nat /\ Len(records) \in Nat
      /\ \A i \in 1 .. Len(records) : records[i] \in Records /\ audit[i] \in Seq(Events)
  BY DEF RegistryInv, Ledger
<1>2. CASE Tick
  BY <1>1, <1>2 DEF Tick, Grows, Later
<1>3. ASSUME NEW s \in Subjects, Request(s) PROVE Grows
  <2> DEFINE r == NewRecord(s)
  <2>1. r \in Records /\ TimeBoxed(r)
    BY <1>1 DEF NewRecord, Records, Statuses, TimeBoxed
  <2>2. records' = Append(records, r) /\ audit' = Append(audit, <<"requested">>)
    BY <1>3 DEF Request
  <2> HIDE DEF r
  <2>3. /\ Len(records') = Len(records) + 1
        /\ \A i \in 1 .. Len(records) : records'[i] = records[i] /\ audit'[i] = audit[i]
        /\ records'[Len(records) + 1] = r
    BY <1>1, <2>1, <2>2
  <2> QED BY <1>1, <2>1, <2>3 DEF Grows, Later
<1>4. ASSUME NEW i \in 1 .. Len(records), NEW a \in Approvers, NEW approved \in BOOLEAN,
             Vote(i, a, approved)
      PROVE  Grows
  <2>1. CASE VoteTooLate(i)
    <3> DEFINE q == [records[i] EXCEPT !.status = "EXPIRED", !.resolved = now]
    <3>1. q \in Records /\ q.subject = records[i].subject
          /\ q.created = records[i].created /\ TimeBoxed(q)
      BY <1>1 DEF Records, Statuses, TimeBoxed
    <3>2. /\ records' = [records EXCEPT ![i] = q]
          /\ audit' = [audit EXCEPT ![i] = @ \o <<"expired">>]
      BY <1>1, <2>1 DEF VoteTooLate, Log
    <3>3. <<"expired">> \in Seq(Events)
      BY DEF Events
    <3> HIDE DEF q
    <3> QED BY <3>1, <3>2, <3>3, OneGrows
  <2>2. CASE ~VoteTooLate(i)
    <3> DEFINE d == [approver |-> a, approved |-> approved]
               q == Decide(records[i], d)
    <3>1. /\ records[i].status = "PENDING" /\ ~IsExpired(records[i])
          /\ approved => a.role # "SYSTEM"
          /\ ~HasVoted(records[i], a.name)
          /\ records' = [records EXCEPT ![i] = q]
          /\ audit' = [audit EXCEPT ![i] = @ \o VoteEvents(q)]
      BY <1>4, <2>2 DEF Vote, Log
    <3>2. Sound(records[i], audit[i])
      BY DEF RegistryInv, Registry
    <3>3. q \in Records /\ VoteEvents(q) \in Seq(Events)
      BY <1>1, <3>1, <3>2, VoteSound
    <3>4. records[i].resolved = None /\ now <= records[i].created + ApprovalTtl
      BY <1>1, <3>1, TtlAssumption DEF TimeBoxed, IsExpired, Anchor, Records
    <3>5. /\ q.subject = records[i].subject /\ q.created = records[i].created
          /\ TimeBoxed(q)
      <4> DEFINE voted == [records[i] EXCEPT !.decisions = @ \cup {d}]
      <4>1. d \in Decisions /\ d.approved = approved
        BY DEF Decisions
      <4>2. /\ voted \in Records
            /\ voted.subject = records[i].subject /\ voted.created = records[i].created
            /\ voted.status = "PENDING" /\ voted.resolved = None
        BY <1>1, <3>1, <3>4, <4>1 DEF Records
      <4> HIDE DEF voted, d
      <4>3. q = IF ~approved
                THEN [voted EXCEPT !.status = "REJECTED", !.resolved = now]
                ELSE IF MissingRoles(voted) = {}
                THEN [voted EXCEPT !.status = "APPROVED", !.resolved = now]
                ELSE voted
        BY <4>1 DEF Decide, voted
      <4> HIDE DEF q
      <4>4. \/ q = voted
            \/ q = [voted EXCEPT !.status = "REJECTED", !.resolved = now]
            \/ q = [voted EXCEPT !.status = "APPROVED", !.resolved = now]
        BY <4>3
      <4>5. CASE q = voted
        BY <4>2, <4>5 DEF TimeBoxed
      <4>6. CASE q = [voted EXCEPT !.status = "REJECTED", !.resolved = now]
        BY <4>2, <4>6 DEF TimeBoxed, Records
      <4>7. CASE q = [voted EXCEPT !.status = "APPROVED", !.resolved = now]
        BY <1>1, <3>4, <4>2, <4>7 DEF TimeBoxed, Records
      <4> QED BY <4>4, <4>5, <4>6, <4>7
    <3> HIDE DEF q
    <3> QED BY <3>1, <3>3, <3>5, OneGrows
  <2> QED BY <2>1, <2>2
<1>5. ASSUME NEW i \in 1 .. Len(records), RevokeRequest(i) PROVE Grows
  <2> DEFINE q == [records[i] EXCEPT !.status = "REVOKED", !.resolved = now]
  <2>1. q \in Records /\ q.subject = records[i].subject
        /\ q.created = records[i].created /\ TimeBoxed(q)
    BY <1>1 DEF Records, Statuses, TimeBoxed
  <2>2. /\ records' = [records EXCEPT ![i] = q]
        /\ audit' = [audit EXCEPT ![i] = @ \o <<"revoked">>]
    BY <1>1, <1>5 DEF RevokeRequest, Log
  <2>3. <<"revoked">> \in Seq(Events)
    BY DEF Events
  <2> HIDE DEF q
  <2> QED BY <2>1, <2>2, <2>3, OneGrows
<1>6. CASE ExpireStale
  <2> DEFINE q(i) == [records[i] EXCEPT !.status = "EXPIRED",
                          !.resolved = IF @ = None THEN now ELSE @]
  <2>4. \A i \in 1 .. Len(records) :
           /\ q(i).subject = records[i].subject
           /\ q(i).created = records[i].created
           /\ q(i).status = "EXPIRED"
    BY <1>1 DEF Records
  <2>1. /\ records' = [i \in 1 .. Len(records) |->
                          IF i \in Stale THEN q(i) ELSE records[i]]
        /\ audit' = [i \in 1 .. Len(records) |->
                        IF i \in Stale THEN Append(audit[i], "expired") ELSE audit[i]]
    BY <1>1, <1>6 DEF ExpireStale
  <2> HIDE DEF q
  <2>3. Len(records') = Len(records)
    BY <1>1, <2>1
  <2>2. ASSUME NEW i \in 1 .. Len(records)
        PROVE  Later(records[i], audit[i], records'[i], audit'[i])
    <3>1. CASE i \in Stale
      <4>1. audit[i] \in Seq(Events) /\ "expired" \in Events
        BY <1>1 DEF Events
      <4>2. audit'[i] = audit[i] \o <<"expired">> /\ <<"expired">> \in Seq(Events)
        BY <2>1, <3>1, <4>1
      <4>3. Logged(audit[i], "approved") => Logged(audit[i] \o <<"expired">>, "approved")
        BY <4>1, <4>2, LoggedAppended
      <4>4. records'[i] = q(i)
        BY <2>1, <3>1
      <4> QED BY <2>4, <4>2, <4>3, <4>4 DEF Later, TimeBoxed
    <3>2. CASE i \notin Stale
      BY <2>1, <3>2 DEF Later
    <3> QED BY <3>1, <3>2
  <2> QED BY <1>1, <2>2, <2>3 DEF Grows
<1> QED BY <1>2, <1>3, <1>4, <1>5, <1>6 DEF ARNext

\* revoke() and revoke_all(): the newest valid approvals of some strategies end.
LEMMA WithdrawRegistry ==
    ASSUME RegistryInv, \A i \in 1 .. Len(records) : TimeBoxed(records[i]),
           NEW S, Withdraw(S)
    PROVE  RegistryInv' /\ Grows
<1> DEFINE backing == {LatestValid(s) : s \in S} \ {None}
           q(i) == [records[i] EXCEPT !.status = "REVOKED", !.resolved = now]
<1>1. records \in Seq(Records) /\ audit \in Seq(Seq(Events)) /\ Len(audit) = Len(records)
      /\ now \in Nat /\ Len(records) \in Nat
  BY DEF RegistryInv, Ledger
<1>2. \A i \in 1 .. Len(records) :
         /\ records[i] \in Records
         /\ audit[i] \in Seq(Events)
         /\ Sound(records[i], audit[i])
  BY <1>1 DEF RegistryInv, Registry
<1>3. \A i \in 1 .. Len(records) :
         /\ q(i) \in Records
         /\ q(i).decisions = records[i].decisions
         /\ q(i).subject = records[i].subject
         /\ q(i).created = records[i].created
         /\ q(i).status = "REVOKED"
  BY <1>1, <1>2 DEF Records, Statuses
<1>4. /\ records' = [i \in 1 .. Len(records) |-> IF i \in backing THEN q(i) ELSE records[i]]
      /\ audit' = [i \in 1 .. Len(records) |->
                      IF i \in backing THEN Append(audit[i], "revoked") ELSE audit[i]]
      /\ now' = now
  BY <1>1 DEF Withdraw
<1> HIDE DEF q, backing
<1>5. \A i \in 1 .. Len(records) :
         /\ Append(audit[i], "revoked") = audit[i] \o <<"revoked">>
         /\ Append(audit[i], "revoked") \in Seq(Events)
         /\ <<"revoked">> \in Seq(Events)
  BY <1>2 DEF Events
<1>6. records' \in Seq(Records) /\ Len(records') = Len(records)
  BY <1>1, <1>2, <1>3, <1>4
<1>7. audit' \in Seq(Seq(Events)) /\ Len(audit') = Len(records)
  <2>1. \A i \in 1 .. Len(records) : audit'[i] \in Seq(Events)
    BY <1>2, <1>4, <1>5
  <2> QED BY <1>1, <1>4, <2>1
<1>8. ASSUME NEW i \in 1 .. Len(records), i \in backing
      PROVE  /\ records'[i] = q(i)
             /\ audit'[i] = audit[i] \o <<"revoked">>
             /\ Sound(q(i), audit[i] \o <<"revoked">>)
             /\ Explains(q(i), audit[i] \o <<"revoked">>)
             /\ Logged(audit[i], "approved") =>
                   Logged(audit[i] \o <<"revoked">>, "approved")
  <2>1. records'[i] = q(i) /\ audit'[i] = audit[i] \o <<"revoked">>
    BY <1>4, <1>5, <1>8
  <2>2. Sound(q(i), audit[i] \o <<"revoked">>) /\ Explains(q(i), audit[i] \o <<"revoked">>)
    BY <1>2, <1>3, ClosedSound
  <2>3. Logged(audit[i], "approved") => Logged(audit[i] \o <<"revoked">>, "approved")
    BY <1>2, <1>5, LoggedAppended
  <2> QED BY <2>1, <2>2, <2>3
<1>9. ASSUME NEW i \in 1 .. Len(records), i \notin backing
      PROVE  records'[i] = records[i] /\ audit'[i] = audit[i]
  BY <1>4, <1>9
<1>10. Registry'
  <2> SUFFICES ASSUME NEW i \in 1 .. Len(records)
               PROVE  Sound(records'[i], audit'[i]) /\ Explains(records'[i], audit'[i])
    BY <1>6 DEF Registry
  <2>1. CASE i \in backing
    BY <1>8, <2>1
  <2>2. CASE i \notin backing
    BY <1>9, <2>2 DEF RegistryInv, Registry
  <2> QED BY <2>1, <2>2
<1>11. RegistryInv'
  BY <1>1, <1>4, <1>6, <1>7, <1>10 DEF RegistryInv, Ledger
<1>12. ASSUME NEW i \in 1 .. Len(records)
       PROVE  Later(records[i], audit[i], records'[i], audit'[i])
  <2>1. CASE i \in backing
    BY <1>3, <1>8, <2>1 DEF Later, TimeBoxed
  <2>2. CASE i \notin backing
    BY <1>9, <2>2 DEF Later
  <2> QED BY <2>1, <2>2
<1> QED BY <1>1, <1>6, <1>11, <1>12 DEF Grows
-----------------------------------------------------------------------------
(* The gate. *)

\* Of the requests there is a newest one.
LEMMA NewestExists ==
    ASSUME NEW n \in Nat, NEW T, T \subseteq 1 .. n, T # {}
    PROVE  \E i \in T : \A j \in T : j <= i
<1> DEFINE R == OpToRel(<, Nat)
           U == {n - i : i \in T}
<1>1. U \subseteq Nat /\ U # {}
  <2> HIDE DEF R
  <2>1. PICK i \in T : TRUE
    OBVIOUS
  <2>2. n - i \in U
    OBVIOUS
  <2>3. ASSUME NEW u \in U PROVE u \in Nat
    OBVIOUS
  <2> QED BY <2>2, <2>3
<1>2. IsWellFoundedOn(R, Nat)
  BY NatLessThanWellFounded
<1>3. \A x, y \in Nat : x < y => <<x, y>> \in R
  BY DEF OpToRel
<1> HIDE DEF R, U
<1>4. PICK u \in U : \A v \in U : ~(<<v, u>> \in R)
  BY <1>1, <1>2, WFMin
<1>5. PICK i \in T : u = n - i
  BY DEF U
<1>6. ASSUME NEW j \in T PROVE j <= i
  <2>1. n - j \in U
    BY DEF U
  <2>2. ~(n - j < u)
    BY <1>1, <1>3, <1>4, <2>1
  <2> QED BY <1>5, <2>2
<1> QED BY <1>6

\* What latest_valid returns was approved, and not longer ago than the ttl.
LEMMA LookUpBacks ==
    ASSUME LAInv, NEW s \in Subjects, LatestValid(s) # None
    PROVE  Backs(LatestValid(s), s, now)
<1> DEFINE valid == {i \in 1 .. Len(records) :
                        records[i].subject = s /\ IsValid(records[i])}
           n == CHOOSE i \in valid : \A j \in valid : j <= i
<1>1. records \in Seq(Records) /\ audit \in Seq(Seq(Events)) /\ Len(audit) = Len(records)
      /\ now \in Nat /\ Len(records) \in Nat
  BY DEF LAInv, RegistryInv, Ledger
<1>2. valid # {} /\ LatestValid(s) = n
  BY DEF LatestValid
<1>3. n \in valid
  <2>1. valid \subseteq 1 .. Len(records)
    OBVIOUS
  <2> HIDE DEF valid
  <2>2. \E i \in valid : \A j \in valid : j <= i
    BY <1>1, <1>2, <2>1, NewestExists
  <2> QED BY <2>2
<1> HIDE DEF n
<1>4. n \in 1 .. Len(records) /\ records[n].subject = s /\ IsValid(records[n])
  BY <1>3
<1> HIDE DEF valid
<1>5. records[n] \in Records /\ audit[n] \in Seq(Events) /\ TimeBoxed(records[n])
      /\ Explains(records[n], audit[n])
  BY <1>1, <1>4 DEF LAInv, RegistryInv, Registry
<1>6. Logged(audit[n], "approved")
  <2>1. audit[n] # <<>> /\ audit[n][Len(audit[n])] = "approved"
    BY <1>4, <1>5 DEF IsValid, Explains
  <2>2. Len(audit[n]) \in 1 .. Len(audit[n])
    BY <1>5, <2>1
  <2> QED BY <2>1, <2>2 DEF Logged
<1>7. now <= records[n].created + 2 * ApprovalTtl
  <2>1. records[n].resolved \in Nat
        /\ records[n].resolved <= records[n].created + ApprovalTtl
        /\ records[n].resolved # None /\ records[n].created \in Nat
    BY <1>4, <1>5, NoneAssumption DEF IsValid, TimeBoxed, Records
  <2>2. now <= records[n].resolved + ApprovalTtl
    BY <1>1, <1>4, <2>1, TtlAssumption DEF IsValid, IsExpired, Anchor
  <2> QED BY <1>1, <2>1, <2>2, TtlAssumption
<1> QED BY <1>2, <1>4, <1>6, <1>7 DEF Backs

LEMMA GrowsKeeps ==
    ASSUME LAInv, RegistryInv', Grows, UNCHANGED <<evaluation, issued>>
    PROVE  LAInv'
<1>1. EvaluationInv'
  BY GrowsBacks DEF LAInv, EvaluationInv
<1>2. GrantInv'
  BY GrowsBacks DEF LAInv, GrantInv
<1>3. \A i \in 1 .. Len(records') : TimeBoxed(records'[i])
  BY DEF LAInv, Grows, Later
<1> QED BY <1>1, <1>2, <1>3 DEF LAInv

LEMMA RegistryNextKeeps ==
    ASSUME RegistryInv, ARNext
    PROVE  RegistryInv'
<1>1. CASE Tick
  BY <1>1 DEF Tick, RegistryInv, Ledger, Registry
<1>2. CASE \E s \in Subjects : Request(s)
  BY <1>2, RequestKeeps
<1>3. CASE \E i \in 1 .. Len(records) : \E a \in Approvers, approved \in BOOLEAN :
              Vote(i, a, approved)
  BY <1>3, VoteKeeps
<1>4. CASE \E i \in 1 .. Len(records) : RevokeRequest(i)
  BY <1>4, RevokeKeeps
<1>5. CASE ExpireStale
  BY <1>5, SweepKeeps
<1> QED BY <1>1, <1>2, <1>3, <1>4, <1>5 DEF ARNext

\* The registry is left alone; so is what rests on it.
LEMMA BacksStands ==
    ASSUME NEW i, NEW s, NEW at, UNCHANGED arvars, Backs(i, s, at)
    PROVE  Backs(i, s, at)'
BY DEF arvars, Backs

LEMMA RegistryStands ==
    ASSUME LAInv, UNCHANGED arvars
    PROVE  RegistryInv' /\ \A i \in 1 .. Len(records') : TimeBoxed(records'[i])
BY DEF arvars, LAInv, RegistryInv, Ledger, Registry

LEMMA EvaluateKeeps ==
    ASSUME LAInv,
           \/ \E s \in Subjects, evidence \in SUBSET AutomatedItems,
                 complete \in BOOLEAN, capital \in Capitals :
                    BeginEvaluate(s, complete, evidence, capital)
           \/ LookUpApproval
           \/ FinishEvaluate
    PROVE  LAInv'
<1>1. UNCHANGED arvars /\ now \in Nat
  BY DEF BeginEvaluate, LookUpApproval, FinishEvaluate, LAInv, RegistryInv, Ledger
<1>2. RegistryInv' /\ \A i \in 1 .. Len(records') : TimeBoxed(records'[i])
  BY <1>1, RegistryStands
<1>3. ASSUME NEW s \in Subjects, NEW evidence \in SUBSET AutomatedItems,
             NEW complete \in BOOLEAN, NEW capital \in Capitals,
             BeginEvaluate(s, complete, evidence, capital)
      PROVE  LAInv'
  <2> DEFINE answers == Reviewed(checklist[s], evidence)
             ok == complete /\ Passed(answers) /\ CapitalWithinCap(capital)
             e == [strategy |-> s, capital |-> capital, stage |-> "reviewed",
                   granted |-> ok, approval |-> None, at |-> now]
  <2>1. evaluation' = e /\ issued' = issued
    BY <1>3 DEF BeginEvaluate
  <2>2. ok \in BOOLEAN /\ (ok => CapitalWithinCap(capital))
    BY DEF Passed, CapitalWithinCap
  <2> HIDE DEF ok
  <2>3. /\ e.strategy = s /\ e.capital = capital /\ e.granted = ok
        /\ e.approval = None /\ e.at = now
    OBVIOUS
  <2>4. capital \in Nat /\ (e.granted => capital \in 1 .. CapitalCap)
    <3>1. capital \in Nat /\ CapitalCap \in Nat
      BY GateAssumption
    <3>2. e.granted => CapitalWithinCap(capital)
      BY <2>2, <2>3, Zenon
    <3> HIDE DEF e
    <3>3. CapitalWithinCap(capital) => capital \in 1 .. CapitalCap
      BY <3>1 DEF CapitalWithinCap
    <3> QED BY <3>1, <3>2, <3>3
  <2>5. e \in Evaluations
    BY <1>1, <2>2, <2>4 DEF Evaluations
  <2> HIDE DEF e
  <2>6. EvaluationInv'
    BY <2>1, <2>3, <2>4, <2>5 DEF EvaluationInv
  <2>7. GrantInv'
    BY <1>1, <2>1, BacksStands DEF LAInv, GrantInv
  <2> QED BY <1>2, <2>6, <2>7 DEF LAInv
<1>4. CASE LookUpApproval
  <2> DEFINE e == [evaluation EXCEPT !.stage = "looked_up", !.at = now,
                       !.approval = LatestValid(evaluation.strategy)]
  <2>1. evaluation # None /\ evaluation \in Evaluations
        /\ evaluation' = e /\ issued' = issued
    BY <1>4 DEF LookUpApproval, LAInv, EvaluationInv
  <2> DEFINE s == evaluation.strategy
             n == LatestValid(s)
  <2>2. s \in Subjects
    BY <2>1 DEF Evaluations
  <2> HIDE DEF n
  <2>3. n # None => Backs(n, s, now)
    BY <2>2, LookUpBacks DEF n
  <2>4. n \in Nat \cup {None}
    BY <2>3 DEF Backs
  <2>5. /\ e \in Evaluations /\ e.strategy = s /\ e.approval = n /\ e.at = now
        /\ e.capital = evaluation.capital /\ e.granted = evaluation.granted
    BY <1>1, <2>1, <2>4 DEF Evaluations, n
  <2> HIDE DEF e, s
  <2>6. EvaluationInv'
    <3>1. e.approval # None => Backs(e.approval, e.strategy, e.at)
      BY <2>3, <2>5
    <3>2. e.granted => e.capital \in 1 .. CapitalCap
      BY <2>1, <2>5 DEF LAInv, EvaluationInv
    <3> QED BY <1>1, <2>1, <2>5, <3>1, <3>2, BacksStands DEF EvaluationInv
  <2>7. GrantInv'
    BY <1>1, <2>1, BacksStands DEF LAInv, GrantInv
  <2> QED BY <1>2, <2>6, <2>7 DEF LAInv
<1>5. CASE FinishEvaluate
  <2> DEFINE s == evaluation.strategy
             g == [approval |-> evaluation.approval, capital |-> evaluation.capital,
                   at |-> evaluation.at, revoked |-> FALSE]
  <2>1. evaluation # None /\ evaluation \in Evaluations /\ s \in Subjects
    BY <1>5 DEF FinishEvaluate, LAInv, EvaluationInv, Evaluations
  <2>2. EvaluationInv'
    BY <1>5 DEF FinishEvaluate, EvaluationInv
  <2>3. CASE Authorized(evaluation)
    <3>1. /\ evaluation.granted
          /\ evaluation.approval # None
      BY <2>3 DEF Authorized
    <3>2. /\ evaluation.capital \in 1 .. CapitalCap
          /\ Backs(evaluation.approval, s, evaluation.at)
      BY <2>1, <3>1 DEF LAInv, EvaluationInv
    <3>3. g \in Grants /\ g.approval = evaluation.approval /\ g.at = evaluation.at
          /\ g.capital = evaluation.capital
      BY <2>1, <3>1 DEF Grants, Evaluations
    <3>4. issued' = [issued EXCEPT ![s] = g]
      BY <1>5, <2>3 DEF FinishEvaluate
    <3>5. Backs(g.approval, s, g.at)
      BY <3>2, <3>3
    <3> HIDE DEF g, s
    <3>6. issued' \in [Subjects -> Grants \cup {None}]
          /\ \A t \in Subjects : issued'[t] = IF t = s THEN g ELSE issued[t]
      BY <2>1, <3>3, <3>4 DEF LAInv, GrantInv
    <3>7. ASSUME NEW t \in Subjects, issued'[t] # None
          PROVE  /\ issued'[t].capital \in 1 .. CapitalCap
                 /\ Backs(issued'[t].approval, t, issued'[t].at)
      BY <3>2, <3>3, <3>5, <3>6, <3>7 DEF LAInv, GrantInv
    <3>8. GrantInv'
      BY <1>1, <3>6, <3>7 DEF GrantInv, Backs, arvars
    <3> QED BY <1>2, <2>2, <3>8 DEF LAInv
  <2>4. CASE ~Authorized(evaluation)
    <3>1. issued' = issued
      BY <1>5, <2>4 DEF FinishEvaluate
    <3>2. GrantInv'
      BY <1>1, <3>1, BacksStands DEF LAInv, GrantInv
    <3> QED BY <1>2, <2>2, <3>2 DEF LAInv
  <2> QED BY <2>3, <2>4
<1> QED BY <1>3, <1>4, <1>5

LEMMA WithdrawKeeps ==
    ASSUME LAInv, NEW S, Withdraw(S)
    PROVE  LAInv'
<1>1. RegistryInv' /\ Grows
  BY WithdrawRegistry DEF LAInv
<1>2. evaluation' = evaluation
  BY DEF Withdraw
<1>3. EvaluationInv'
  BY <1>1, <1>2, GrowsBacks DEF LAInv, EvaluationInv
<1>4. /\ issued' \in [Subjects -> Grants \cup {None}]
      /\ \A s \in Subjects : issued'[s] # None =>
            /\ issued[s] # None
            /\ issued'[s].approval = issued[s].approval
            /\ issued'[s].capital = issued[s].capital
            /\ issued'[s].at = issued[s].at
  BY DEF Withdraw, LAInv, GrantInv, Grants
<1>5. GrantInv'
  BY <1>1, <1>4, GrowsBacks DEF LAInv, GrantInv
<1>6. \A i \in 1 .. Len(records') : TimeBoxed(records'[i])
  BY <1>1 DEF Grows, Later, LAInv
<1> QED BY <1>1, <1>3, <1>5, <1>6 DEF LAInv

\* A step that touches neither the registry nor the gate's own state.
LEMMA OthersKeep ==
    ASSUME LAInv, UNCHANGED <<arvars, evaluation, issued>>
    PROVE  LAInv'
<1>1. EvaluationInv'
  BY BacksStands DEF LAInv, EvaluationInv
<1>2. GrantInv'
  BY BacksStands DEF LAInv, GrantInv
<1> QED BY <1>1, <1>2, RegistryStands DEF LAInv

THEOREM GateInvariant == LASpec => []LAInv
<1>1. LAInit => LAInv
  <2> SUFFICES ASSUME LAInit PROVE LAInv
    OBVIOUS
  <2>1. RegistryInv /\ \A i \in 1 .. Len(records) : TimeBoxed(records[i])
    BY DEF LAInit, ARInit, RegistryInv, Ledger, Registry
  <2>2. EvaluationInv /\ GrantInv
    BY DEF LAInit, EvaluationInv, GrantInv
  <2> QED BY <2>1, <2>2 DEF LAInv
<1>2. LAInv /\ [LANext]_lavars => LAInv'
  <2> SUFFICES ASSUME LAInv, [LANext]_lavars PROVE LAInv'
    OBVIOUS
  <2>1. ASSUME NEW s \in Subjects, NEW item \in ManualItems, NEW satisfied \in BOOLEAN,
               Attest(s, item, satisfied)
        PROVE  LAInv'
    BY <2>1, OthersKeep DEF Attest
  <2>2. ASSUME NEW s \in Subjects, NEW evidence \in SUBSET AutomatedItems,
               RunRiskReview(s, evidence)
        PROVE  LAInv'
    BY <2>2, OthersKeep DEF RunRiskReview
  <2>3. CASE \/ \E s \in Subjects, evidence \in SUBSET AutomatedItems,
                   complete \in BOOLEAN, capital \in Capitals :
                      BeginEvaluate(s, complete, evidence, capital)
             \/ LookUpApproval
             \/ FinishEvaluate
    BY <2>3, EvaluateKeeps
  <2>4. ASSUME NEW s \in Subjects, RevokeGrant(s) PROVE LAInv'
    BY <2>4, WithdrawKeeps DEF RevokeGrant
  <2>5. CASE RevokeAll
    BY <2>5, WithdrawKeeps DEF RevokeAll
  <2>6. CASE ARNext /\ UNCHANGED <<ssvars, checklist, evaluation, issued>>
    <3>1. RegistryInv' /\ Grows
      BY <2>6, RegistryNextKeeps, RegistryGrows DEF LAInv
    <3> QED BY <2>6, <3>1, GrowsKeeps
  <2>7. CASE SSNext /\ UNCHANGED <<arvars, checklist, evaluation, issued>>
    BY <2>7, OthersKeep
  <2>8. CASE UNCHANGED lavars
    BY <2>8, OthersKeep DEF lavars
  <2> QED BY <2>1, <2>2, <2>3, <2>4, <2>5, <2>6, <2>7, <2>8 DEF LANext, GateNext
<1> QED BY <1>1, <1>2, PTL DEF LASpec

\* Every grant rests on a request for the same strategy that was approved, and
\* its capital respects a configured cap, whatever calls come between the steps
\* of the evaluation that issued it.
THEOREM BackedGrants == LASpec => []GrantsAreBacked
<1>1. LAInv => GrantsAreBacked
  BY DEF LAInv, GrantInv, Backs, GrantsAreBacked, EverApproved, Logged
<1> QED BY <1>1, GateInvariant, PTL

\* No grant can be used later than two approval ttls and its own after the
\* request behind it was made.
THEOREM TimeBoxedGrants == LASpec => []GrantLifetime
<1>1. LAInv => GrantLifetime
  <2> SUFFICES ASSUME LAInv, NEW s \in Subjects, Usable(s)
               PROVE  now <= records[issued[s].approval].created + 2 * ApprovalTtl + AuthTtl
    BY DEF GrantLifetime
  <2>1. issued[s] # None /\ now <= issued[s].at + AuthTtl
    BY DEF Usable, AuthIsValid
  <2>2. issued[s] \in Grants /\ Backs(issued[s].approval, s, issued[s].at)
    BY <2>1 DEF LAInv, GrantInv
  <2> DEFINE r == records[issued[s].approval]
  <2>3. r \in Records
    BY <2>2 DEF Backs, LAInv, RegistryInv, Ledger
  <2>4. r.created \in Nat /\ issued[s].at \in Nat /\ now \in Nat
        /\ issued[s].at <= r.created + 2 * ApprovalTtl
    BY <2>2, <2>3 DEF Records, Grants, Backs, LAInv, RegistryInv, Ledger
  <2> HIDE DEF r
  <2>5. now <= r.created + 2 * ApprovalTtl + AuthTtl
    BY <2>1, <2>4, TtlAssumption, GateAssumption
  <2> QED BY <2>5 DEF r
<1> QED BY <1>1, GateInvariant, PTL

\* Dual control and the audit log hold of the registry inside the gate too,
\* where grants are revoked together with the approvals behind them.
THEOREM RegistryInsideGate == LASpec => [](DualControl /\ AuditExplainsStatus)
<1>1. LAInv => DualControl
  BY DEF LAInv, RegistryInv, Registry, Sound, Signed, DualControl, EverApproved, Logged
<1>2. LAInv => AuditExplainsStatus
  BY DEF LAInv, RegistryInv, Registry, Explains, AuditExplainsStatus
<1> QED BY <1>1, <1>2, GateInvariant, PTL
=============================================================================
