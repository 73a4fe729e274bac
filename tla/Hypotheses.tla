----------------------------- MODULE Hypotheses -----------------------------
(***************************************************************************)
(* The register of research hypotheses (research/hypothesis_manager.py,    *)
(* database/repositories/knowledge.py).  Its routes (api/routers/          *)
(* research.py) run in threads, each in a transaction of its own that      *)
(* reads the last number of the year, and inserts and commits later.       *)
(***************************************************************************)
EXTENDS Integers, Sequences, FiniteSetsExt

CONSTANTS
    Requests,        \* the requests that may be under way at a time
    MaxHypotheses,   \* bound on the rows of the table
    Years            \* the years of an instance

ASSUME HypothesisAssumption ==
    MaxHypotheses \in Nat /\ Years \subseteq Nat /\ Years # {}

HypothesisStatuses ==
    {"PROPOSED", "TESTING", "VALIDATED", "REJECTED", "DEPLOYED", "ARCHIVED"}

VARIABLES
    table,       \* the rows in the order of their commits: year, number, status
    year,        \* the current year
    drafts       \* the row each request is about to insert, or an empty sequence

hypvars == <<table, year, drafts>>

HypothesisInit ==
    /\ table = <<>>
    /\ year = Min(Years)
    /\ drafts = [r \in Requests |-> <<>>]

\* max_sequence_for_year
LastNumber(y) ==
    Max({0} \cup {table[i].number : i \in {j \in DOMAIN table : table[j].year = y}})

\* create_hypothesis: the transaction has read the last number.
BeginHypothesis(r) ==
    /\ drafts[r] = <<>>
    /\ Len(table) < MaxHypotheses
    /\ drafts' = [drafts EXCEPT ![r] =
                    <<[year |-> year, number |-> LastNumber(year) + 1,
                       status |-> "PROPOSED"]>>]
    /\ UNCHANGED <<table, year>>

Taken(row) ==
    \E i \in DOMAIN table : table[i].year = row.year /\ table[i].number = row.number

FaultyInsertHypothesis(r) ==
    /\ drafts[r] # <<>>
    /\ table' = table \o drafts[r]
    /\ drafts' = [drafts EXCEPT ![r] = <<>>]
    /\ UNCHANGED year

\* The insert fails, and the request with it, when the identifier has been
\* taken since: uq_hyp_id.
InsertHypothesis(r) ==
    /\ drafts[r] # <<>>
    /\ table' = IF Taken(drafts[r][1]) THEN table ELSE table \o drafts[r]
    /\ drafts' = [drafts EXCEPT ![r] = <<>>]
    /\ UNCHANGED year

\* The database goes away: session_scope rolls back.
LoseHypothesis(r) ==
    /\ drafts[r] # <<>>
    /\ drafts' = [drafts EXCEPT ![r] = <<>>]
    /\ UNCHANGED <<table, year>>

\* update_status: any status may follow any other.
UpdateStatus(i, status) ==
    /\ table' = [table EXCEPT ![i].status = status]
    /\ UNCHANGED <<year, drafts>>

NewYear ==
    /\ year + 1 \in Years
    /\ year' = year + 1
    /\ UNCHANGED <<table, drafts>>

HypothesisNext ==
    \/ NewYear
    \/ \E r \in Requests : BeginHypothesis(r) \/ InsertHypothesis(r) \/ LoseHypothesis(r)
    \/ \E i \in DOMAIN table, status \in HypothesisStatuses : UpdateStatus(i, status)

HypothesisSpec == HypothesisInit /\ [][HypothesisNext]_hypvars
-----------------------------------------------------------------------------
(* Properties *)

\* The identifiers of a year are 1 to n, each once, in the order of their
\* commits: no race, failed request or turn of the year repeats a number or
\* leaves a gap, although a number is read long before it is inserted.
NumbersAreDense ==
    \A i \in DOMAIN table :
        table[i].number =
            Cardinality({j \in 1 .. i : table[j].year = table[i].year})
=============================================================================
