----------------------- MODULE MixedCampaignInvariant -----------------------
(***************************************************************************)
(* The inductive invariant of MixedCampaign.  What an invocation publishes *)
(* is about rows it measured and rows it found; the invariant says of each *)
(* point of the loop how far the current database's rows have got, and     *)
(* where the evidence of this invocation's rows is.                        *)
(***************************************************************************)
EXTENDS MixedCampaign

Before == {"up", "wait", "preflight", "prepare"}

\* The process is at a database, and at one of its levels.
AtDatabase ==
    /\ pc \in Working \cup {"close"} => todo # <<>>
    /\ pc \in Working \ {"validate"} => level \in Level
    /\ pc # "off" => run > 0

\* Only a container is composed up.
LocalAtUp == pc = "up" => current \in Local

\* The rows of the current database are those of the levels so far.
RowsSoFar ==
    /\ pc \in Before \cup {"measure"} =>
         \A r \in rows : r.of.db = current => r.of.level < level
    /\ pc \in {"writeSummary", "writeOperations"} =>
         \A r \in rows : r.of.db = current => r.of.level <= level

OneRow(S) ==
    \A r, s \in S : r.of.db = s.of.db /\ r.of.level = s.of.level => r = s

\* No row is from an invocation to come.
NoRowAhead == \A r \in rows \cup files.summary : r.of.run <= run

\* The evidence of this invocation's rows is in the file or on its way there,
\* and in the file once the writer is closed.
EvidenceOnItsWay ==
    /\ pc # "off" => \A r \in rows :
         r.of.run = run /\ r.status = "complete" => r.of \in raw \cup buffered
    /\ pc \in {"rebuild", "manifest", "returned"} => buffered = {}

Indexed == pc \in {"manifest", "returned"} => \A e \in raw : e.fails => e \in files.errors

\* This invocation measured d, or is about to.
Fresh(d) ==
    \/ \E r \in rows : r.of.db = d /\ r.of.run = run
    \/ pc \in Working /\ d = current

Agree(d) ==
    {e \in opRows : e.db = d} =
        {r.of : r \in {x \in rows : x.of.db = d /\ x.status = "complete"}}

FreshAgree == pc # "off" => \A d \in Databases : Fresh(d) => Agree(d)

\* Only the current database's container runs, and none between databases; if
\* docker inspect tells the truth.
Isolated ==
    ~ InspectFails =>
        /\ pc = "next" => running = {}
        /\ pc \in Working \cup {"close"} => running \subseteq {current}

\* The inductive invariant.
CampaignInv ==
    /\ TypeOK
    /\ AtDatabase /\ LocalAtUp
    /\ RowsSoFar
    /\ OneRow(rows) /\ OneRow(files.summary)
    /\ NoRowAhead
    /\ EvidenceOnItsWay
    /\ Indexed
    /\ FreshAgree
    /\ Isolated
=============================================================================
