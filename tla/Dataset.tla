------------------------------ MODULE Dataset ------------------------------
(***************************************************************************)
(* Preparation and verification of the wiki-Vote files                     *)
(* (graphbench/datasets/wiki_vote.py), one step per file written.  A file  *)
(* is truncated when it is opened and complete when it is closed; the      *)
(* process may be killed at any point and the command given again, perhaps *)
(* with another seed in the configuration.                                 *)
(***************************************************************************)
EXTENDS Integers

CONSTANTS
    Missing,        \* a file that is not there
    Empty,          \* a small JSON file cut short: it does not parse
    Seeds,          \* the seeds the configuration may have
    NumNodes,       \* rows of a complete nodes.csv
    NumEdges,       \* rows of a complete relationships.csv
    MinEdges        \* the least number of relationships verify accepts

ASSUME CountsAssumption ==
    /\ NumNodes \in Nat \ {0} /\ MinEdges \in Nat
    /\ NumEdges \in Nat \ {0} /\ MinEdges <= NumEdges

VARIABLES
    pc,         \* where the process is; "off": it is not running
    command,    \* the command it was given
    seed,       \* the seed of the configuration
    opened,     \* the file of this pc is open: truncated and not yet complete
    files,      \* the files beneath the data directory
    result      \* how the last command ended

vars == <<pc, command, seed, opened, files, result>>

\* A CSV file: how many of its rows can be read, and how it ends.  Behind a
\* whole row; in a line that stops before its comma ("ragged"); in one that
\* is no row, or no header ("lost": the bucket is another, the target is no
\* number or no node); in a row whose target has lost digits and is the id of
\* another node ("other").
Table(n) == [rows : 0..n, end : {"whole", "ragged", "lost", "other"}]
Whole(n) == [rows |-> n, end |-> "whole"]

\* Any part of it, from the beginning.
Prefixes(f, n) ==
    {t \in Table(n) : /\ t.end \in {"ragged", "lost"} => t.rows < n
                      /\ t.end = "other" => f = "relationships" /\ t.rows > 0}

Fixture == {"start_nodes", "lookup_ids"}

Metadata == [seed : Seeds, nodes : 0..NumNodes, edges : 0..NumEdges, checksum : {"whole", "short"}]

Content ==
    [raw           |-> {Missing, "whole", "short"},
     nodes         |-> {Missing} \cup Table(NumNodes),
     relationships |-> {Missing} \cup Table(NumEdges),
     start_nodes   |-> {Missing, Empty} \cup Seeds,
     lookup_ids    |-> {Missing, Empty} \cup Seeds,
     buckets       |-> {Missing, Empty, "whole"},
     metadata      |-> {Missing, Empty} \cup Metadata]

Files == DOMAIN Content

\* What stands for an absent or an empty file is no content of a file.
ASSUME MarkersAssumption ==
    /\ Missing # Empty
    /\ \A m \in {Missing, Empty} :
          /\ m \notin Seeds /\ m \notin {"whole", "short"} /\ m \notin Metadata
          /\ m \notin Table(NumNodes) /\ m \notin Table(NumEdges)

\* What prepare writes to each file, and what is there while it is open.
Final(f) ==
    CASE f = "nodes"         -> Whole(NumNodes)
      [] f = "relationships" -> Whole(NumEdges)
      [] f \in Fixture       -> seed
      [] f = "buckets"       -> "whole"
      [] f = "metadata"      -> [seed |-> seed, nodes |-> NumNodes, edges |-> NumEdges,
                                 checksum |-> files.raw]

Truncated(f) ==
    CASE f = "nodes"         -> Prefixes(f, NumNodes)
      [] f = "relationships" -> Prefixes(f, NumEdges)
      [] OTHER               -> {Empty}

\* The files prepare writes, in its order; "final" is the verification after.
After == [nodes |-> "relationships", relationships |-> "start_nodes",
          start_nodes |-> "lookup_ids", lookup_ids |-> "buckets",
          buckets |-> "metadata", metadata |-> "final"]
Written == DOMAIN After

\* The data directory before any preparation, and as a clone of the
\* repository has it: everything but the download.
Fresh == [f \in Files |-> Missing]
Clone(s) ==
    [raw |-> Missing, nodes |-> Whole(NumNodes), relationships |-> Whole(NumEdges),
     start_nodes |-> s, lookup_ids |-> s, buckets |-> "whole",
     metadata |-> [seed |-> s, nodes |-> NumNodes, edges |-> NumEdges, checksum |-> "whole"]]

Init ==
    /\ pc = "off" /\ command = "none" /\ opened = FALSE /\ result = "none"
    /\ seed \in Seeds
    /\ files \in {Fresh} \cup {Clone(s) : s \in Seeds}

-----------------------------------------------------------------------------
(* verify                                                                  *)

Complete == \A f \in Written : files[f] # Missing

\* int() of the second column that is not there: a TypeError, which no
\* handler of verify turns into a DatasetError.
Breaks ==
    /\ Complete
    /\ \/ files.nodes.end = "ragged"
       \/ files.nodes.end = "whole" /\ files.relationships.end = "ragged"

\* Mutant: only the metadata's presence is looked at.
CountsOfMetadata == files.metadata.nodes = NumNodes /\ files.metadata.edges = NumEdges

CountsAgree ==
    /\ files.metadata.nodes = files.nodes.rows
    /\ files.metadata.edges = files.relationships.rows

\* A fixture is only compared with the nodes it must be among, and every
\* seed's fixture is among those of a complete source.
FixturesUsable == files.buckets # Empty /\ \A f \in Fixture : files[f] # Empty

Accepts ==
    /\ Complete
    /\ files.nodes.end = "whole" /\ files.relationships.end \in {"whole", "other"}
    /\ files.relationships.rows >= MinEdges
    /\ files.metadata # Empty
    /\ CountsAgree
    /\ files.metadata.seed = seed
    /\ files.raw # Missing => files.metadata.checksum = files.raw
    /\ FixturesUsable

End(r) == pc' = "off" /\ result' = r

Verify ==
    /\ pc = "verify"
    /\ \/ Accepts /\ End("ready")
       \/ Breaks /\ End("TypeError")
       \/ /\ ~Accepts /\ ~Breaks
          /\ IF command = "verify"
             THEN End("DatasetError")
             ELSE /\ pc' = IF files.raw = Missing THEN "download" ELSE "source"
                  /\ UNCHANGED result
    /\ UNCHANGED <<command, seed, opened, files>>

VerifyAtTheEnd ==
    /\ pc = "final"
    /\ IF Accepts THEN End("ready") ELSE End(IF Breaks THEN "TypeError" ELSE "DatasetError")
    /\ UNCHANGED <<command, seed, opened, files>>

-----------------------------------------------------------------------------
(* prepare                                                                 *)

Start(c) ==
    /\ pc = "off"
    /\ pc' = "verify" /\ command' = c /\ result' = "none"
    /\ UNCHANGED <<seed, opened, files>>

\* Into a temporary file that replaces the raw one at the end of the answer,
\* for which copyfileobj may take a lost connection.
Download ==
    /\ pc = "download"
    /\ \E r \in {"whole", "short"} : files' = [files EXCEPT !.raw = r]
    /\ pc' = "source"
    /\ UNCHANGED <<command, seed, opened, result>>

DownloadFails ==
    /\ pc = "download"
    /\ End("URLError")
    /\ UNCHANGED <<command, seed, opened, files>>

\* Mutant: a stream that stops short is taken for its end.
ReadSourceToTheCut ==
    /\ pc = "source"
    /\ pc' = "nodes"
    /\ UNCHANGED <<command, seed, opened, files, result>>

\* Mutant: tables that are there already are not written again.
ReadSourceKeepingTables ==
    /\ pc = "source"
    /\ IF files.raw = "whole"
       THEN /\ pc' = IF Missing \in {files.nodes, files.relationships} THEN "nodes" ELSE "start_nodes"
            /\ UNCHANGED result
       ELSE End("EOFError")
    /\ UNCHANGED <<command, seed, opened, files>>

\* A gzip stream that stops short raises EOFError, which is not an OSError.
ReadSource ==
    /\ pc = "source"
    /\ IF files.raw = "whole"
       THEN pc' = "nodes" /\ UNCHANGED result
       ELSE End("EOFError")
    /\ UNCHANGED <<command, seed, opened, files>>

Open ==
    /\ pc \in Written /\ ~opened
    /\ \E t \in Truncated(pc) : files' = [files EXCEPT ![pc] = t]
    /\ opened' = TRUE
    /\ UNCHANGED <<pc, command, seed, result>>

Close ==
    /\ pc \in Written /\ opened
    /\ files' = [files EXCEPT ![pc] = Final(pc)]
    /\ opened' = FALSE /\ pc' = After[pc]
    /\ UNCHANGED <<command, seed, result>>

\* The disk is full.
WriteFails ==
    /\ pc \in Written /\ opened
    /\ End("OSError") /\ opened' = FALSE
    /\ UNCHANGED <<command, seed, files>>

Kill ==
    /\ pc # "off"
    /\ End("none") /\ opened' = FALSE
    /\ UNCHANGED <<command, seed, files>>

\* Between commands: the configuration gets another seed, the download is
\* deleted.
Reseed ==
    /\ pc = "off" /\ seed' \in Seeds /\ seed' # seed /\ result' = "none"
    /\ UNCHANGED <<pc, command, opened, files>>

RemoveRaw ==
    /\ pc = "off" /\ files.raw # Missing
    /\ files' = [files EXCEPT !.raw = Missing]
    /\ UNCHANGED <<pc, command, seed, opened, result>>

Step == Verify \/ VerifyAtTheEnd \/ Download \/ ReadSource \/ Open \/ Close

Next ==
    \/ \E c \in {"prepare", "verify"} : Start(c)
    \/ Step \/ DownloadFails \/ WriteFails \/ Kill
    \/ Reseed \/ RemoveRaw

Spec     == Init /\ [][Next]_vars
FairSpec == Spec /\ WF_vars(Step)

-----------------------------------------------------------------------------
(* Properties                                                              *)

TypeOK ==
    /\ pc \in {"off", "verify", "download", "source", "final"} \cup Written
    /\ command \in {"none", "prepare", "verify"}
    /\ seed \in Seeds
    /\ opened \in BOOLEAN /\ (opened => pc \in Written)
    /\ DOMAIN files = Files /\ \A f \in Files : files[f] \in Content[f]
    /\ result \in {"none", "ready", "DatasetError", "TypeError", "EOFError", "URLError", "OSError"}

\* A data set prepare or verify has accepted is complete: whatever kills and
\* other seeds came before, both CSV files have all their rows, the metadata
\* describe them and the configuration, and every fixture is one whole sample.
\* What verify cannot tell is a last relationship whose target lost digits.
ReadyMeansWhole ==
    result = "ready" =>
        /\ files.nodes = Whole(NumNodes)
        /\ files.relationships.rows = NumEdges /\ files.relationships.end \in {"whole", "other"}
        /\ \A f \in Fixture : files[f] \in Seeds
        /\ files.buckets = "whole"
        /\ files.metadata.seed = seed

\* What no prepare repairs: verify breaks in front of it, or the download
\* that is kept stops short (wiki_vote.py:78, 198).
Unreadable == Breaks \/ files.raw = "short"

Disturbance == DownloadFails \/ WriteFails \/ Kill \/ Reseed \/ RemoveRaw

\* Nothing else that kills, full disks, other seeds and deleted downloads
\* leave behind is beyond repair: when they stop, and prepare is given again
\* and again, then the data set is ready again and again, or a file stays
\* that cannot be read.
PrepareRepairs ==
    /\ <>[][~Disturbance]_vars
    /\ []<><<Start("prepare")>>_vars
    => []<>(result = "ready") \/ <>[]Unreadable

\* Metadata that parse describe a complete source: counts and checksum are
\* never those of a torn file or of a truncated download.
MetadataDescribeTheSource ==
    files.metadata \in Metadata =>
        /\ files.metadata.nodes = NumNodes /\ files.metadata.edges = NumEdges
        /\ files.metadata.checksum = "whole"

=============================================================================
