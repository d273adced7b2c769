---------------------------- MODULE DatasetProofs ----------------------------
(***************************************************************************)
(* Proofs about Dataset: for any seeds, any sizes of the tables and any    *)
(* number of kills, failed writes, truncated downloads and changed seeds.  *)
(***************************************************************************)
EXTENDS Dataset, TLAPS

\* The files a preparation has written when it comes to this point.
Done ==
    [nodes |-> {}, relationships |-> {"nodes"}, start_nodes |-> {"nodes", "relationships"},
     lookup_ids |-> {"nodes", "relationships", "start_nodes"},
     buckets |-> {"nodes", "relationships"} \cup Fixture,
     metadata |-> {"nodes", "relationships", "buckets"} \cup Fixture,
     final |-> Written]

\* A preparation that writes has read a complete source, and what it has
\* written it finds again: nobody else writes while it runs.
Progress ==
    pc \in DOMAIN Done =>
        /\ files.raw = "whole"
        /\ \A f \in Done[pc] : files[f] = Final(f)

\* The source is read from a file that is there.
RawIsThere == pc = "source" => files.raw # Missing

\* A command has no result while it runs.
NoResultYet == pc # "off" => result = "none"

\* The inductive invariant.  MetadataDescribeTheSource is in it because what
\* verify accepts it judges by the metadata, which an earlier command wrote.
IInv ==
    /\ TypeOK /\ Progress /\ RawIsThere /\ NoResultYet
    /\ MetadataDescribeTheSource /\ ReadyMeansWhole

-----------------------------------------------------------------------------
\* The files, by name.
LEMMA Names ==
    /\ Files = {"raw", "nodes", "relationships", "start_nodes", "lookup_ids", "buckets", "metadata"}
    /\ Written = Files \ {"raw"}
    /\ DOMAIN Done = Written \cup {"final"}
BY DEF Files, Content, Written, After, Done

\* What may be in each file.
LEMMA Contents ==
    /\ Content["raw"] = {Missing, "whole", "short"}
    /\ Content["nodes"] = {Missing} \cup Table(NumNodes)
    /\ Content["relationships"] = {Missing} \cup Table(NumEdges)
    /\ \A f \in Fixture : Content[f] = {Missing, Empty} \cup Seeds
    /\ Content["buckets"] = {Missing, Empty, "whole"}
    /\ Content["metadata"] = {Missing, Empty} \cup Metadata
BY DEF Content, Fixture

\* A table that is written to its end is one of the tables.
LEMMA WholeIsTable ==
    ASSUME NEW n \in Nat
    PROVE  Whole(n) \in Table(n) /\ Whole(n).rows = n /\ Whole(n).end = "whole"
BY DEF Whole, Table

\* The metadata prepare writes over a complete source.
LEMMA FinalMetadata ==
    ASSUME seed \in Seeds, files.raw = "whole"
    PROVE  /\ Final("metadata") \in Metadata
           /\ Final("metadata").nodes = NumNodes /\ Final("metadata").edges = NumEdges
           /\ Final("metadata").checksum = "whole" /\ Final("metadata").seed = seed
BY CountsAssumption DEF Final, Metadata, Fixture

\* What prepare writes to a file, whole or cut, is content of this file.
LEMMA WrittenTypes ==
    ASSUME NEW f \in Written, seed \in Seeds, files.raw = "whole"
    PROVE  Final(f) \in Content[f] /\ Truncated(f) \subseteq Content[f]
<1>1. CASE f = "nodes"
  <2>1. Final(f) = Whole(NumNodes) /\ Truncated(f) = Prefixes(f, NumNodes)
    BY <1>1 DEF Final, Truncated, Fixture
  <2>2. Whole(NumNodes) \in Table(NumNodes)
    BY WholeIsTable, CountsAssumption
  <2>3. Prefixes(f, NumNodes) \subseteq Table(NumNodes)
    BY DEF Prefixes
  <2>4. Content[f] = {Missing} \cup Table(NumNodes)
    BY <1>1, Contents
  <2> QED
    BY <2>1, <2>2, <2>3, <2>4
<1>2. CASE f = "relationships"
  <2>1. Final(f) = Whole(NumEdges) /\ Truncated(f) = Prefixes(f, NumEdges)
    BY <1>2 DEF Final, Truncated, Fixture
  <2>2. Whole(NumEdges) \in Table(NumEdges)
    BY WholeIsTable, CountsAssumption
  <2>3. Prefixes(f, NumEdges) \subseteq Table(NumEdges)
    BY DEF Prefixes
  <2>4. Content[f] = {Missing} \cup Table(NumEdges)
    BY <1>2, Contents
  <2> QED
    BY <2>1, <2>2, <2>3, <2>4
<1>3. CASE f \in Fixture
  <2>1. Final(f) = seed /\ Truncated(f) = {Empty}
    BY <1>3 DEF Final, Truncated, Fixture
  <2> QED
    BY <1>3, <2>1, Contents
<1>4. CASE f = "buckets"
  <2>1. Final(f) = "whole" /\ Truncated(f) = {Empty}
    BY <1>4 DEF Final, Truncated, Fixture
  <2> QED
    BY <1>4, <2>1, Contents
<1>5. CASE f = "metadata"
  <2>1. Final(f) \in Metadata /\ Truncated(f) = {Empty}
    BY <1>5, FinalMetadata DEF Truncated
  <2> QED
    BY <1>5, <2>1, Contents
<1> QED
  BY <1>1, <1>2, <1>3, <1>4, <1>5, Names DEF Fixture

\* Every file there is: then verify accepts the directory.
LEMMA WholeIsAccepted ==
    ASSUME seed \in Seeds, files.raw = "whole", \A f \in Written : files[f] = Final(f)
    PROVE  Accepts
<1>1. /\ files.nodes = Whole(NumNodes) /\ files.relationships = Whole(NumEdges)
      /\ files.buckets = "whole" /\ \A f \in Fixture : files[f] = seed
      /\ files.metadata = Final("metadata")
  BY Names DEF Final, Fixture
<1>2. Complete
  <2>1. \A f \in Fixture : files[f] # Missing
    BY <1>1, MarkersAssumption
  <2>2. files.nodes # Missing /\ files.relationships # Missing
    BY <1>1, MarkersAssumption, WholeIsTable, CountsAssumption
  <2>3. files.buckets # Missing /\ files.metadata # Missing
    BY <1>1, MarkersAssumption, FinalMetadata
  <2> QED
    BY <2>1, <2>2, <2>3, Names DEF Complete, Fixture
<1>3. /\ files.nodes.end = "whole" /\ files.relationships.end = "whole"
      /\ files.relationships.rows >= MinEdges
      /\ CountsAgree
  BY <1>1, WholeIsTable, FinalMetadata, CountsAssumption DEF CountsAgree
<1>4. files.metadata # Empty /\ files.metadata.seed = seed /\ files.metadata.checksum = files.raw
  BY <1>1, FinalMetadata, MarkersAssumption
<1>5. FixturesUsable
  BY <1>1, MarkersAssumption DEF FixturesUsable
<1> QED
  BY <1>2, <1>3, <1>4, <1>5 DEF Accepts

\* What verify accepts is whole, if the metadata describe the source.
LEMMA AcceptedIsWhole ==
    ASSUME TypeOK, MetadataDescribeTheSource, Accepts
    PROVE  /\ files.nodes = Whole(NumNodes)
           /\ files.relationships.rows = NumEdges /\ files.relationships.end \in {"whole", "other"}
           /\ \A f \in Fixture : files[f] \in Seeds
           /\ files.buckets = "whole" /\ files.metadata.seed = seed
<1>1. \A f \in Written : files[f] \in Content[f] /\ files[f] # Missing
  BY Names DEF TypeOK, Accepts, Complete
<1>2. files.metadata \in Metadata
  BY <1>1, Names, Contents DEF Accepts
<1>3. files.nodes.rows = NumNodes /\ files.relationships.rows = NumEdges
  BY <1>2 DEF Accepts, CountsAgree, MetadataDescribeTheSource
<1>4. files.nodes \in Table(NumNodes)
  BY <1>1, Names, Contents
<1>5. files.nodes.end = "whole" /\ files.relationships.end \in {"whole", "other"}
  BY DEF Accepts
<1>6. files.nodes = Whole(NumNodes)
  BY <1>3, <1>4, <1>5 DEF Table, Whole
<1>7. \A f \in Fixture : files[f] \in Seeds
  <2> SUFFICES ASSUME NEW f \in Fixture PROVE files[f] \in Seeds
    OBVIOUS
  <2>1. f \in Written /\ files[f] # Empty
    BY Names DEF Fixture, Accepts, FixturesUsable
  <2> QED
    BY <1>1, <2>1, Contents
<1>8. files.buckets = "whole" /\ files.metadata.seed = seed
  BY <1>1, Names, Contents DEF Accepts, FixturesUsable
<1> QED
  BY <1>3, <1>5, <1>6, <1>7, <1>8

-----------------------------------------------------------------------------
\* The invariant holds at the start.
LEMMA InitInv == Init => IInv
<1> SUFFICES ASSUME Init PROVE IInv
  OBVIOUS
<1> USE DEF Init
<1>1. DOMAIN files = Files /\ \A f \in Files : files[f] \in Content[f]
  <2>1. CASE files = Fresh
    <3>1. \A f \in Files : Missing \in Content[f]
      BY Names, Contents DEF Fixture
    <3> QED
      BY <2>1, <3>1 DEF Fresh
  <2>2. CASE \E s \in Seeds : files = Clone(s)
    <3> PICK s \in Seeds : files = Clone(s)
      BY <2>2
    <3>1. files.metadata \in Metadata
      <4>1. files.metadata = [seed |-> s, nodes |-> NumNodes, edges |-> NumEdges, checksum |-> "whole"]
        BY DEF Clone
      <4>2. NumNodes \in 0..NumNodes /\ NumEdges \in 0..NumEdges
        BY CountsAssumption
      <4> QED
        BY <4>1, <4>2 DEF Metadata
    <3>2. DOMAIN files = Files
      BY Names DEF Clone
    <3>3. files.nodes \in Table(NumNodes) /\ files.relationships \in Table(NumEdges)
      <4>1. files.nodes = Whole(NumNodes) /\ files.relationships = Whole(NumEdges)
        BY DEF Clone
      <4> QED
        BY <4>1, WholeIsTable, CountsAssumption
    <3>4. \A f \in Fixture : files[f] \in Seeds
      <4>1. files["start_nodes"] = s /\ files["lookup_ids"] = s
        BY DEF Clone
      <4> QED
        BY <4>1 DEF Fixture
    <3>5. files.raw = Missing /\ files.buckets = "whole"
      BY DEF Clone
    <3> QED
      BY <3>1, <3>2, <3>3, <3>4, <3>5, Names, Contents DEF Fixture
  <2> QED
    BY <2>1, <2>2
<1>2. MetadataDescribeTheSource
  <2>1. CASE files = Fresh
    <3>1. files.metadata = Missing
      BY <2>1, Names DEF Fresh
    <3> QED
      BY <3>1, MarkersAssumption DEF MetadataDescribeTheSource
  <2>2. CASE \E s \in Seeds : files = Clone(s)
    <3> PICK s \in Seeds : files = Clone(s)
      BY <2>2
    <3>1. files.metadata = [seed |-> s, nodes |-> NumNodes, edges |-> NumEdges, checksum |-> "whole"]
      BY DEF Clone
    <3> QED
      BY <3>1 DEF MetadataDescribeTheSource
  <2> QED
    BY <2>1, <2>2
<1>3. TypeOK
  BY <1>1 DEF TypeOK
<1> QED
  BY <1>2, <1>3, Names DEF IInv, Progress, RawIsThere, NoResultYet, ReadyMeansWhole

\* A step keeps the types.
LEMMA TypeStep ==
    ASSUME TypeOK, Progress, Next
    PROVE  TypeOK'
<1> USE DEF TypeOK
<1>1. CASE \E c \in {"prepare", "verify"} : Start(c)
  BY <1>1, Names DEF Start
<1>2. CASE Verify
  BY <1>2, Names DEF Verify, End
<1>3. CASE VerifyAtTheEnd
  BY <1>3, Names DEF VerifyAtTheEnd, End
<1>4. CASE Download \/ DownloadFails
  <2>1. DOMAIN files' = Files /\ \A f \in Files : files'[f] \in Content[f]
    BY <1>4, Names, Contents DEF Download, DownloadFails
  <2> QED
    BY <1>4, <2>1, Names DEF Download, DownloadFails, End
<1>5. CASE ReadSource
  BY <1>5, Names DEF ReadSource, End
<1>6. CASE Open
  <2>1. PICK t \in Truncated(pc) : files' = [files EXCEPT ![pc] = t]
    BY <1>6 DEF Open
  <2>2. t \in Content[pc]
    BY <1>6, <2>1, WrittenTypes, Names DEF Open, Progress
  <2>3. DOMAIN files' = Files /\ \A f \in Files : files'[f] \in Content[f]
    BY <2>1, <2>2
  <2> QED
    BY <1>6, <2>3 DEF Open
<1>7. CASE Close
  <2>1. Final(pc) \in Content[pc]
    BY <1>7, WrittenTypes, Names DEF Close, Progress
  <2>2. DOMAIN files' = Files /\ \A f \in Files : files'[f] \in Content[f]
    BY <1>7, <2>1 DEF Close
  <2>3. After[pc] \in {"final"} \cup Written
    BY <1>7, Names DEF Close, After
  <2> QED
    BY <1>7, <2>2, <2>3 DEF Close
<1>8. CASE WriteFails
  BY <1>8 DEF WriteFails, End
<1>9. CASE Kill
  BY <1>9 DEF Kill, End
<1>10. CASE Reseed
  BY <1>10 DEF Reseed
<1>11. CASE RemoveRaw
  <2>1. DOMAIN files' = Files /\ \A f \in Files : files'[f] \in Content[f]
    BY <1>11, Names, Contents DEF RemoveRaw
  <2> QED
    BY <1>11, <2>1 DEF RemoveRaw
<1> QED
  BY <1>1, <1>2, <1>3, <1>4, <1>5, <1>6, <1>7, <1>8, <1>9, <1>10, <1>11 DEF Next, Step

\* A step keeps what a preparation has written so far.
LEMMA ProgressStep ==
    ASSUME TypeOK, Progress, Next
    PROVE  Progress'
<1>1. CASE pc' \notin DOMAIN Done
  BY <1>1 DEF Progress
<1>2. CASE ReadSource /\ pc' = "nodes"
  BY <1>2, Names DEF ReadSource, Progress, Done, End
<1>3. CASE Open
  <2>1. pc \in Written /\ pc' = pc /\ UNCHANGED seed
    BY <1>3 DEF Open
  <2>2. PICK t : files' = [files EXCEPT ![pc] = t]
    BY <1>3 DEF Open
  <2>3. files.raw = "whole" /\ files'.raw = "whole"
    BY <2>1, <2>2, Names DEF Progress, TypeOK
  <2>4. pc \notin Done[pc]
    BY <2>1, Names DEF Done, Fixture
  <2>5. Done[pc] \subseteq Files
    BY <2>1, Names DEF Done, Fixture
  <2>6. \A f \in Done[pc] : files'[f] = files[f]
    BY <2>2, <2>4, <2>5 DEF TypeOK
  <2>7. \A f \in Done[pc] : Final(f)' = Final(f)
    BY <2>1, <2>3 DEF Final
  <2> QED
    BY <2>1, <2>3, <2>6, <2>7, Names DEF Progress
<1>4. CASE Close
  <2>1. pc \in Written /\ pc' = After[pc] /\ UNCHANGED seed /\ files' = [files EXCEPT ![pc] = Final(pc)]
    BY <1>4 DEF Close
  <2>2. files.raw = "whole" /\ files'.raw = "whole"
    BY <2>1, Names DEF Progress, TypeOK
  <2>3. Done[pc'] = Done[pc] \cup {pc}
    BY <2>1, Names DEF Done, After, Fixture
  <2>4. Done[pc] \subseteq Files /\ pc \in Files
    BY <2>1, Names DEF Done, Fixture
  <2>5. \A f \in Done[pc'] : files'[f] = Final(f)
    BY <2>1, <2>3, <2>4, Names DEF TypeOK, Progress
  <2>6. \A f \in Done[pc'] : Final(f)' = Final(f)
    BY <2>1, <2>2 DEF Final
  <2> QED
    BY <2>2, <2>5, <2>6 DEF Progress
<1>5. CASE pc' \in DOMAIN Done /\ ~ReadSource /\ ~Open /\ ~Close
  BY <1>5, Names DEF Next, Step, Start, Verify, VerifyAtTheEnd, Download,
     DownloadFails, WriteFails, Kill, Reseed, RemoveRaw, End
<1> QED
  BY <1>1, <1>2, <1>3, <1>4, <1>5, Names DEF ReadSource, End

\* A step keeps the raw file where it is read.
LEMMA RawStep ==
    ASSUME TypeOK, RawIsThere, Next
    PROVE  RawIsThere'
<1> SUFFICES ASSUME pc' = "source" PROVE files'.raw # Missing
  BY DEF RawIsThere
<1>1. CASE Verify
  BY <1>1 DEF Verify, End
<1>2. CASE Download
  BY <1>2, Names, MarkersAssumption DEF Download, TypeOK
<1>3. CASE Open
  BY <1>3, Names DEF Open
<1>4. CASE Close
  BY <1>4, Names DEF Close, After
<1>5. CASE VerifyAtTheEnd \/ ReadSource
  BY <1>5 DEF VerifyAtTheEnd, ReadSource, End
<1>6. CASE DownloadFails \/ WriteFails \/ Kill \/ Reseed \/ RemoveRaw
  BY <1>6 DEF DownloadFails, WriteFails, Kill, Reseed, RemoveRaw, End
<1>7. CASE \E c \in {"prepare", "verify"} : Start(c)
  BY <1>7 DEF Start
<1> QED
  BY <1>1, <1>2, <1>3, <1>4, <1>5, <1>6, <1>7 DEF Next, Step

\* A step keeps the results to commands that have ended.
LEMMA ResultStep ==
    ASSUME NoResultYet, Next
    PROVE  NoResultYet'
<1> SUFFICES ASSUME pc' # "off" PROVE result' = "none"
  BY DEF NoResultYet
<1>1. CASE (\E c \in {"prepare", "verify"} : Start(c)) \/ Kill \/ Reseed \/ RemoveRaw \/ WriteFails
  BY <1>1 DEF Start, Kill, Reseed, RemoveRaw, WriteFails, End, NoResultYet
<1>2. CASE Verify
  BY <1>2 DEF Verify, End, NoResultYet
<1>3. CASE VerifyAtTheEnd
  BY <1>3 DEF VerifyAtTheEnd, End
<1>4. CASE Download \/ DownloadFails
  BY <1>4 DEF Download, DownloadFails, End, NoResultYet
<1>5. CASE ReadSource
  BY <1>5 DEF ReadSource, End, NoResultYet
<1>6. CASE Open \/ Close
  <2>1. pc # "off" /\ result' = result
    BY <1>6, Names DEF Open, Close
  <2> QED
    BY <2>1 DEF NoResultYet
<1> QED
  BY <1>1, <1>2, <1>3, <1>4, <1>5, <1>6 DEF Next, Step

\* A step keeps the metadata true.
LEMMA MetadataStep ==
    ASSUME TypeOK, Progress, MetadataDescribeTheSource, Next
    PROVE  MetadataDescribeTheSource'
<1>1. CASE files'.metadata = files.metadata
  BY <1>1 DEF MetadataDescribeTheSource
<1>2. CASE Open /\ pc = "metadata"
  <2>1. files'.metadata = Empty
    BY <1>2, Names DEF Open, Truncated, TypeOK
  <2> QED
    BY <2>1, MarkersAssumption DEF MetadataDescribeTheSource
<1>3. CASE Close /\ pc = "metadata"
  <2>1. files'.metadata = Final("metadata")
    BY <1>3, Names DEF Close, TypeOK
  <2> QED
    BY <1>3, <2>1, FinalMetadata, Names DEF Close, MetadataDescribeTheSource, Progress, TypeOK
<1>4. CASE files'.metadata # files.metadata
  <2>1. Open \/ Close
    BY <1>4, Names DEF Next, Step, Start, Verify, VerifyAtTheEnd, Download, DownloadFails, ReadSource,
       WriteFails, Kill, Reseed, RemoveRaw, End, TypeOK
  <2> QED
    BY <1>2, <1>3, <1>4, <2>1, Names DEF Open, Close, TypeOK
<1> QED
  BY <1>1, <1>4

\* A step keeps what a ready data set is.
LEMMA ReadyStep ==
    ASSUME IInv, Next
    PROVE  ReadyMeansWhole'
<1> USE DEF IInv
<1>1. CASE result' # "ready"
  BY <1>1 DEF ReadyMeansWhole
<1>2. CASE (Verify \/ VerifyAtTheEnd) /\ result' = "ready"
  <2>1. Accepts /\ UNCHANGED <<seed, files>>
    BY <1>2 DEF Verify, VerifyAtTheEnd, End, NoResultYet
  <2> QED
    BY <2>1, AcceptedIsWhole DEF ReadyMeansWhole
<1>3. CASE RemoveRaw
  <2>1. \A f \in Files \ {"raw"} : files'[f] = files[f]
    BY <1>3 DEF RemoveRaw, TypeOK
  <2>2. UNCHANGED <<seed, result>>
    BY <1>3 DEF RemoveRaw
  <2> QED
    BY <2>1, <2>2, Names DEF ReadyMeansWhole, Fixture
<1>4. CASE result' = "ready" /\ ~Verify /\ ~VerifyAtTheEnd
  <2>1. RemoveRaw
    BY <1>4, Names DEF Next, Step, Start, Download, DownloadFails, ReadSource, Open, Close,
       WriteFails, Kill, Reseed, End, NoResultYet
  <2> QED
    BY <2>1, <1>3
<1> QED
  BY <1>1, <1>2, <1>4

\* The inductive invariant holds in every reachable state.
THEOREM Invariance == Spec => []IInv
<1>1. Init => IInv
  BY InitInv
<1>2. IInv /\ [Next]_vars => IInv'
  <2> SUFFICES ASSUME IInv, [Next]_vars PROVE IInv'
    OBVIOUS
  <2>1. CASE Next
    BY <2>1, TypeStep, ProgressStep, RawStep, ResultStep, MetadataStep, ReadyStep DEF IInv
  <2>2. CASE UNCHANGED vars
    <3>1. UNCHANGED <<pc, command, seed, opened, files, result>>
      BY <2>2 DEF vars
    <3>2. \A f : Final(f)' = Final(f)
      BY <3>1 DEF Final
    <3> QED
      BY <3>1, <3>2 DEF IInv, TypeOK, Progress, RawIsThere, NoResultYet, MetadataDescribeTheSource,
         ReadyMeansWhole
  <2> QED
    BY <2>1, <2>2
<1> QED
  BY <1>1, <1>2, PTL DEF Spec

\* Type correctness.
THEOREM TypeCorrect == Spec => []TypeOK
BY Invariance, PTL DEF IInv

\* Metadata that parse describe a complete source (wiki_vote.py, prepare).
THEOREM TrueMetadata == Spec => []MetadataDescribeTheSource
BY Invariance, PTL DEF IInv

\* What prepare or verify accepts is whole, whatever was cut short before.
THEOREM ReadyIsWhole == Spec => []ReadyMeansWhole
BY Invariance, PTL DEF IInv

-----------------------------------------------------------------------------
(* PrepareRepairs, but for fairness: an undisturbed prepare has a last step, *)
(* which accepts the data set or stops at a file that cannot be read, and    *)
(* such a file stays.                                                        *)

\* What Accepts says of the files that no prepare repairs.
LEMMA AcceptedIsReadable ==
    ASSUME TypeOK, MetadataDescribeTheSource, Accepts
    PROVE  ~Unreadable
<1>1. ~Breaks
  BY DEF Accepts, Breaks
<1>2. files.metadata \in Metadata
  <2>1. files.metadata \in Content["metadata"] /\ files.metadata # Missing /\ files.metadata # Empty
    BY Names DEF TypeOK, Accepts, Complete
  <2> QED
    BY <2>1, Contents
<1>3. files.raw # "short"
  BY <1>2, MarkersAssumption DEF Accepts, MetadataDescribeTheSource
<1> QED
  BY <1>1, <1>3 DEF Unreadable

\* A preparation that ends by a step of its own accepts the data set, on any
\* remains of earlier ones, or has met a file it cannot read; in particular
\* it never ends in a DatasetError (wiki_vote.py:76, 95).
THEOREM OnlyUnreadableStops ==
    Spec => [][Step /\ command = "prepare" /\ pc' = "off" => result' = "ready" \/ Unreadable]_vars
<1>1. IInv /\ Step /\ command = "prepare" /\ pc' = "off" => result' = "ready" \/ Unreadable
  <2> SUFFICES ASSUME IInv, Step, command = "prepare", pc' = "off"
               PROVE  result' = "ready" \/ Unreadable
    OBVIOUS
  <2>1. CASE Verify
    BY <2>1 DEF Verify, End, Unreadable
  <2>2. CASE VerifyAtTheEnd
    <3>1. pc = "final"
      BY <2>2 DEF VerifyAtTheEnd
    <3>2. files.raw = "whole" /\ \A f \in Written : files[f] = Final(f)
      BY <3>1, Names DEF IInv, Progress, Done
    <3>3. Accepts
      BY <3>2, WholeIsAccepted DEF IInv, TypeOK
    <3> QED
      BY <2>2, <3>3 DEF VerifyAtTheEnd, End
  <2>3. CASE ReadSource
    <3>1. files.raw # "whole" /\ pc = "source"
      BY <2>3 DEF ReadSource, End
    <3>2. files.raw # Missing
      BY <3>1 DEF IInv, RawIsThere
    <3>3. files.raw \in {Missing, "whole", "short"}
      BY Names, Contents DEF IInv, TypeOK
    <3> QED
      BY <3>1, <3>2, <3>3 DEF Unreadable
  <2>4. CASE Download
    BY <2>4 DEF Download
  <2>5. CASE Open
    BY <2>5, Names DEF Open
  <2>6. CASE Close
    BY <2>6, Names DEF Close, After
  <2> QED
    BY <2>1, <2>2, <2>3, <2>4, <2>5, <2>6 DEF Step
<1> QED
  BY <1>1, Invariance, PTL DEF Spec

\* The steps a running command has left at most.
StepsLeft ==
    CASE pc = "off"    -> 0
      [] pc = "verify" -> 16
      [] pc = "download" -> 15
      [] pc = "source" -> 14
      [] pc = "nodes"  -> IF opened THEN 12 ELSE 13
      [] pc = "relationships" -> IF opened THEN 10 ELSE 11
      [] pc = "start_nodes" -> IF opened THEN 8 ELSE 9
      [] pc = "lookup_ids" -> IF opened THEN 6 ELSE 7
      [] pc = "buckets" -> IF opened THEN 4 ELSE 5
      [] pc = "metadata" -> IF opened THEN 2 ELSE 3
      [] pc = "final"  -> 1

\* A command comes to its end: each step of it lowers a natural number
\* (wiki_vote.py:73-95, one pass and no retry).
THEOREM Advances ==
    Spec => /\ [](StepsLeft \in Nat)
            /\ [][Step => StepsLeft' < StepsLeft]_vars
<1>1. TypeOK => StepsLeft \in Nat
  BY Names DEF TypeOK, StepsLeft
<1>2. ASSUME TypeOK, Step
      PROVE  StepsLeft' < StepsLeft
  <2>1. CASE Verify
    BY <1>2, <2>1 DEF Verify, End, StepsLeft, TypeOK
  <2>2. CASE VerifyAtTheEnd
    BY <1>2, <2>2 DEF VerifyAtTheEnd, End, StepsLeft
  <2>3. CASE Download
    BY <1>2, <2>3 DEF Download, StepsLeft
  <2>4. CASE ReadSource
    <3>1. \/ pc = "source" /\ pc' = "nodes" /\ opened' = opened
          \/ pc = "source" /\ pc' = "off"
      BY <2>4 DEF ReadSource, End
    <3> QED
      BY <3>1 DEF StepsLeft
  <2>5. CASE Open
    <3>1. pc \in Written /\ pc' = pc /\ opened = FALSE /\ opened' = TRUE
      BY <1>2, <2>5 DEF Open, TypeOK
    <3> QED
      BY <3>1, Names DEF StepsLeft
  <2>6. CASE Close
    <3>1. pc \in Written /\ pc' = After[pc] /\ opened = TRUE /\ opened' = FALSE
      BY <1>2, <2>6 DEF Close, TypeOK
    <3> QED
      BY <3>1, Names DEF StepsLeft, After
  <2> QED
    BY <1>2, <2>1, <2>2, <2>3, <2>4, <2>5, <2>6 DEF Step
<1> QED
  BY <1>1, <1>2, TypeCorrect, PTL DEF Spec

\* A command in front of a file that cannot be read, or between two of them.
InFrontOfUnreadable ==
    \/ pc \in {"off", "verify"} /\ Unreadable
    \/ pc = "source" /\ files.raw = "short"

\* A file that cannot be read is there to stay: no command writes over it,
\* and none is accepted (wiki_vote.py:76, 78).
THEOREM UnreadableStays ==
    Spec => [][InFrontOfUnreadable /\ (Step \/ \E c \in {"prepare", "verify"} : Start(c))
               => InFrontOfUnreadable' /\ result' # "ready"]_vars
<1>1. ASSUME IInv, InFrontOfUnreadable, Step \/ \E c \in {"prepare", "verify"} : Start(c)
      PROVE  InFrontOfUnreadable' /\ result' # "ready"
  <2>1. CASE \E c \in {"prepare", "verify"} : Start(c)
    BY <1>1, <2>1 DEF Start, InFrontOfUnreadable, Unreadable, Breaks, Complete
  <2>2. CASE Verify
    <3>1. Unreadable /\ pc = "verify" /\ result = "none" /\ UNCHANGED files
      BY <1>1, <2>2 DEF Verify, InFrontOfUnreadable, IInv, NoResultYet
    <3>2. ~Accepts /\ Unreadable'
      BY <1>1, <3>1, AcceptedIsReadable DEF IInv, Unreadable, Breaks, Complete
    <3>3. ~Breaks => files.raw = "short" /\ files.raw # Missing
      BY <3>1, MarkersAssumption DEF Unreadable
    <3> QED
      BY <2>2, <3>1, <3>2, <3>3 DEF Verify, End, InFrontOfUnreadable
  <2>3. CASE ReadSource
    <3>1. pc' = "off" /\ result' = "EOFError" /\ files' = files /\ files.raw = "short"
      BY <1>1, <2>3 DEF ReadSource, End, InFrontOfUnreadable
    <3> QED
      BY <3>1 DEF InFrontOfUnreadable, Unreadable
  <2> QED
    BY <1>1, <2>1, <2>2, <2>3, Names DEF Step, VerifyAtTheEnd, Download, Open, Close,
       InFrontOfUnreadable
<1> QED
  BY <1>1, Invariance, PTL DEF Spec
=============================================================================
