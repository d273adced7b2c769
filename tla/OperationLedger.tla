-------------------------- MODULE OperationLedger ---------------------------
(***************************************************************************)
(* What the mixed stage promises about the operations it issues, without   *)
(* threads, queues or time.  A phase issues operations numbered from 0 and *)
(* records what became of them; every record may reach the evidence file.  *)
(* A phase is committed (its level reported complete) only when everything *)
(* it issued is recorded, and is closed from then on.  The campaign is     *)
(* published only when the evidence of every committed phase is whole.     *)
(***************************************************************************)
EXTENDS Integers

CONSTANT Phases

VARIABLES
    issued,     \* issued[p]: how many operations phase p has issued
    recorded,   \* recorded[p]: the numbers of the operations recorded
    evidence,   \* evidence[p]: the numbers of the operations in the raw file
    committed,  \* the phases reported complete
    published   \* the stage has returned normally

vars == <<issued, recorded, evidence, committed, published>>

TypeOK ==
    /\ issued \in [Phases -> Nat]
    /\ recorded \in [Phases -> SUBSET Nat]
    /\ evidence \in [Phases -> SUBSET Nat]
    /\ committed \subseteq Phases
    /\ published \in BOOLEAN

Init ==
    /\ issued   = [p \in Phases |-> 0]
    /\ recorded = [p \in Phases |-> {}]
    /\ evidence = [p \in Phases |-> {}]
    /\ committed = {}
    /\ published = FALSE

Issue(p) ==
    /\ p \notin committed
    /\ issued' = [issued EXCEPT ![p] = @ + 1]
    /\ UNCHANGED <<recorded, evidence, committed, published>>

Record(p, n) ==
    /\ p \notin committed
    /\ n \notin recorded[p]
    /\ recorded' = [recorded EXCEPT ![p] = @ \cup {n}]
    /\ UNCHANGED <<issued, evidence, committed, published>>

Persist(p, n) ==
    /\ evidence' = [evidence EXCEPT ![p] = @ \cup {n}]
    /\ UNCHANGED <<issued, recorded, committed, published>>

Commit(p) ==
    /\ recorded[p] = 0..(issued[p] - 1)
    /\ committed' = committed \cup {p}
    /\ UNCHANGED <<issued, recorded, evidence, published>>

Publish ==
    /\ \A p \in committed : evidence[p] = recorded[p]
    /\ published' = TRUE
    /\ UNCHANGED <<issued, recorded, evidence, committed>>

Next ==
    \/ \E p \in Phases :
         \/ Issue(p)
         \/ \E n \in 0..(issued[p] - 1) : Record(p, n)
         \/ \E n \in recorded[p] : Persist(p, n)
         \/ Commit(p)
    \/ Publish

Spec == Init /\ [][Next]_vars
=============================================================================
