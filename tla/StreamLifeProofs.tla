--------------------------- MODULE StreamLifeProofs ---------------------------
(***************************************************************************)
(* What follows from the promise of StreamLife, for any set of streams.    *)
(***************************************************************************)
EXTENDS StreamLife, TLAPS

TypeInv ==
    /\ table \subseteq Mids /\ due \subseteq Mids /\ queue \subseteq Mids
    /\ media \in [Mids -> {"none", "open", "closed"}]

\* Every step keeps the invariant: only Remove makes a notice due, and a stream
\* whose media is closed is not created again.
LEMMA StepKeeps ==
    ASSUME TypeInv, NoticeAfterRemoval, [Next]_vars
    PROVE  TypeInv' /\ NoticeAfterRemoval'
<1> USE DEF TypeInv, NoticeAfterRemoval
<1>1. CASE UNCHANGED vars
    BY <1>1 DEF vars
<1>2. ASSUME NEW m \in Mids,
             Create(m) \/ Open(m) \/ Shut(m) \/ Remove(m) \/ Queue(m) \/ Take(m)
      PROVE  TypeInv' /\ NoticeAfterRemoval'
    <2>1. CASE Create(m)  BY <2>1 DEF Create
    <2>2. CASE Open(m)    BY <2>2 DEF Open
    <2>3. CASE Shut(m)    BY <2>3 DEF Shut
    <2>4. CASE Remove(m)
        <3>1. due' = due \/ due' = due \cup {m}
            BY <2>4 DEF Remove
        <3> QED
            BY <2>4, <3>1 DEF Remove
    <2>5. CASE Queue(m)   BY <2>5 DEF Queue
    <2>6. CASE Take(m)    BY <2>6 DEF Take
    <2> QED BY <1>2, <2>1, <2>2, <2>3, <2>4, <2>5, <2>6
<1> QED BY <1>1, <1>2 DEF Next

\* A notice is owed or given only for a stream that has left the table with its
\* media closed, and not both: what the SFU's CleanRouter channel promises.
THEOREM NoticeOnlyAfterRemoval == Spec => []NoticeAfterRemoval
<1>1. Init => TypeInv /\ NoticeAfterRemoval
    BY DEF Init, TypeInv, NoticeAfterRemoval
<1>2. TypeInv /\ NoticeAfterRemoval /\ [Next]_vars => (TypeInv /\ NoticeAfterRemoval)'
    BY StepKeeps
<1> QED BY <1>1, <1>2, PTL DEF Spec

\* A stream that has left the table is never published again under its id.
THEOREM RemovedForGood == Spec => NoReturn
<1> DEFINE Stays == [\A m \in Mids : media[m] = "closed" /\ m \notin table => m \notin table']_vars
<1>1. [Next]_vars => Stays
    BY DEF Next, vars, Create, Open, Shut, Remove, Queue, Take
<1> QED BY <1>1, PTL DEF Spec, NoReturn

=============================================================================
