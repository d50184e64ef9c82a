------------------------------ MODULE PrefetchLoans ------------------------------
(***************************************************************************)
(* What the semantic prefetch promises the GPU block pool, whatever the    *)
(* transfers, splices, resets and aborts behind it: blocks are borrowed    *)
(* only while free and within the budget, and a borrowed block returns to  *)
(* the pool only when no worker is touching it on the loan's behalf.       *)
(* SemanticConnector implements this specification.                        *)
(***************************************************************************)
EXTENDS Integers, FiniteSets

CONSTANTS Blocks, Budget

VARIABLES
    free,   \* blocks of the pool
    lent,   \* blocks the prefetch has borrowed
    busy    \* blocks some worker is filling or copying from for a loan

loanVars == <<free, lent, busy>>

\* The blocks requests own officially.
Owned == Blocks \ (free \cup lent)

LoanInit == free = Blocks /\ lent = {} /\ busy = {}

\* Borrow free blocks; the workers will fill them.
Borrow(S) ==
    /\ S \subseteq free
    /\ Cardinality(lent \cup S) <= Budget
    /\ free' = free \ S
    /\ lent' = lent \cup S
    /\ busy' = busy \cup S

\* The pool gives blocks T to requests and takes V back from them, loans S
\* end, and the work on the other loans goes on, begins or ends.
Exchange(T, V, S) ==
    /\ T \subseteq free
    /\ V \subseteq Owned
    /\ S \subseteq lent \ busy
    /\ free' = ((free \ T) \cup V) \cup S
    /\ lent' = lent \ S
    /\ busy' \in SUBSET lent'

LoanNext ==
    \/ \E S \in SUBSET free : Borrow(S)
    \/ \E T \in SUBSET free, V \in SUBSET Owned, S \in SUBSET lent : Exchange(T, V, S)

LoanSpec == LoanInit /\ [][LoanNext]_loanVars

---------------------------------------------------------------------------
LoanTypeOK ==
    /\ free \in SUBSET Blocks
    /\ lent \in SUBSET Blocks
    /\ busy \in SUBSET Blocks

\* A block a worker is touching for a loan is lent: neither in the pool nor
\* a request's, and the loans stay within the budget.
LoansSafe ==
    /\ busy \subseteq lent
    /\ lent \cap free = {}
    /\ Cardinality(lent) <= Budget
==================================================================================
