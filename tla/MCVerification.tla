--------------------------- MODULE MCVerification ---------------------------
(* A small instance of Verification.                                       *)
EXTENDS Verification

CONSTANTS read, write, verify,    \* transactions
          session, headless,      \* runs
          fmt, gen, test, audit,  \* gates
          c1, c2                  \* contracts

MCWorkspaces == {"clean", "unformatted", "stale"}
MCTxns       == {read, write, verify}
MCGates      == {fmt, gen, test, audit}
MCContracts  == {c1, c2}
MCRunOf      == [t \in MCTxns |-> IF t = verify THEN headless ELSE session]

\* fmt and gen fix what they are about; generated text is unformatted.
MCLeaves ==
    [g \in MCGates |-> [w \in MCWorkspaces |->
        CASE g = fmt /\ w = "unformatted" -> "clean"
          [] g = gen /\ w = "stale"       -> "unformatted"
          [] OTHER                        -> w]]
MCAccepts == [g \in MCGates |-> IF g = test THEN MCWorkspaces \ {"stale"} ELSE MCWorkspaces]

\* c1 allows everything; c2 asks about writes and denies verifications.
MCDecision ==
    [s \in Subject |-> IF s.contract = c1 \/ s.txn = read THEN "allow"
                       ELSE IF s.txn = write THEN "ask" ELSE "deny"]

\* test and fmt are independent.  Of <<audit, fmt, gen>> each undoes what the
\* one before established, and three passes may not be enough.
MCSelected ==
    [s \in Subject |->
        CASE s.contract = c1 /\ s.txn = write  -> <<test, fmt>>
          [] s.contract = c1 /\ s.txn = verify -> <<fmt, test>>
          [] s.contract = c2 /\ s.txn = write  -> <<audit, fmt, gen>>
          [] s.contract = c2 /\ s.txn = read /\ s.workspace = "stale" -> <<audit>>
          [] OTHER -> <<>>]

\* The proofs about fresh receipts and releases assume this.
ASSUME SharedGatesRead
=============================================================================
