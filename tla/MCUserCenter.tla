---------------------------- MODULE MCUserCenter ----------------------------
(***************************************************************************)
(* The two parts of the user centre's pages that are checked together: the *)
(* wizard and its client, and the appeal page, a document of its own.      *)
(***************************************************************************)
EXTENDS UserCenter, AppealQr, FiniteSetsExt

CONSTANTS
    Lengths,   \* of the runs of one class in an address
    MaxRuns    \* how many runs an address has at most

RunLists ==
    UNION { { runs \in [1 .. n -> Mode \X Lengths] :
                  \A i \in 1 .. n - 1 : runs[i][1] # runs[i + 1][1] } : n \in 1 .. MaxRuns }

Addresses ==
    { FoldLeft(LAMBDA text, run : text \o [i \in 1 .. run[2] |-> run[1]], <<>>, runs)
      : runs \in RunLists }

MCInit == Init /\ QrInit

\* The appeal page is opened instead of the first page, and left again.
MCNext ==
    \/ symbol = NoSymbol /\ Next /\ UNCHANGED symbol
    \/ Init /\ DrawSymbol /\ UNCHANGED vars
    \/ LeaveAppeal /\ UNCHANGED vars

MCSpec == MCInit /\ [][MCNext]_<<vars, symbol>> /\ Fairness
=============================================================================
