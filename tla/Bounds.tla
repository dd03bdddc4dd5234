------------------------------- MODULE Bounds -------------------------------
(* The bounds that several parts of the system share (shared/bounds.py).    *)
EXTENDS Naturals

CONSTANTS
    MaxCandidates,       \* MAX_CANDIDATES
    MaxTotalQueries,     \* MAX_TOTAL_QUERIES
    MaxUncertaintyNotes, \* MAX_UNCERTAINTY_NOTES
    MaxRetries           \* MAX_RETRIES: attempts, the first one included

ASSUME BoundsAssumption ==
    {MaxCandidates, MaxTotalQueries, MaxUncertaintyNotes, MaxRetries} \subseteq Nat \ {0}

=============================================================================
