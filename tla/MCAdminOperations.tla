------------------------- MODULE MCAdminOperations -------------------------
EXTENDS AdminOperations

\* One caller of each method, or everyone updating the IAM policy.
MCAssignments ==
  {[c \in Callers |-> "SetIamPolicyUpdater"]}
    \cup {[c \in Callers |-> IF c = d THEN m ELSE "none"] :
            d \in {CHOOSE c \in Callers : TRUE}, m \in Methods}
=============================================================================
