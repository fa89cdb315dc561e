----------------------- MODULE MCCertificationService -----------------------
(***************************************************************************)
(* CertificationService for TLC.  The calendar starts on the last day of a *)
(* month of three days, a month of one day follows, then months of two.    *)
(***************************************************************************)
EXTENDS CertificationService

CONSTANTS approved, ann   \* the certification the seed leaves approved, a user

Months == [t \in 0..Horizon |-> IF t < 2 THEN 6 ELSE IF t < 4 THEN 2 ELSE 4]

\* The seed dates its certifications on the day it runs.
Seeds == [id \in Ids |->
    IF id = approved THEN [status |-> "approved", user |-> ann, validUntil |-> 0]
    ELSE NoRow]

=============================================================================
