------------------------ MODULE MCExpirationScheduler ------------------------
(***************************************************************************)
(* Instances of ExpirationScheduler for TLC: two workers with one poll     *)
(* each, or one worker whose two timer chains poll at the same time.       *)
(***************************************************************************)
EXTENDS ExpirationScheduler, TLC

CONSTANTS r1, r2, w1, w2, p1, p2, p3

OneRequest == { r1 }
TwoRequests == { r1, r2 }

OneWorker == { w1 }
TwoWorkers == { w1, w2 }

TwoPolls == { p1, p2 }
ThreePolls == { p1, p2, p3 }
OwnerPerPoll == p1 :> w1 @@ p2 :> w2
OwnerOfChains == p1 :> w1 @@ p2 :> w1
OwnerOfThree == p1 :> w1 @@ p2 :> w1 @@ p3 :> w2

ExpiryNow == { 0 }
ExpirySoon == { 0, 1 }
NoAttempts == { 0 }
NoneOrOneAttempt == { 0, 1 }

=============================================================================
