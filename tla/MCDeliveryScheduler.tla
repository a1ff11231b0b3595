------------------------ MODULE MCDeliveryScheduler ------------------------
EXTENDS DeliveryScheduler, TLC

CONSTANTS d1, d2, d3, a1, a2, a3, b1, b2, c1, e1, e2

\* Three devices; the first has more tasks than its queue takes, so that it
\* can refill its queue while its turn lasts.
TaskDevices ==
    a1 :> d1 @@ a2 :> d1 @@ a3 :> d1 @@ b1 :> d2 @@ b2 :> d2 @@ c1 :> d3
        @@ e1 :> d1 @@ e2 :> d2
=============================================================================
