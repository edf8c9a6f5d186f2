----------------------------- MODULE MCRpsDriver -----------------------------
(***************************************************************************)
(* Model checking of RpsDriver at inputs StartStress can hand a worker: a *)
(* two-minute run (StressTime in seconds) at two ticks a second, every    *)
(* Constant rate of 1..2 hits a second and every two-interval Step ramp   *)
(* of those rates with one-minute intervals, requests of up to 1.5 s.     *)
(***************************************************************************)
EXTENDS RpsDriver, FiniteSets, Functions

Rates == 1..2

\* StartStress converts minutes to seconds: a Step interval is a whole
\* minute, and a run of StressTime seconds has StressTime \div 60 of them.
MCTasks ==
    {[step |-> FALSE, nums |-> <<n>>, si |-> StressTime] : n \in Rates}
    \cup {[step |-> TRUE, nums |-> r, si |-> 60] : r \in [1..StressTime \div 60 -> Rates]}

MaxTicks == (StressTime + 1) * Per + MaxReq

TypeOK ==
    /\ task \in Tasks /\ now \in 0..MaxTicks
    /\ dpc \in {"top", "sleep", "send", "close", "wait", "done"}
    /\ count \in Nat /\ freq \in Rates /\ cm \subseteq 1..Len(Nums)
    /\ idle \in Nat /\ spawned \in Nat /\ stop \in BOOLEAN
    /\ IsABag(busy) /\ IsABag(sent) /\ late \in Nat

\* Hits handed over in the ticks of second k: (k-1)*Per < t <= k*Per.
HitsIn(k) == LET ts == {t \in BagToSet(sent) : (k - 1) * Per < t /\ t <= k * Per}
             IN  BagCardinality([t \in ts |-> CopiesIn(t, sent)])

NoStop == stopsSent = 0

\* The interval second k (counted from 1) lies in.

\* A Constant run that is not stopped sends exactly Num hits in every
\* second of the stress time (runRpsRequest with ConstantPacer: the loop
\* sleeps to each hit's due time and breaks once elapsed > du), none after.
ConstantRateKept ==
    (dpc = "done" /\ ~Step /\ NoStop) =>
        /\ \A k \in 1..StressTime : HitsIn(k) = Nums[1]
        /\ \A t \in BagToSet(sent) : t <= Du

SecondsInterval(k) == GoMin(Len(Nums), (k - 1) \div task.si + 1)

\* A Step run that is not stopped sends Nums[k] hits in every second of
\* interval k (runStepRpsRequest: Pace with the old rate, then the switch
\* of Freq, count and origin on the first loop top of a new interval).
StepRateFollowsRamp ==
    (dpc = "done" /\ Step /\ NoStop) =>
        \A k \in 1..StressTime : HitsIn(k) = Nums[SecondsInterval(k)]

\* A Stop between the loop's check of the flag and its send lets one more
\* hit out (the flag is read after the sleep, not before the select), and
\* no more: the next loop top sees it.
AtMostOneLate == late <= 1

MaxRate == 2

\* requestFromChan goroutines are reused: a new one is spawned only when
\* every goroutine is in goRequest, which a hit stays in for at most
\* MaxReq ticks (and one whose request ends in this tick may not be back
\* on taskChan yet), so the pool never exceeds the hits of MaxReq + 1
\* ticks plus the first goroutine.
GoroutinesBounded == spawned <= (MaxRate * (MaxReq + 1)) \div Per + 1

\* Every run ends: the loop breaks at the stress time or on a stop, and
\* wg.Wait returns once the requests in flight have.
RunEnds == <>(dpc = "done")

=============================================================================
