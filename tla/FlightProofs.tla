----------------------------- MODULE FlightProofs -----------------------------
(***************************************************************************)
(* Proofs of the safety properties of Flight, for any types of aircraft    *)
(* and any limits of the counts that satisfy FlightAssumption.             *)
(***************************************************************************)
EXTENDS Flight, TLAPS

USE FlightAssumption

\* A count in its limits that moves by one stays in them.
LEMMA ClampStep ==
  ASSUME NEW limit \in Nat, NEW n \in 0 .. limit
  PROVE  /\ Clamp(n, limit) = n
         /\ Clamp(n + 1, limit) \in n .. n + 1 /\ Clamp(n + 1, limit) <= limit
         /\ Clamp(n - 1, limit) \in n - 1 .. n /\ Clamp(n - 1, limit) >= 0
         /\ Clamp(n - 1, limit) <= limit
BY DEF Clamp, AtMost

\* The count of fast fixes goes up by at most one, on a fast fix only, and down
\* by at most one, on a fix that speaks for the ground.
LEMMA AirCountSteps ==
  ASSUME TypeOK, NEW kind \in Kinds
  PROVE  /\ AirCount(kind) \in 0 .. CapAir[aircraft]
         /\ AirCount(kind) <= timeInFlight + 1
         /\ kind # "fast" => AirCount(kind) <= timeInFlight
         /\ AirCount(kind) >= timeInFlight - 1
         /\ ~Slow(kind) => AirCount(kind) >= timeInFlight
<1>1. CapAir[aircraft] \in Nat /\ timeInFlight \in 0 .. CapAir[aircraft]
  BY DEF TypeOK
<1> DEFINE limit == CapAir[aircraft]
<1>2. /\ Clamp(timeInFlight, limit) = timeInFlight
      /\ Clamp(timeInFlight + 1, limit) \in timeInFlight .. timeInFlight + 1
      /\ Clamp(timeInFlight + 1, limit) <= limit
      /\ Clamp(timeInFlight - 1, limit) \in timeInFlight - 1 .. timeInFlight
      /\ Clamp(timeInFlight - 1, limit) >= 0
      /\ Clamp(timeInFlight - 1, limit) <= limit
  BY <1>1, ClampStep
<1>3. CASE kind = "fast"
  <2>1. AirCount(kind) = Clamp(timeInFlight + 1, CapAir[aircraft])
    BY <1>3 DEF AirCount, Slow
  <2>2. QED
    BY <1>1, <1>3, <2>1, <1>2
<1>4. CASE Slow(kind)
  <2>1. kind # "fast"
    BY <1>4 DEF Slow
  <2>2. AirCount(kind) = Clamp(timeInFlight - 1, CapAir[aircraft])
    BY <1>4, <2>1 DEF AirCount
  <2>3. QED
    BY <1>1, <1>4, <2>1, <2>2, <1>2
<1>5. CASE kind # "fast" /\ ~Slow(kind)
  <2>1. AirCount(kind) = Clamp(timeInFlight, CapAir[aircraft])
    BY <1>5 DEF AirCount
  <2>2. QED
    BY <1>1, <1>5, <2>1, <1>2
<1>6. QED
  BY <1>3, <1>4, <1>5

LEMMA GroundCountSteps ==
  ASSUME TypeOK, NEW kind \in Kinds
  PROVE  /\ GroundCount(kind) \in 0 .. CapGround
         /\ GroundCount(kind) <= timeOnGround + 1
         /\ kind = "fast" => GroundCount(kind) = 0
<1>1. CapGround \in Nat /\ timeOnGround \in 0 .. CapGround
  BY DEF TypeOK
<1>2. /\ Clamp(timeOnGround, CapGround) = timeOnGround
      /\ Clamp(timeOnGround + 1, CapGround) \in timeOnGround .. timeOnGround + 1
      /\ Clamp(timeOnGround + 1, CapGround) <= CapGround
  BY <1>1, ClampStep
<1>3. CASE kind = "fast"
  <2>1. GroundCount(kind) = Clamp(0, CapGround)
    BY <1>3 DEF GroundCount
  <2>2. QED
    BY <1>1, <2>1 DEF Clamp, AtMost
<1>4. CASE kind \in {"low", "high"}
  <2>1. GroundCount(kind) = Clamp(timeOnGround + 1, CapGround)
    BY <1>4 DEF GroundCount
  <2>2. QED
    BY <1>1, <1>4, <2>1, <1>2
<1>5. CASE kind = "warn"
  <2>1. GroundCount(kind) = Clamp(timeOnGround, CapGround)
    BY <1>5 DEF GroundCount
  <2>2. QED
    BY <1>1, <1>5, <2>1, <1>2
<1>6. QED
  BY <1>3, <1>4, <1>5 DEF Kinds

LEMMA HistoryBounds ==
  ASSUME NEW n \in 0 .. Steps + 1
  PROVE  /\ AtMost(n + 1, Steps + 1) \in 0 .. Steps + 1
         /\ AtMost(n + 1, Steps + 1) >= n
         /\ AtMost(n + 1, Steps + 1) = n + 1 \/ AtMost(n + 1, Steps + 1) = Steps + 1
BY DEF AtMost

-----------------------------------------------------------------------------
(* What the parts of a calculation make of the data. *)

LEMMA ResetInfo ==
  ASSUME NEW info \in Info, NEW t \in Times
  PROVE  /\ Reset(info, t) \in Info
         /\ ~Reset(info, t).Flying
BY DEF Reset, Info

LEMMA TakeOffInfo ==
  ASSUME NEW info \in Info, NEW t \in Times
  PROVE  /\ TakeOff(info, t) \in Info
         /\ TakeOff(info, t).Flying
         /\ TakeOff(info, t).since = t /\ TakeOff(info, t).TakeOffTime = t
<1>1. Reset(info, t) \in Info /\ Reset(info, t).since = t
  BY DEF Reset, Info
<1>2. QED
  BY <1>1 DEF TakeOff, Info

LEMMA LandInfo ==
  ASSUME NEW info \in Info, finish \in Info
  PROVE  /\ Land(info) \in Info
         /\ ~Land(info).Flying
         /\ Land(info).TakeOffTime = info.TakeOffTime
         /\ Land(info).since \in {info.since, finish.since}
BY DEF Land, Info

-----------------------------------------------------------------------------
(* The initial states. *)

LEMMA InitInductive == Init => IInv
<1> SUFFICES ASSUME Init PROVE IInv
  OBVIOUS
<1>1. derived \in Info /\ ~derived.Flying /\ wish \in BOOLEAN
  BY DEF Init, Reset, Zero, Info
<1>2. local \in Info /\ finish \in Info
  BY DEF Init, Zero, Info
<1>3. timeInFlight \in 0 .. CapAir[aircraft] /\ timeOnGround \in 0 .. CapGround
  BY DEF Init
<1>4. fast \in 0 .. Steps + 1 /\ low \in 0 .. Steps + 1
  BY DEF Init
<1>9. TypeOK
  BY <1>1, <1>2, <1>3, <1>4 DEF Init, TypeOK
<1>5. NoLostSignal /\ PhaseToCome /\ SecondCopy
  BY DEF Init, NoLostSignal, PhaseToCome, SecondCopy
<1>6. ~Current.Flying
  BY <1>1 DEF Init, Current
<1>7. OnGroundOnlyAtTakeOff /\ CountsTell /\ StatsOfFlight
  BY <1>6 DEF Init, OnGroundOnlyAtTakeOff, CountsTell, StatsOfFlight
<1>8. QED
  BY <1>9, <1>5, <1>7 DEF IInv

-----------------------------------------------------------------------------
(* Every action keeps the invariant. *)

\* What leaves the data and the place in the calculation alone keeps the parts
\* of the invariant that are about them.
LEMMA FlightUnchanged ==
  ASSUME IInv,
         UNCHANGED <<derived, local, finish, counts, history>>,
         (pc \notin {"publish", "slow"} /\ pc' \notin {"publish", "slow"}) \/ pc' = pc
  PROVE  /\ (OnGroundOnlyAtTakeOff /\ CountsTell /\ StatsOfFlight)'
         /\ (PhaseToCome /\ SecondCopy)'
<1>1. Current' = Current
  BY DEF Current
<1>2. OnGroundOnlyAtTakeOff' /\ CountsTell' /\ StatsOfFlight'
  BY <1>1 DEF IInv, OnGroundOnlyAtTakeOff, CountsTell, StatsOfFlight, counts, history
<1>3. PhaseToCome' /\ SecondCopy'
  BY DEF IInv, PhaseToCome, SecondCopy, history
<1>4. QED
  BY <1>2, <1>3

\* The threads' waiting, waking and stopping.
LEMMA ThreadStep ==
  ASSUME IInv,
         \/ NewFix \/ Notify \/ Spurious \/ Sleep \/ Proceed
         \/ AskLanding \/ \E answer \in BOOLEAN : ForceLanding(answer)
         \/ RequestStop \/ NotifyStop \/ Join \/ UNCHANGED vars
  PROVE  IInv'
<1> USE DEF sync, counts, history
<1>1. CASE NewFix
  <2>1. TypeOK' /\ NoLostSignal'
    BY <1>1 DEF IInv, NewFix, TypeOK, NoLostSignal
  <2>2. QED
    BY <1>1, <2>1, FlightUnchanged DEF IInv, NewFix
<1>2. CASE Notify
  <2>1. TypeOK' /\ NoLostSignal'
    BY <1>2 DEF IInv, Notify, Woken, TypeOK, NoLostSignal
  <2>2. QED
    BY <1>2, <2>1, FlightUnchanged DEF IInv, Notify, Woken
<1>3. CASE Spurious
  <2>1. TypeOK' /\ NoLostSignal'
    BY <1>3 DEF IInv, Spurious, TypeOK, NoLostSignal
  <2>2. QED
    BY <1>3, <2>1, FlightUnchanged DEF IInv, Spurious
<1>4. CASE Sleep
  <2>1. TypeOK' /\ NoLostSignal'
    BY <1>4 DEF IInv, Sleep, TypeOK, NoLostSignal
  <2>2. QED
    BY <1>4, <2>1, FlightUnchanged DEF IInv, Sleep
<1>5. CASE Proceed
  <2>1. TypeOK' /\ NoLostSignal'
    BY <1>5 DEF IInv, Proceed, TypeOK, NoLostSignal
  <2>2. QED
    BY <1>5, <2>1, FlightUnchanged DEF IInv, Proceed
<1>6. CASE AskLanding
  <2>1. TypeOK' /\ NoLostSignal'
    BY <1>6 DEF IInv, AskLanding, TypeOK, NoLostSignal
  <2>2. QED
    BY <1>6, <2>1, FlightUnchanged DEF IInv, AskLanding
<1>7. CASE \E answer \in BOOLEAN : ForceLanding(answer)
  <2>1. TypeOK' /\ NoLostSignal'
    BY <1>7 DEF IInv, ForceLanding, TypeOK, NoLostSignal
  <2>2. QED
    BY <1>7, <2>1, FlightUnchanged DEF IInv, ForceLanding
<1>8. CASE RequestStop
  <2>1. TypeOK' /\ NoLostSignal'
    BY <1>8 DEF IInv, RequestStop, TypeOK, NoLostSignal
  <2>2. QED
    BY <1>8, <2>1, FlightUnchanged DEF IInv, RequestStop
<1>9. CASE NotifyStop
  <2>1. TypeOK' /\ NoLostSignal'
    BY <1>9 DEF IInv, NotifyStop, Woken, TypeOK, NoLostSignal
  <2>2. QED
    BY <1>9, <2>1, FlightUnchanged DEF IInv, NotifyStop, Woken
<1>10. CASE Join
  <2>1. TypeOK' /\ NoLostSignal'
    BY <1>10 DEF IInv, Join, TypeOK, NoLostSignal
  <2>2. QED
    BY <1>10, <2>1, FlightUnchanged DEF IInv, Join
<1>11. CASE UNCHANGED vars
  <2>1. TypeOK' /\ NoLostSignal'
    BY <1>11 DEF IInv, vars, TypeOK, NoLostSignal
  <2>2. QED
    BY <1>11, <2>1, FlightUnchanged DEF IInv, vars
<1>12. QED
  BY <1>1, <1>2, <1>3, <1>4, <1>5, <1>6, <1>7, <1>8, <1>9, <1>10, <1>11

\* The main thread's changes of CALCULATED_INFO touch neither the phase of the
\* flight nor its statistics.
LEMMA MainStep ==
  ASSUME IInv, ResetTask \/ \E auto \in BOOLEAN : MacCready(auto)
  PROVE  IInv'
<1>1. /\ derived' \in Info /\ derived'.Flying = derived.Flying
      /\ derived'.OnGround = derived.OnGround
      /\ derived'.TakeOffTime = derived.TakeOffTime /\ derived'.since = derived.since
      /\ wish' \in BOOLEAN
  BY DEF IInv, TypeOK, ResetTask, MacCready, Info
<1>2. UNCHANGED <<aircraft, sync, main, pc, local, slow, finish, counts, force, history>>
  BY DEF ResetTask, MacCready
<1>3. TypeOK' /\ NoLostSignal'
  BY <1>1, <1>2 DEF IInv, TypeOK, NoLostSignal, sync, counts, history
<1>4. /\ Current'.Flying = Current.Flying /\ Current'.OnGround = Current.OnGround
      /\ Current'.TakeOffTime = Current.TakeOffTime /\ Current'.since = Current.since
  BY <1>1, <1>2 DEF Current
<1>5. OnGroundOnlyAtTakeOff' /\ CountsTell' /\ StatsOfFlight'
  BY <1>2, <1>4 DEF IInv, OnGroundOnlyAtTakeOff, CountsTell, StatsOfFlight, counts, history
<1>6. PhaseToCome' /\ SecondCopy'
  BY <1>1, <1>2 DEF IInv, PhaseToCome, SecondCopy, history
<1>7. QED
  BY <1>3, <1>5, <1>6 DEF IInv

\* The two writes of the result.
LEMMA PublishStep ==
  ASSUME IInv, Publish \/ PublishSlow
  PROVE  IInv'
<1> USE DEF sync, counts, history
<1>1. Zero \in Info
  BY DEF Zero, Info
<1>2. TypeOK' /\ NoLostSignal'
  BY <1>1 DEF IInv, Publish, PublishSlow, TypeOK, NoLostSignal
<1>3. Current = local /\ Current' = local
  BY DEF Publish, PublishSlow, Current
<1>4. OnGroundOnlyAtTakeOff' /\ CountsTell' /\ StatsOfFlight'
  BY <1>3 DEF IInv, OnGroundOnlyAtTakeOff, CountsTell, StatsOfFlight, Publish, PublishSlow
<1>5. PhaseToCome' /\ SecondCopy'
  BY DEF PhaseToCome, SecondCopy, Publish, PublishSlow
<1>6. QED
  BY <1>2, <1>4, <1>5 DEF IInv

\* A calculation whose time has not advanced: only on the ground may it reset.
LEMMA BehindStep ==
  ASSUME IInv, NEW t \in Times, NEW kind \in Kinds, NEW jump \in BOOLEAN,
         Behind(t, kind, jump)
  PROVE  IInv'
<1> USE DEF sync, counts, history
<1> DEFINE reset == MayReset(derived, kind, jump)
<1>1. /\ pc = "calc" /\ pc' = "publish" /\ slow' = FALSE
      /\ local' = IF reset THEN Reset(derived, t) ELSE derived
      /\ timeInFlight' = IF reset THEN 0 ELSE timeInFlight
      /\ timeOnGround' = IF reset THEN 0 ELSE timeOnGround
      /\ fast' = IF reset THEN 0 ELSE fast
      /\ UNCHANGED <<aircraft, sync, main, derived, finish, force, wish, low, asked, later>>
  BY DEF Behind
<1>2. reset => ~derived.Flying
  BY DEF MayReset
<1>3. /\ local' \in Info /\ local'.Flying = derived.Flying
      /\ derived.Flying => local' = derived
  <2>1. derived \in Info /\ derived.Flying \in BOOLEAN
    BY DEF IInv, TypeOK, Info
  <2>2. Reset(derived, t) \in Info /\ ~Reset(derived, t).Flying
    BY <2>1, ResetInfo
  <2>3. Reset(derived, t).Flying \in BOOLEAN
    BY <2>2 DEF Info
  <2>4. QED
    BY <1>1, <1>2, <2>1, <2>2, <2>3
<1>4. Current = derived /\ Current' = local'
  BY <1>1 DEF Current
<1>5. /\ timeInFlight' \in 0 .. CapAir[aircraft] /\ timeOnGround' \in 0 .. CapGround
      /\ fast' \in 0 .. Steps + 1
  BY <1>1 DEF IInv, TypeOK
<1>6. TypeOK'
  BY <1>1, <1>3, <1>5 DEF IInv, TypeOK
<1>7. NoLostSignal' /\ SecondCopy'
  BY <1>1 DEF NoLostSignal, SecondCopy
<1>8. OnGroundOnlyAtTakeOff' /\ StatsOfFlight'
  <2>1. CASE derived.Flying
    <3>1. Current' = Current
      BY <1>3, <1>4, <2>1
    <3>2. QED
      BY <1>1, <3>1 DEF IInv, OnGroundOnlyAtTakeOff, StatsOfFlight
  <2>2. CASE ~derived.Flying
    BY <1>3, <1>4, <2>2 DEF OnGroundOnlyAtTakeOff, StatsOfFlight
  <2>3. QED
    BY <2>1, <2>2
<1>9. CountsTell'
  BY <1>1, <1>2, <1>3, <1>4 DEF IInv, CountsTell
<1>10. PhaseToCome'
  BY <1>1, <1>3 DEF PhaseToCome
<1>11. QED
  BY <1>6, <1>7, <1>8, <1>9, <1>10 DEF IInv

\* A full calculation: take-off, landing, or neither.
LEMMA AdvanceStep ==
  ASSUME IInv, NEW t \in Times, NEW kind \in Kinds,
         NEW event \in {"none", "start", "finish"},
         Advance(t, kind, event)
  PROVE  IInv'
<1> USE DEF sync, counts, history
<1> DEFINE ground  == GroundCount(kind)
           air     == AirLeft(AirCount(kind))
           before  == [derived EXCEPT !.OnGround = OnGroundAfter(derived, ground)]
           takeoff == ~derived.Flying /\ air > Steps
           landing == derived.Flying /\ air = 0 /\ aircraft # "car"
           flown   == IF takeoff THEN TakeOff(before, t)
                      ELSE IF landing THEN Land(before) ELSE before
           settled == IF derived.Flying THEN flown
                      ELSE [flown EXCEPT !.OnGround = @ \/ ground > Steps]
           crossed == event = "finish" /\ ~settled.ValidFinish
           result  == CASE crossed -> [settled EXCEPT !.ValidFinish = TRUE]
                        [] event = "start" -> [settled EXCEPT !.ValidFinish = FALSE]
                        [] OTHER -> settled
<1>1. /\ pc = "calc" /\ pc' = "publish" /\ slow' = TRUE /\ force' = FALSE
      /\ local' = result
      /\ finish' = IF crossed THEN result ELSE IF takeoff THEN flown ELSE finish
      /\ timeInFlight' = air /\ timeOnGround' = ground
      /\ fast' = IF landing THEN 0
                 ELSE IF kind = "fast" THEN AtMost(fast + 1, Steps + 1) ELSE fast
      /\ low' = IF takeoff THEN 0
                ELSE IF Slow(kind) THEN AtMost(low + 1, Steps + 1) ELSE low
      /\ asked' = (~takeoff /\ (asked \/ (derived.Flying /\ force)))
      /\ later' = ~takeoff
      /\ UNCHANGED <<aircraft, sync, main, derived, wish>>
  BY DEF Advance
<1> HIDE DEF ground, air, before, takeoff, landing, flown, settled, crossed, result
<1>2. TypeOK /\ Current = derived /\ Current' = local'
  BY <1>1 DEF IInv, Current
\* The counts.
<1>3. /\ ground \in 0 .. CapGround /\ ground <= timeOnGround + 1
      /\ kind = "fast" => ground = 0
  BY <1>2, GroundCountSteps DEF ground
<1>4. /\ air \in 0 .. CapAir[aircraft] /\ air <= timeInFlight + 1
      /\ kind # "fast" => air <= timeInFlight
      /\ ~(derived.Flying /\ force) => /\ air >= timeInFlight - 1
                                       /\ ~Slow(kind) => air >= timeInFlight
  <2>1. CapAir[aircraft] \in Nat /\ timeInFlight \in Nat
    BY <1>2 DEF TypeOK
  <2>2. QED
    BY <1>2, <2>1, AirCountSteps DEF air, AirLeft
<1>5. takeoff => kind = "fast" /\ ground = 0 /\ timeInFlight = Steps /\ fast >= Steps
  BY <1>2, <1>3, <1>4 DEF takeoff, IInv, CountsTell, TypeOK
<1>6. /\ fast' \in 0 .. Steps + 1 /\ low' \in 0 .. Steps + 1
      /\ takeoff => fast' > Steps
      /\ ~landing => fast' >= fast
      /\ kind = "fast" /\ ~landing => fast' >= fast + 1 \/ fast' > Steps
      /\ ~takeoff => low' >= low
      /\ ~takeoff /\ Slow(kind) => low' >= low + 1 \/ low' > Steps
  <2>1. fast \in 0 .. Steps + 1 /\ low \in 0 .. Steps + 1
    BY <1>2 DEF TypeOK
  <2>2. takeoff => ~landing
    BY DEF takeoff, landing
  <2>3. QED
    <3>1. /\ AtMost(fast + 1, Steps + 1) \in 0 .. Steps + 1
          /\ AtMost(fast + 1, Steps + 1) >= fast
          /\ AtMost(fast + 1, Steps + 1) \in {fast + 1, Steps + 1}
      BY <2>1, HistoryBounds
    <3>2. /\ AtMost(low + 1, Steps + 1) \in 0 .. Steps + 1
          /\ AtMost(low + 1, Steps + 1) >= low
          /\ AtMost(low + 1, Steps + 1) \in {low + 1, Steps + 1}
      BY <2>1, HistoryBounds
    <3>3. QED
      BY <1>1, <1>5, <2>1, <2>2, <3>1, <3>2
\* The result.
<1>7. /\ before \in Info /\ before.Flying = derived.Flying
      /\ before.OnGround = OnGroundAfter(derived, ground)
      /\ before.TakeOffTime = derived.TakeOffTime /\ before.since = derived.since
  BY <1>2 DEF before, TypeOK, Info, OnGroundAfter
<1>8. /\ flown \in Info
      /\ takeoff => flown.Flying /\ flown.since = t /\ flown.TakeOffTime = t
      /\ landing => /\ ~flown.Flying /\ flown.TakeOffTime = derived.TakeOffTime
                    /\ flown.since \in {derived.since, finish.since}
      /\ ~takeoff /\ ~landing => flown = before
  BY <1>2, <1>7, TakeOffInfo, LandInfo DEF flown, TypeOK, takeoff, landing
<1>9. /\ result \in Info /\ result.Flying = flown.Flying
      /\ result.TakeOffTime = flown.TakeOffTime /\ result.since = flown.since
      /\ derived.Flying => result.OnGround = flown.OnGround
  <2>1. /\ settled \in Info /\ settled.Flying = flown.Flying
        /\ settled.TakeOffTime = flown.TakeOffTime /\ settled.since = flown.since
        /\ derived.Flying => settled = flown
    BY <1>8 DEF settled, Info
  <2>2. \/ result = settled
        \/ result = [settled EXCEPT !.ValidFinish = TRUE]
        \/ result = [settled EXCEPT !.ValidFinish = FALSE]
    BY DEF result
  <2>3. QED
    BY <2>1, <2>2 DEF Info
<1>10. /\ local'.Flying <=> takeoff \/ (derived.Flying /\ ~landing)
       /\ finish' \in Info
  BY <1>1, <1>2, <1>7, <1>8, <1>9 DEF takeoff, landing, TypeOK
\* The parts of the invariant.
<1>11. TypeOK'
  BY <1>1, <1>2, <1>3, <1>4, <1>6, <1>9, <1>10 DEF TypeOK
<1>12. NoLostSignal' /\ SecondCopy'
  BY <1>1 DEF NoLostSignal, SecondCopy
<1>13. OnGroundOnlyAtTakeOff'
  <2>1. SUFFICES ASSUME local'.Flying, ~takeoff PROVE ~local'.OnGround
    BY <1>1, <1>2 DEF OnGroundOnlyAtTakeOff
  <2>2. derived.Flying /\ ~landing
    BY <1>10, <2>1
  <2>3. local'.OnGround = OnGroundAfter(derived, ground)
    BY <1>1, <1>7, <1>8, <1>9, <2>1, <2>2
  <2>4. derived.OnGround => timeOnGround = 0
    BY <1>2, <2>2 DEF IInv, OnGroundOnlyAtTakeOff, CountsTell
  <2>5. QED
    <3>1. derived.OnGround => ~(ground > Steps)
      BY <1>2, <1>3, <2>4 DEF TypeOK
    <3>2. QED
      BY <2>3, <3>1 DEF OnGroundAfter
<1>14. CountsTell'
  <2>1. CASE takeoff
    BY <1>1, <1>2, <1>4, <1>5, <1>6, <1>10, <2>1 DEF CountsTell, takeoff
  <2>2. CASE derived.Flying /\ ~landing
    <3>1. asked \/ timeInFlight + low > Steps
      BY <1>2, <2>2 DEF IInv, CountsTell
    <3>2. asked' \/ timeInFlight' + low' > Steps
      BY <1>1, <1>2, <1>4, <1>6, <2>2, <3>1 DEF takeoff, TypeOK
    <3>3. QED
      BY <1>1, <1>2, <1>10, <2>2, <3>2 DEF CountsTell, takeoff
  <2>3. CASE landing
    BY <1>1, <1>2, <1>10, <2>3 DEF CountsTell, landing, takeoff
  <2>4. CASE ~derived.Flying /\ ~takeoff
    <3>1. timeInFlight <= fast /\ timeInFlight <= Steps /\ ~landing /\ air <= Steps
      BY <1>2, <1>4, <2>4 DEF IInv, CountsTell, landing, takeoff, TypeOK
    <3>2. air <= fast'
      BY <1>2, <1>4, <1>6, <3>1 DEF TypeOK
    <3>3. QED
      BY <1>1, <1>2, <1>10, <2>4, <3>1, <3>2 DEF CountsTell
  <2>5. QED
    BY <2>1, <2>2, <2>3, <2>4 DEF landing
<1>15. StatsOfFlight'
  <2>1. CASE takeoff
    BY <1>1, <1>2, <1>8, <1>9, <2>1 DEF StatsOfFlight
  <2>2. CASE derived.Flying /\ ~landing
    <3>1. derived.since = derived.TakeOffTime /\ finish.since = derived.TakeOffTime
      BY <1>2, <2>2 DEF IInv, StatsOfFlight
    <3>2. local'.since = derived.since /\ local'.TakeOffTime = derived.TakeOffTime
      BY <1>1, <1>7, <1>8, <1>9, <2>2 DEF takeoff
    <3>3. finish' = local' \/ finish' = finish
      BY <1>1, <2>2 DEF takeoff
    <3>4. QED
      BY <1>2, <3>1, <3>2, <3>3 DEF StatsOfFlight
  <2>3. CASE ~local'.Flying
    BY <1>2, <2>3 DEF StatsOfFlight
  <2>4. QED
    BY <1>10, <2>1, <2>2, <2>3
<1>16. PhaseToCome'
  <2>1. CASE takeoff
    BY <1>1, <1>6, <2>1 DEF PhaseToCome, takeoff
  <2>2. CASE landing
    <3>1. asked \/ timeInFlight + low > Steps
      BY <1>2, <2>2 DEF IInv, CountsTell, landing
    <3>2. asked' \/ low' > Steps
      BY <1>1, <1>2, <1>4, <1>6, <2>2, <3>1 DEF takeoff, landing, TypeOK
    <3>3. local'.TakeOffTime = derived.TakeOffTime /\ local'.since = derived.TakeOffTime
      BY <1>1, <1>2, <1>8, <1>9, <2>2 DEF IInv, StatsOfFlight, landing
    <3>4. QED
      BY <1>1, <3>2, <3>3, <2>2 DEF PhaseToCome, landing
  <2>3. CASE ~takeoff /\ ~landing
    BY <1>1, <1>10, <2>3 DEF PhaseToCome
  <2>4. QED
    BY <2>1, <2>2, <2>3
<1>17. QED
  BY <1>11, <1>12, <1>13, <1>14, <1>15, <1>16 DEF IInv

LEMMA NextInductive == IInv /\ [Next]_vars => IInv'
<1> SUFFICES ASSUME IInv, [Next]_vars PROVE IInv'
  OBVIOUS
<1>1. CASE Calculate
  <2>1. PICK t \in Times, kind \in Kinds :
            \/ \E jump \in BOOLEAN : Behind(t, kind, jump)
            \/ \E event \in {"none", "start", "finish"} : Advance(t, kind, event)
    BY <1>1 DEF Calculate
  <2>2. QED
    BY <2>1, BehindStep, AdvanceStep
<1>2. CASE Publish \/ PublishSlow
  BY <1>2, PublishStep
<1>3. CASE ResetTask \/ \E auto \in BOOLEAN : MacCready(auto)
  BY <1>3, MainStep
<1>4. CASE Stopped \/ UNCHANGED vars
  BY <1>4, ThreadStep DEF Stopped
<1>5. CASE NewFix \/ Notify \/ Spurious \/ Sleep \/ Proceed \/ AskLanding
  BY <1>5, ThreadStep
<1>6. CASE \/ \E answer \in BOOLEAN : ForceLanding(answer)
           \/ RequestStop \/ NotifyStop \/ Join
  BY <1>6, ThreadStep
<1>7. QED
  BY <1>1, <1>2, <1>3, <1>4, <1>5, <1>6 DEF Next, Calculation, Main

-----------------------------------------------------------------------------
(* The theorems. *)

\* The inductive invariant holds: the counts, the copies and the published data
\* fit together in every state.
THEOREM Strengthening == Spec => []IInv
<1>1. Init => IInv
  BY InitInductive
<1>2. IInv /\ [Next]_vars => IInv'
  BY NextInductive
<1>3. QED
  BY <1>1, <1>2, PTL DEF Spec

\* Every variable keeps its type; the counts stay within their limits.
THEOREM TypeCorrect == Spec => []TypeOK
<1>1. IInv => TypeOK
  BY DEF IInv
<1>2. QED
  BY <1>1, Strengthening, PTL

\* The calculation thread never sleeps on a fix or on the request to stop.
THEOREM SignalsArrive == Spec => []NoLostSignal
<1>1. IInv => NoLostSignal
  BY DEF IInv
<1>2. QED
  BY <1>1, Strengthening, PTL

\* Flying and on the ground at once is seen at take-off only.
THEOREM GroundLeft == Spec => []OnGroundOnlyAtTakeOff
<1>1. IInv => OnGroundOnlyAtTakeOff
  BY DEF IInv
<1>2. QED
  BY <1>1, Strengthening, PTL

\* Only the two writes of the calculation thread change Flying.
LEMMA PhaseChanges ==
  ASSUME IInv, [Next]_vars, derived'.Flying # derived.Flying
  PROVE  Publish
<1>1. CASE ResetTask \/ \E auto \in BOOLEAN : MacCready(auto)
  BY <1>1 DEF ResetTask, MacCready, IInv, TypeOK, Info
<1>2. CASE PublishSlow
  BY <1>2 DEF PublishSlow, IInv, SecondCopy
<1>3. CASE Calculate
  BY <1>3 DEF Calculate, Behind, Advance
<1>4. CASE NewFix \/ Notify \/ Spurious \/ Sleep \/ Proceed \/ AskLanding
  BY <1>4 DEF NewFix, Notify, Spurious, Sleep, Proceed, AskLanding
<1>5. CASE \/ \E answer \in BOOLEAN : ForceLanding(answer)
           \/ RequestStop \/ NotifyStop \/ Join \/ Stopped \/ UNCHANGED vars
  BY <1>5 DEF ForceLanding, RequestStop, NotifyStop, Join, Stopped, vars
<1>6. QED
  BY <1>1, <1>2, <1>3, <1>4, <1>5 DEF Next, Calculation, Main

\* A flight begins and ends for its fixes, never for what the clock does.
THEOREM PhasesHaveFixes == Spec => PhaseNeedsFixes
<1>1. ASSUME IInv, [Next]_vars
      PROVE  [/\ ~derived.Flying /\ derived'.Flying => fast > Steps
              /\ derived.Flying /\ ~derived'.Flying => asked \/ low > Steps]_vars
  <2>1. CASE Publish
    BY <1>1, <2>1 DEF IInv, PhaseToCome, Publish
  <2>2. CASE ~Publish
    BY <1>1, <2>2, PhaseChanges
  <2>3. QED
    BY <2>1, <2>2
<1>2. QED
  BY <1>1, Strengthening, PTL DEF Spec, PhaseNeedsFixes

\* After landing the pilot reviews the flight that has just ended.
THEOREM FlightReviewed == Spec => ReviewedFlight
<1>1. ASSUME IInv, [Next]_vars
      PROVE  [derived.Flying /\ ~derived'.Flying =>
                 /\ derived'.TakeOffTime = derived.TakeOffTime
                 /\ derived'.since = derived.TakeOffTime]_vars
  <2>1. CASE Publish
    BY <1>1, <2>1 DEF IInv, PhaseToCome, Publish
  <2>2. CASE ~Publish
    BY <1>1, <2>2, PhaseChanges
  <2>3. QED
    BY <2>1, <2>2
<1>2. QED
  BY <1>1, Strengthening, PTL DEF Spec, ReviewedFlight

=============================================================================
