----------------------- MODULE MouseAccumulatorProofs -----------------------
(***************************************************************************)
(* Theorems about MouseAccumulator, for any width of the sums, any set of  *)
(* button states and any batch sizes whose batches fit into a sum.         *)
(***************************************************************************)
EXTENDS MouseAccumulator, TLAPS

\* A conversion to the width of a sum yields a sum ...
LEMMA WrapType == \A n \in Int : Wrap(n) \in Sum
<1> SUFFICES ASSUME NEW n \in Int PROVE Wrap(n) \in Sum
  OBVIOUS
<1> DEFINE m == 2 * Half
<1>1. m \in Nat /\ m > 0
  BY WidthAssumption
<1>2. (n + Half) % m \in 0..(m - 1)
  BY <1>1, WidthAssumption
<1> QED
  BY <1>2, WidthAssumption DEF Wrap, Sum

\* ... and leaves a number that fits as it is.
LEMMA WrapIdentity == \A n \in Sum : Wrap(n) = n
<1> SUFFICES ASSUME NEW n \in Sum PROVE Wrap(n) = n
  OBVIOUS
<1> DEFINE m == 2 * Half
           a == n + Half
<1>1. m \in Nat /\ a \in Nat /\ a < m
  BY WidthAssumption DEF Sum
<1>2. a % m = a
  <2> HIDE DEF m, a
  <2> QED
    BY <1>1
<1> QED
  BY <1>2, WidthAssumption DEF Wrap, Sum

\* What n reports can add up to grows with n.
LEMMA ReachStep == \A n \in Nat : (n + 1) * MaxMove = n * MaxMove + MaxMove
BY WidthAssumption

LEMMA ReachNat == \A n \in Nat : n * MaxMove \in Nat
BY WidthAssumption

LEMMA ReachMonotonic == \A i, n \in Nat : i <= n => i * MaxMove <= n * MaxMove
BY WidthAssumption

-----------------------------------------------------------------------------
(* The inductive invariant.                                                *)

\* A device that is not known to be fast has not come to the threshold.
StillCounting == ~highSpeed => fastEvents < FastThreshold

Inv == TypeOK /\ StillCounting /\ SumBounded /\ PendingIsServed

LEMMA InvInit == Init => Inv
<1> SUFFICES ASSUME Init PROVE Inv
  OBVIOUS
<1> USE DEF Init
<1>1. TypeOK
  <2>1. 0 \in Sum /\ 0 \in 0..FastThreshold
    BY WidthAssumption, FastAssumption DEF Sum
  <2>2. Still \in Frame
    BY ButtonsAssumption DEF Still, Frame
  <2>3. fastEvents \in 0..FastThreshold /\ acc \in Sum /\ owed \in Sum /\ batchCount \in Nat
    BY <2>1
  <2> QED
    BY <2>2, <2>3, ButtonsAssumption DEF TypeOK
<1>2. SumBounded
  BY WidthAssumption, BatchAssumption DEF SumBounded
<1> QED
  BY <1>1, <1>2, FastAssumption DEF Inv, StillCounting, PendingIsServed

\* check_high_speed_device.
LEMMA CheckHighSpeedKeeps ==
  ASSUME TypeOK, StillCounting, NEW fast \in BOOLEAN, CheckHighSpeed(fast)
  PROVE  /\ seen' \in BOOLEAN /\ highSpeed' \in BOOLEAN
         /\ fastEvents' \in 0..FastThreshold
         /\ StillCounting'
<1>1. CASE highSpeed
  BY <1>1 DEF TypeOK, StillCounting, CheckHighSpeed, speed
<1>2. CASE ~highSpeed
  <2>1. seen' /\ (highSpeed' <=> seen /\ fast /\ fastEvents + 1 >= FastThreshold)
    BY <1>2 DEF CheckHighSpeed
  <2>2. fastEvents \in Nat /\ fastEvents < FastThreshold
    BY <1>2 DEF TypeOK, StillCounting
  <2>3. CASE seen /\ fast
    <3>1. fastEvents' = fastEvents + 1
      BY <1>2, <2>3 DEF CheckHighSpeed
    <3> QED
      BY <1>2, <2>1, <2>2, <2>3, <3>1, FastAssumption DEF StillCounting, CheckHighSpeed
  <2>4. CASE ~(seen /\ fast)
    <3>1. fastEvents' \in {0, fastEvents}
      BY <1>2, <2>4 DEF CheckHighSpeed
    <3> QED
      BY <1>2, <2>1, <2>2, <2>4, <3>1, FastAssumption DEF StillCounting, CheckHighSpeed
  <2> QED
    BY <2>3, <2>4
<1> QED
  BY <1>1, <1>2

\* Sending leaves the host with buttons of the frame, or with what it had.
LEMMA DeliverType ==
  ASSUME TypeOK, NEW frame \in Frame, NEW new \in Int, Deliver(frame, new)
  PROVE  host' \in Buttons /\ owed' \in Sum
<1>1. CASE stackUp /\ link
  <2>1. owed + new - frame.motion \in Int
    BY DEF TypeOK, Sum, Frame
  <2> QED
    BY <1>1, <2>1, WrapType DEF Deliver, Frame
<1>2. CASE ~(stackUp /\ link)
  BY <1>2, WidthAssumption DEF Deliver, TypeOK, Sum
<1> QED
  BY <1>1, <1>2

\* A full batch, and so every sum, fits.
LEMMA SumFits ==
  ASSUME TypeOK, batchCount < batchSize
  PROVE  (batchCount + 1) * MaxMove < Half
<1>1. batchSize \in Nat /\ batchSize * MaxMove < Half
  BY BatchAssumption DEF TypeOK
<1>2. batchCount + 1 \in Nat /\ batchCount + 1 <= batchSize
  BY <1>1 DEF TypeOK
<1>3. (batchCount + 1) * MaxMove <= batchSize * MaxMove
  BY <1>1, <1>2, ReachMonotonic
<1>4. (batchCount + 1) * MaxMove \in Nat /\ batchSize * MaxMove \in Nat
  BY <1>1, <1>2, ReachNat
<1> QED
  BY <1>1, <1>3, <1>4, WidthAssumption

\* A report of a fast device, first the sum ...
LEMMA AccumulateKeeps ==
  ASSUME TypeOK, SumBounded, NEW dx \in Moves, NEW b \in Buttons,
         Accumulate(dx, b), batchCount < batchSize
  PROVE  /\ acc' \in Sum /\ owed' \in Sum /\ batchCount' \in Nat /\ SumBounded'
<1> DEFINE reach == batchCount * MaxMove
           next == (batchCount + 1) * MaxMove
<1>1. reach \in Nat /\ next = reach + MaxMove /\ next < Half
  BY ReachNat, ReachStep, SumFits DEF TypeOK
<1>2. acc \in Int /\ dx \in Int /\ -reach <= acc /\ acc <= reach
      /\ -MaxMove <= dx /\ dx <= MaxMove
  BY WidthAssumption DEF SumBounded, Moves, TypeOK, Sum
<1>3. -next <= acc + dx /\ acc + dx <= next
  <2> HIDE DEF reach, next
  <2> QED
    BY <1>1, <1>2, WidthAssumption
<1>4. acc + dx \in Sum
  <2> HIDE DEF reach, next
  <2> QED
    BY <1>1, <1>2, <1>3, WidthAssumption DEF Sum
<1>5. acc' = acc + dx /\ batchCount' = batchCount + 1
  BY <1>4, WrapIdentity DEF Accumulate
<1>6. owed' \in Sum
  <2>1. owed + dx \in Int
    BY <1>2 DEF TypeOK, Sum
  <2> QED
    BY <2>1, WrapType, WidthAssumption DEF Accumulate, Sum
<1>7. \E n \in BatchSizes : batchCount + 1 <= n
  BY BatchAssumption DEF TypeOK
<1> QED
  BY <1>3, <1>4, <1>5, <1>6, <1>7 DEF SumBounded, TypeOK

\* ... or sends what has been summed up.
LEMMA FlushKeeps ==
  ASSUME TypeOK, SumBounded, NEW dx \in Moves, NEW b \in Buttons, Flush(dx, b)
  PROVE  /\ acc' \in Sum /\ accButtons' \in Buttons /\ batchCount' \in Nat
         /\ buffer' \in Frame /\ host' \in Buttons /\ owed' \in Sum
         /\ SumBounded' /\ acc' \in {0, acc}
<1> DEFINE frame == [motion |-> acc, buttons |-> b]
<1>1. frame \in Frame /\ dx \in Int
  BY WidthAssumption DEF TypeOK, Frame, Sum, Moves
<1>2. buffer' = frame /\ Deliver(frame, dx)
  BY DEF Flush, SendNow
<1>3. buffer' \in Frame /\ host' \in Buttons /\ owed' \in Sum
  BY <1>1, <1>2, DeliverType
<1>4. CASE batchCount >= batchSize
  <2>1. acc' = 0 /\ batchCount' = 0 /\ accButtons' = b
    BY <1>4 DEF Flush
  <2>2. 0 \in Sum /\ 0 * MaxMove = 0
    BY WidthAssumption DEF Sum
  <2>3. \E n \in BatchSizes : 0 <= n
    <3>1. batchSize \in BatchSizes /\ batchSize \in Nat
      BY BatchAssumption DEF TypeOK
    <3> QED
      BY <3>1
  <2> QED
    BY <1>3, <2>1, <2>2, <2>3 DEF SumBounded
<1>5. CASE ~(batchCount >= batchSize)
  <2>1. acc' = acc /\ batchCount' = batchCount /\ accButtons' = b
    BY <1>5 DEF Flush
  <2> QED
    BY <1>3, <2>1 DEF SumBounded, TypeOK
<1> QED
  BY <1>4, <1>5

-----------------------------------------------------------------------------
(* One step keeps the invariant.                                           *)

LEMMA ReportKeeps ==
  ASSUME Inv, NEW dx \in Moves, NEW b \in Buttons, NEW fast \in BOOLEAN,
         Report(dx, b, fast)
  PROVE  Inv'
<1> USE DEF Inv
<1>1. /\ seen' \in BOOLEAN /\ highSpeed' \in BOOLEAN
      /\ fastEvents' \in 0..FastThreshold /\ StillCounting'
  BY CheckHighSpeedKeeps DEF Report
<1>2. /\ UNCHANGED << stackUp, link, connected, batchSize, cb, args >>
      /\ stackUp /\ device' = b
  BY DEF Report
<1>3. CASE highSpeed' /\ (accButtons # b \/ batchCount >= batchSize)
  <2>1. Flush(dx, b) /\ timer'
    BY <1>3 DEF Report, HighSpeedReport
  <2> QED
    BY <1>1, <1>2, <2>1, FlushKeeps DEF TypeOK, PendingIsServed
<1>4. CASE highSpeed' /\ ~(accButtons # b \/ batchCount >= batchSize)
  <2>1. Accumulate(dx, b) /\ timer'
    BY <1>4 DEF Report, HighSpeedReport
  <2>2. batchCount < batchSize
    BY <1>4, BatchAssumption DEF TypeOK
  <2>3. accButtons' = b /\ UNCHANGED << buffer, host >>
    BY <2>1 DEF Accumulate
  <2> QED
    BY <1>1, <1>2, <2>1, <2>2, <2>3, AccumulateKeeps DEF TypeOK, PendingIsServed
<1>5. CASE ~highSpeed'
  <2> DEFINE frame == [motion |-> dx, buttons |-> b]
  <2>1. PlainReport(dx, b)
    BY <1>5 DEF Report
  <2>2. frame \in Frame /\ dx \in Int
    BY WidthAssumption DEF Frame, Moves
  <2>3. buffer' \in Frame /\ host' \in Buttons /\ owed' \in Sum
    BY <2>1, <2>2, DeliverType DEF PlainReport, SendNow
  <2>4. acc' = 0 /\ batchCount' = batchCount /\ timer' = FALSE
    BY <2>1 DEF PlainReport, PendingIsServed
  <2>5. accButtons' \in Buttons
    BY <2>1, ButtonsAssumption DEF PlainReport, TypeOK
  <2>6. 0 \in Sum
    BY WidthAssumption DEF Sum
  <2>7. SumBounded'
    <3>1. batchCount * MaxMove \in Nat
      BY ReachNat DEF TypeOK
    <3> QED
      BY <2>4, <3>1 DEF SumBounded
  <2> QED
    BY <1>1, <1>2, <2>3, <2>4, <2>5, <2>6, <2>7 DEF TypeOK, PendingIsServed
<1> QED
  BY <1>3, <1>4, <1>5

\* The callback of the timer.
LEMMA CallbackKeeps ==
  ASSUME Inv, Callback
  PROVE  Inv'
<1> USE DEF Inv, sums, speed, view
<1>1. CASE CallbackLoads
  <2>1. args' \in Frame
    BY <1>1 DEF CallbackLoads, TypeOK, Frame, Sum
  <2> QED
    BY <1>1, <2>1 DEF CallbackLoads, TypeOK, StillCounting, SumBounded, PendingIsServed
<1>2. CASE CallbackFills
  BY <1>2 DEF CallbackFills, TypeOK, StillCounting, SumBounded, PendingIsServed
<1>3. CASE CallbackSends
  <2>1. host' \in Buttons /\ owed' \in Sum
    BY <1>3, DeliverType DEF CallbackSends, TypeOK
  <2> QED
    BY <1>3, <2>1 DEF CallbackSends, TypeOK, StillCounting, SumBounded, PendingIsServed
<1>4. CASE CallbackClears
  <2>1. Still \in Frame /\ 0 \in Sum
    BY ButtonsAssumption, WidthAssumption DEF Still, Frame, Sum
  <2>2. batchCount * MaxMove \in Nat
    BY ReachNat DEF TypeOK
  <2>3. SumBounded'
    BY <1>4, <2>2 DEF CallbackClears, SumBounded
  <2> QED
    BY <1>4, <2>1, <2>3 DEF CallbackClears, TypeOK, StillCounting, PendingIsServed
<1> QED
  BY <1>1, <1>2, <1>3, <1>4 DEF Callback

\* The host and the bridge.
LEMMA OutsideKeeps ==
  ASSUME Inv, Connect \/ Disconnect \/ Pause \/ Resume
  PROVE  Inv'
<1> USE DEF Inv, sums, speed, view
<1>1. 0 \in Sum /\ 0 \in Buttons
  BY WidthAssumption, ButtonsAssumption DEF Sum
<1>2. CASE Connect
  BY <1>1, <1>2 DEF Connect, TypeOK, StillCounting, SumBounded, PendingIsServed
<1>3. CASE Disconnect
  BY <1>1, <1>3 DEF Disconnect, TypeOK, StillCounting, SumBounded, PendingIsServed
<1>4. CASE Pause
  BY <1>1, <1>4 DEF Pause, TypeOK, StillCounting, SumBounded, PendingIsServed
<1>5. CASE Resume
  BY <1>1, <1>5 DEF Resume, TypeOK, StillCounting, SumBounded, PendingIsServed
<1> QED
  BY <1>2, <1>3, <1>4, <1>5

LEMMA InvNext == Inv /\ [Next]_vars => Inv'
<1> SUFFICES ASSUME Inv, [Next]_vars PROVE Inv'
  OBVIOUS
<1>1. CASE \E dx \in Moves, b \in Buttons, fast \in BOOLEAN : Report(dx, b, fast)
  BY <1>1, ReportKeeps
<1>2. CASE Callback
  BY <1>2, CallbackKeeps
<1>3. CASE Connect \/ Disconnect \/ Pause \/ Resume
  BY <1>3, OutsideKeeps
<1>4. CASE UNCHANGED vars
  BY <1>4 DEF vars, sums, speed, view, Inv, TypeOK, StillCounting, SumBounded, PendingIsServed
<1> QED
  BY <1>1, <1>2, <1>3, <1>4 DEF Next

LEMMA InvHolds == Spec => []Inv
BY InvInit, InvNext, PTL DEF Spec

-----------------------------------------------------------------------------
\* Every variable of the mouse path keeps its type: the sums their width, the
\* counter of fast reports its threshold (check_high_speed_device).
THEOREM MouseTypeCorrect == Spec => []TypeOK
<1>1. Inv => TypeOK
  BY DEF Inv
<1> QED
  BY <1>1, InvHolds, PTL

\* The sums of ble_hid_device_send_mouse_report never wrap round, for any batch
\* sizes whose batches fit into the C variable.
THEOREM SumNeverWraps == Spec => []SumBounded
<1>1. Inv => SumBounded
  BY DEF Inv
<1> QED
  BY <1>1, InvHolds, PTL

\* Movement never waits without a timer and a stack to send it.
THEOREM PendingServed == Spec => []PendingIsServed
<1>1. Inv => PendingIsServed
  BY DEF Inv
<1> QED
  BY <1>1, InvHolds, PTL
-----------------------------------------------------------------------------
(* Where movement goes astray.                                             *)

\* Adding a multiple of the divisor leaves the remainder.
LEMMA ModOfSum ==
  ASSUME NEW a \in Int, NEW m \in Nat \ {0}, NEW k \in Int
  PROVE  (a + m * k) % m = a % m
<1> DEFINE x == a + m * k
           p == a \div m
           r == a % m
           q == x \div m
           s == x % m
<1>1. p \in Int /\ r \in 0..(m - 1) /\ a = m * p + r
  OBVIOUS
<1>2. x \in Int /\ q \in Int /\ s \in 0..(m - 1) /\ x = m * q + s
  OBVIOUS
<1>3. m * (q - p - k) = r - s
  <2> HIDE DEF p, r, q, s
  <2> QED
    BY <1>1, <1>2
<1> DEFINE t == q - p - k
<1>4. t = 0
  <2>1. t \in Int /\ m * t = r - s /\ r - s < m /\ -m < r - s
    BY <1>1, <1>2, <1>3
  <2> HIDE DEF p, r, q, s, x, t
  <2>2. t >= 1 => m * t >= m
    BY <2>1
  <2>3. t <= -1 => m * t <= -m
    BY <2>1
  <2> QED
    BY <2>1, <2>2, <2>3
<1>5. m * t = 0
  BY <1>4
<1>6. r - s = 0
  BY <1>3, <1>5
<1> HIDE DEF p, r, q, s, x, t
<1>7. r = s
  BY <1>1, <1>2, <1>6
<1> QED
  BY <1>7 DEF r, s, x

\* Converting in between does not change what a sum is converted to.
LEMMA WrapAgain ==
  ASSUME NEW a \in Int, NEW b \in Int
  PROVE  Wrap(Wrap(a) + b) = Wrap(a + b)
<1> DEFINE m == 2 * Half
           x == a + Half
           k == x \div m
           y == a + b + Half
<1>1. m \in Nat \ {0} /\ x \in Int /\ y \in Int /\ Half \in Int
  BY WidthAssumption
<1>2. k \in Int /\ x = m * k + (x % m)
  <2> HIDE DEF m, x
  <2> QED
    BY <1>1
<1>3. Wrap(a) + b + Half = y + m * (-k)
  <2>1. Wrap(a) = (x % m) - Half
    BY DEF Wrap
  <2>2. m * (-k) = -(m * k) /\ m * k \in Int /\ x % m \in Int
    <3> HIDE DEF m, k, x
    <3> QED
      BY <1>1, <1>2
  <2>3. x % m = x - m * k
    <3> HIDE DEF m, k, x
    <3> QED
      BY <1>1, <1>2, <2>2
  <2> DEFINE mk == m * k
             rest == x % m
  <2>4. mk \in Int /\ rest = x - mk /\ m * (-k) = -mk /\ Wrap(a) = rest - Half
    BY <2>1, <2>2, <2>3
  <2> HIDE DEF m, k, mk, rest
  <2> QED
    BY <1>1, <2>4
<1>4. (y + m * (-k)) % m = y % m
  <2>1. -k \in Int
    BY <1>2
  <2> HIDE DEF m, y, k
  <2> QED
    BY <1>1, <2>1, ModOfSum
<1>5. Wrap(Wrap(a) + b) = ((Wrap(a) + b + Half) % m) - Half
  BY DEF Wrap
<1>6. Wrap(a + b) = (y % m) - Half
  BY DEF Wrap
<1> HIDE DEF m, x, k, y
<1> QED
  BY <1>3, <1>4, <1>5, <1>6

\* Movement of the sum that the callback has sent and not yet cleared.
Sent == IF cb = "sent" THEN args.motion ELSE 0

\* What the host is still owed is what waits in the sum.
Balanced == stackUp /\ link => owed = Wrap(acc - Sent)

\* A flush sends the sum and not its own report's movement; and before the batch is
\* full it keeps the sum, to be sent again.  Only if these two cancel out, or are
\* nothing, does it no harm.
FlushesAstray(dx, b) ==
  /\ highSpeed' /\ (accButtons # b \/ batchCount >= batchSize)
  /\ dx # (IF batchCount >= batchSize THEN 0 ELSE acc)

\* The callback is overtaken by a report: it sends what the report has left in the
\* buffer, or clears what the report has added.
CallbackAstray ==
  \/ CallbackSends /\ buffer.motion # args.motion
  \/ CallbackClears /\ acc # args.motion

\* A sum that was left by one host is sent to the next one.
HostInherits == Connect /\ acc # Sent

MotionGoesAstray ==
  \/ \E dx \in Moves, b \in Buttons, fast \in BOOLEAN : Report(dx, b, fast) /\ FlushesAstray(dx, b)
  \/ CallbackAstray \/ HostInherits

\* What this takes besides: no link without a stack, and only a fast device waits.
LinkNeedsStack == link => stackUp
OnlyFastWaits == ~highSpeed => acc = 0 /\ cb = "idle" /\ owed = 0 /\ ~timer

LEMMA DeliverBalance ==
  ASSUME TypeOK, NEW frame \in Frame, NEW new \in Int, NEW rest \in Int,
         Deliver(frame, new), stackUp, link, owed = Wrap(rest)
  PROVE  owed' = Wrap(rest + new - frame.motion)
<1> DEFINE more == new - frame.motion
<1>1. more \in Int
  BY DEF Frame
<1>2. owed' = Wrap(owed + new - frame.motion) /\ owed \in Int /\ frame.motion \in Int
  BY DEF Deliver, TypeOK, Sum, Frame
<1>3. owed + new - frame.motion = Wrap(rest) + more
      /\ rest + new - frame.motion = rest + more
  BY <1>2
<1>4. Wrap(Wrap(rest) + more) = Wrap(rest + more)
  <2> HIDE DEF more
  <2> QED
    BY <1>1, WrapAgain
<1> QED
  BY <1>2, <1>3, <1>4

LEMMA SentType == TypeOK => Sent \in Int
BY DEF TypeOK, Sent, Frame

LEMMA OnlyFastWaitsNext == Inv /\ OnlyFastWaits /\ [Next]_vars => OnlyFastWaits'
<1> SUFFICES ASSUME Inv, OnlyFastWaits, [Next]_vars, ~highSpeed'
             PROVE  acc' = 0 /\ cb' = "idle" /\ owed' = 0 /\ ~timer'
  BY DEF OnlyFastWaits
<1>1. highSpeed \in BOOLEAN
  BY DEF Inv, TypeOK
<1>2. CASE \E dx \in Moves, b \in Buttons, fast \in BOOLEAN : Report(dx, b, fast)
  <2> PICK dx \in Moves, b \in Buttons, fast \in BOOLEAN : Report(dx, b, fast)
    BY <1>2
  <2>1. ~highSpeed /\ PlainReport(dx, b) /\ cb' = cb
    BY DEF Report, CheckHighSpeed, speed
  <2>2. acc = 0 /\ cb = "idle" /\ owed = 0 /\ ~timer
    BY <2>1 DEF OnlyFastWaits
  <2>3. acc' = 0 /\ ~timer' /\ Deliver([motion |-> dx, buttons |-> b], dx)
    BY <2>1, <2>2 DEF PlainReport, SendNow
  <2>4. dx \in Int
    BY WidthAssumption DEF Moves
  <2>5. owed' = 0
    <3>1. CASE stackUp /\ link
      <4>1. owed' = Wrap(0 + dx - dx)
        BY <2>2, <2>3, <3>1 DEF Deliver
      <4>2. Wrap(0 + dx - dx) = Wrap(0)
        BY <2>4
      <4>3. 0 \in Sum
        BY WidthAssumption DEF Sum
      <4> QED
        BY <4>1, <4>2, <4>3, WrapIdentity
    <3>2. CASE ~(stackUp /\ link)
      BY <2>3, <3>2 DEF Deliver
    <3> QED
      BY <3>1, <3>2
  <2> QED
    BY <2>1, <2>2, <2>3, <2>5
<1>3. CASE Callback
  BY <1>1, <1>3 DEF Callback, CallbackLoads, CallbackFills, CallbackSends, CallbackClears,
     OnlyFastWaits, speed
<1>4. CASE Connect \/ Disconnect \/ Pause \/ Resume
  BY <1>1, <1>4 DEF Connect, Disconnect, Pause, Resume, OnlyFastWaits, speed, sums, view
<1>5. CASE UNCHANGED vars
  BY <1>1, <1>5 DEF vars, OnlyFastWaits, speed, sums, view
<1> QED
  BY <1>2, <1>3, <1>4, <1>5 DEF Next

\* A report that does not flush astray keeps the balance, ...
LEMMA ReportBalance ==
  ASSUME Inv, OnlyFastWaits, Balanced, NEW dx \in Moves, NEW b \in Buttons,
         NEW fast \in BOOLEAN, Report(dx, b, fast), ~FlushesAstray(dx, b)
  PROVE  Balanced'
<1> SUFFICES ASSUME stackUp', link' PROVE owed' = Wrap(acc' - Sent')
  BY DEF Balanced
<1>1. stackUp /\ link /\ Sent' = Sent
  BY DEF Report, Sent
<1>2. /\ TypeOK /\ acc \in Int /\ dx \in Int /\ Sent \in Int /\ owed \in Int
      /\ acc - Sent \in Int /\ owed = Wrap(acc - Sent)
  BY <1>1, SentType, WidthAssumption DEF Inv, TypeOK, Sum, Moves, Balanced
<1>3. CASE highSpeed' /\ (accButtons # b \/ batchCount >= batchSize)
  <2> DEFINE frame == [motion |-> acc, buttons |-> b]
  <2>1. Flush(dx, b) /\ Deliver(frame, dx) /\ frame \in Frame
    BY <1>2, <1>3 DEF Report, HighSpeedReport, Flush, SendNow, Frame
  <2>2. owed' = Wrap(acc - Sent + dx - acc)
    <3>1. owed' = Wrap((acc - Sent) + dx - frame.motion)
      BY <1>1, <1>2, <2>1, DeliverBalance
    <3> QED
      BY <3>1
  <2>3. dx = IF batchCount >= batchSize THEN 0 ELSE acc
    BY <1>3 DEF FlushesAstray
  <2>4. acc' = dx
    BY <2>1, <2>3 DEF Flush
  <2>5. acc - Sent + dx - acc = dx - Sent
    BY <1>2
  <2> QED
    BY <1>1, <2>2, <2>4, <2>5
<1>4. CASE highSpeed' /\ ~(accButtons # b \/ batchCount >= batchSize)
  <2>1. Accumulate(dx, b)
    BY <1>4 DEF Report, HighSpeedReport
  <2>2. acc' = Wrap(acc + dx) /\ owed' = Wrap(owed + dx)
    BY <1>1, <2>1 DEF Accumulate
  <2>3. owed' = Wrap((acc - Sent) + dx)
    BY <1>2, <2>2, WrapAgain
  <2>4. Wrap(acc' - Sent) = Wrap((acc + dx) - Sent)
    <3>1. acc + dx \in Int /\ -Sent \in Int
      BY <1>2
    <3>2. Wrap(Wrap(acc + dx) + (-Sent)) = Wrap((acc + dx) + (-Sent))
      BY <3>1, WrapAgain
    <3>3. Wrap(acc + dx) \in Int
      BY <3>1, WrapType, WidthAssumption DEF Sum
    <3>4. Wrap(acc + dx) + (-Sent) = Wrap(acc + dx) - Sent /\ (acc + dx) + (-Sent) = (acc + dx) - Sent
      BY <1>2, <3>1, <3>3
    <3> QED
      BY <2>2, <3>2, <3>4
  <2>5. (acc - Sent) + dx = (acc + dx) - Sent
    BY <1>2
  <2> QED
    BY <1>1, <2>3, <2>4, <2>5
<1>5. CASE ~highSpeed'
  <2> DEFINE frame == [motion |-> dx, buttons |-> b]
  <2>1. ~highSpeed /\ PlainReport(dx, b)
    BY <1>5 DEF Report, CheckHighSpeed, speed
  <2>2. Deliver(frame, dx) /\ frame \in Frame
    BY <1>2, <2>1 DEF PlainReport, SendNow, Frame
  <2>3. acc' = acc
    BY <2>1 DEF PlainReport, OnlyFastWaits
  <2>4. owed' = Wrap((acc - Sent) + dx - frame.motion)
    BY <1>1, <1>2, <2>2, DeliverBalance
  <2>5. (acc - Sent) + dx - frame.motion = acc - Sent
    BY <1>2
  <2> QED
    BY <1>1, <2>3, <2>4, <2>5
<1>6. highSpeed' \in BOOLEAN
  BY CheckHighSpeedKeeps DEF Inv, Report
<1> QED
  BY <1>3, <1>4, <1>5

\* ... and so does a callback that no report overtakes.
LEMMA CallbackBalance ==
  ASSUME Inv, Balanced, Callback, ~CallbackAstray
  PROVE  Balanced'
<1> SUFFICES ASSUME stackUp', link' PROVE owed' = Wrap(acc' - Sent')
  BY DEF Balanced
<1>1. stackUp /\ link
  BY DEF Callback, CallbackLoads, CallbackFills, CallbackSends, CallbackClears
<1>2. /\ TypeOK /\ acc \in Int /\ Sent \in Int /\ owed \in Int
      /\ acc - Sent \in Int /\ owed = Wrap(acc - Sent)
  BY <1>1, SentType, WidthAssumption DEF Inv, TypeOK, Sum, Balanced
<1>3. CASE CallbackLoads \/ CallbackFills
  <2>1. acc' = acc /\ owed' = owed /\ Sent = 0 /\ Sent' = 0
    BY <1>3 DEF CallbackLoads, CallbackFills, Sent, sums, view
  <2> QED
    BY <1>2, <2>1
<1>4. CASE CallbackSends
  <2>1. /\ acc' = acc /\ Sent = 0 /\ Sent' = args.motion /\ Deliver(buffer, 0)
        /\ buffer.motion = args.motion
    BY <1>4 DEF CallbackSends, CallbackAstray, Sent, sums
  <2>2. buffer \in Frame /\ args.motion \in Int
    BY <1>2 DEF TypeOK, Frame
  <2>3. owed' = Wrap((acc - Sent) + 0 - buffer.motion)
    BY <1>1, <1>2, <2>1, <2>2, DeliverBalance
  <2>4. (acc - Sent) + 0 - buffer.motion = acc - args.motion
    BY <1>2, <2>1, <2>2
  <2> QED
    BY <2>1, <2>3, <2>4
<1>5. CASE CallbackClears
  <2>1. acc' = 0 /\ owed' = owed /\ Sent = args.motion /\ acc = args.motion /\ Sent' = 0
    BY <1>5 DEF CallbackClears, CallbackAstray, Sent, view
  <2>2. acc - Sent = 0 - 0
    BY <1>2, <2>1
  <2> QED
    BY <1>2, <2>1, <2>2
<1> QED
  BY <1>3, <1>4, <1>5 DEF Callback

LEMMA BalanceNext ==
  Inv /\ LinkNeedsStack /\ OnlyFastWaits /\ [Next]_vars
  => (Balanced /\ ~MotionGoesAstray => Balanced')
<1> SUFFICES ASSUME Inv, LinkNeedsStack, OnlyFastWaits, [Next]_vars, Balanced,
                    ~MotionGoesAstray
             PROVE  Balanced'
  OBVIOUS
<1>1. CASE \E dx \in Moves, b \in Buttons, fast \in BOOLEAN : Report(dx, b, fast)
  BY <1>1, ReportBalance DEF MotionGoesAstray
<1>2. CASE Callback
  BY <1>2, CallbackBalance DEF MotionGoesAstray
<1>3. CASE Connect
  <2>1. acc' = acc /\ Sent' = Sent /\ owed' = 0 /\ acc = Sent
    BY <1>3 DEF Connect, sums, Sent, MotionGoesAstray, HostInherits
  <2>2. acc - Sent = 0 /\ 0 \in Sum
    BY <2>1, SentType, WidthAssumption DEF Inv, Sum
  <2> QED
    BY <2>1, <2>2, WrapIdentity DEF Balanced
<1>4. CASE Disconnect \/ Pause
  BY <1>4 DEF Disconnect, Pause, Balanced
<1>5. CASE Resume
  <2>1. ~link
    BY <1>5 DEF Resume, LinkNeedsStack
  <2> QED
    BY <1>5, <2>1 DEF Resume, Balanced
<1>6. CASE UNCHANGED vars
  BY <1>6 DEF vars, sums, view, Balanced, Sent
<1> QED
  BY <1>1, <1>2, <1>3, <1>4, <1>5, <1>6 DEF Next

LEMMA LinkNeedsStackNext == LinkNeedsStack /\ [Next]_vars => LinkNeedsStack'
<1> SUFFICES ASSUME LinkNeedsStack, [Next]_vars, link' PROVE stackUp'
  BY DEF LinkNeedsStack
<1>1. CASE Callback
  BY <1>1 DEF Callback, CallbackLoads, CallbackFills, CallbackSends, CallbackClears,
     LinkNeedsStack
<1>2. CASE ~Callback
  BY <1>2 DEF Next, Report, Connect, Disconnect, Pause, Resume, vars, LinkNeedsStack
<1> QED
  BY <1>1, <1>2

LEMMA MotionInvHolds == Spec => [](LinkNeedsStack /\ OnlyFastWaits)
<1>1. Init => LinkNeedsStack /\ OnlyFastWaits
  BY DEF Init, LinkNeedsStack, OnlyFastWaits
<1> QED
  BY <1>1, InvHolds, LinkNeedsStackNext, OnlyFastWaitsNext, PTL DEF Spec

\* Movement is lost or sent twice in three ways only: a flush that does not take the
\* report's own movement or keeps what it sends, a report that overtakes the timer's
\* callback, and a sum left over for the next host.  No other step of
\* ble_hid_device_send_mouse_report, its callback or the bridge breaks the balance
\* between what the host is owed and what waits.
THEOREM MotionIsKeptOtherwise == Spec => [][Balanced /\ ~MotionGoesAstray => Balanced']_vars
<1>1. /\ Inv /\ LinkNeedsStack /\ OnlyFastWaits /\ [Next]_vars
      => [Balanced /\ ~MotionGoesAstray => Balanced']_vars
  BY BalanceNext
<1> QED
  BY <1>1, InvHolds, MotionInvHolds, PTL DEF Spec

\* A mouse that never sends five reports in quick succession loses no movement: what
\* is not summed up goes out at once.
THEOREM SlowMiceLoseNothing == Spec => [](~highSpeed => MotionForwarded)
<1>1. OnlyFastWaits => (~highSpeed => MotionForwarded)
  BY DEF OnlyFastWaits, MotionForwarded
<1> QED
  BY <1>1, MotionInvHolds, PTL
=============================================================================
