---------------------------- MODULE InputProofs ----------------------------
(***************************************************************************)
(* Proofs about the buttons and the rotary encoder, which are independent  *)
(* of each other.                                                          *)
(***************************************************************************)
EXTENDS Buttons, RotaryEncoder, SequenceTheorems, TLAPS

-----------------------------------------------------------------------------
(* One button.                                                             *)

\* The task measures the press it knows of.
AgeIsKept == pressed => age = Least(heldFor, Threshold)

\* A press gets its answer when it becomes long, and none before.
AnswerWhenLong ==
  /\ pressed => /\ long <=> age >= Threshold
                /\ ~long => answers = 0
                /\ long => answers = 1 \/ unheard
  /\ answers <= 1

\* A button held since boot is one whose state never changes.
BootStateLasts ==
  /\ heldAtBoot => ~pin
  /\ heldAtBoot /\ ~first => ~lastState /\ ~pressed /\ answers = 0

ButtonInv == ButtonTypeOK /\ AgeIsKept /\ AnswerWhenLong /\ PressAnswered /\ BootStateLasts

LEMMA ButtonInvInit == ButtonInit => ButtonInv
<1> SUFFICES ASSUME ButtonInit PROVE ButtonInv
  OBVIOUS
<1>1. /\ quiet \in 0..Debounce /\ age \in 0..Threshold /\ answers \in 0..2
      /\ heldFor \in 0..TooLong
  BY ButtonTimes DEF ButtonInit, TooLong
<1>2. /\ first \in BOOLEAN /\ pin \in BOOLEAN /\ lastState \in BOOLEAN
      /\ pressed \in BOOLEAN /\ long \in BOOLEAN /\ subscribed \in BOOLEAN
      /\ heldAtBoot \in BOOLEAN /\ unheard \in BOOLEAN
  BY Zenon DEF ButtonInit, LastStateAtBoot
<1>3. AgeIsKept /\ AnswerWhenLong /\ PressAnswered
  BY DEF ButtonInit, AgeIsKept, AnswerWhenLong, PressAnswered
<1>4. BootStateLasts
  BY Zenon DEF ButtonInit, BootStateLasts, LastStateAtBoot
<1> QED
  BY <1>1, <1>2, <1>3, <1>4 DEF ButtonInv, ButtonTypeOK

LEMMA LeastIsNat ==
  ASSUME NEW a \in Nat, NEW b \in Nat
  PROVE  Least(a, b) \in 0..b
  BY DEF Least

\* What a press that is known of becomes in a poll.
LEMMA PressGoesOn ==
  ASSUME ButtonInv, NEW gap \in 1..MaxGap, pressed, ReleaseSeen(gap) \/ StillPressed(gap)
  PROVE  /\ age' \in 0..Threshold /\ answers' \in 0..1 /\ heldFor' \in 0..TooLong
         /\ AgeIsKept' /\ AnswerWhenLong' /\ PressAnswered'
<1> USE ButtonTimes
<1>1. /\ gap \in Nat /\ gap <= MaxGap /\ age \in 0..Threshold /\ heldFor \in 0..TooLong
      /\ answers \in 0..1 /\ Threshold \in Nat /\ MaxGap \in Nat
      /\ age = Least(heldFor, Threshold)
      /\ long <=> age >= Threshold
      /\ ~long => answers = 0
      /\ long => answers = 1 \/ unheard
  BY DEF ButtonInv, ButtonTypeOK, AgeIsKept, AnswerWhenLong
<1> DEFINE now == Least(age + gap, Threshold)
<1>2. /\ now \in 0..Threshold
      /\ now = Least(Least(heldFor + gap, TooLong), Threshold)
      /\ long => now >= Threshold
      /\ Least(answers + 1, 2) = answers + 1
      /\ Least(heldFor + gap, TooLong) \in 1..TooLong
      /\ ~long /\ now >= Threshold => Least(heldFor + gap, TooLong) \in Threshold..(TooLong - 1)
  BY <1>1 DEF Least, TooLong
<1> HIDE DEF now
<1>3. CASE ReleaseSeen(gap)
  <2>1. /\ ~pressed' /\ age' = 0 /\ heldFor' = Least(heldFor + gap, TooLong)
        /\ answers' = IF ~long /\ now < Threshold THEN Answer ELSE answers
    BY <1>3 DEF ReleaseSeen, now
  <2>2. unheard' = (unheard \/ (~long /\ now < Threshold /\ ~subscribed))
    BY <1>3 DEF ReleaseSeen, now
  <2>3. CASE long
    <3>1. answers' = answers /\ (unheard => unheard')
      BY <2>1, <2>2, <2>3
    <3> QED
      BY <1>1, <1>2, <2>1, <2>3, <3>1 DEF AgeIsKept, AnswerWhenLong, PressAnswered
  <2>4. CASE ~long /\ now >= Threshold
    <3>1. answers' = answers
      BY <1>1, <1>2, <2>1, <2>4
    <3> QED
      BY <1>1, <1>2, <2>1, <2>4, <3>1 DEF AgeIsKept, AnswerWhenLong, PressAnswered
  <2>5. CASE ~long /\ now < Threshold
    <3>1. answers' = Answer /\ (subscribed \/ unheard')
      BY <2>1, <2>2, <2>5
    <3> QED
      BY <1>1, <1>2, <2>1, <2>5, <3>1 DEF AgeIsKept, AnswerWhenLong, PressAnswered, Answer
  <2> QED
    BY <1>1, <1>2, <2>3, <2>4, <2>5
<1>4. CASE StillPressed(gap)
  <2>1. /\ pressed' /\ age' = now /\ heldFor' = Least(heldFor + gap, TooLong)
        /\ answers' = IF ~long /\ now >= Threshold THEN Answer ELSE answers
    BY <1>4 DEF StillPressed, now
  <2>2. /\ long' = (long \/ (~long /\ now >= Threshold))
        /\ unheard' = (unheard \/ (~long /\ now >= Threshold /\ ~subscribed))
    BY <1>4 DEF StillPressed, now
  <2>3. CASE long
    <3>1. answers' = answers /\ (unheard => unheard') /\ long'
      BY <2>1, <2>2, <2>3
    <3> QED
      BY <1>1, <1>2, <2>1, <2>3, <3>1 DEF AgeIsKept, AnswerWhenLong, PressAnswered
  <2>4. CASE ~long /\ now >= Threshold
    <3>1. answers' = Answer /\ long' /\ (subscribed \/ unheard')
      BY <2>1, <2>2, <2>4
    <3> QED
      BY <1>1, <1>2, <2>1, <2>4, <3>1 DEF AgeIsKept, AnswerWhenLong, PressAnswered, Answer
  <2>5. CASE ~long /\ now < Threshold
    <3>0. ~(now >= Threshold)
      BY <1>1, <1>2, <2>5
    <3>1. ~long'
      BY <3>0, <2>2, <2>5
    <3>2. answers' = answers
      BY <1>1, <1>2, <2>1, <2>5
    <3> QED
      BY <1>1, <1>2, <2>1, <2>5, <3>1, <3>2 DEF AgeIsKept, AnswerWhenLong, PressAnswered
  <2> QED
    BY <1>1, <1>2, <2>3, <2>4, <2>5
<1> QED
  BY <1>3, <1>4

LEMMA ButtonInvNext == ButtonInv /\ [ButtonNext]_buttonVars => ButtonInv'
<1> SUFFICES ASSUME ButtonInv, [ButtonNext]_buttonVars PROVE ButtonInv'
  OBVIOUS
<1> USE ButtonTimes
<1>1. CASE PinChanges
  BY <1>1 DEF PinChanges, ButtonInv, ButtonTypeOK, AgeIsKept, AnswerWhenLong, PressAnswered,
     BootStateLasts
<1>2. CASE Subscribe
  BY <1>2 DEF Subscribe, ButtonInv, ButtonTypeOK, AgeIsKept, AnswerWhenLong, PressAnswered,
     BootStateLasts
<1>3. ASSUME NEW gap \in 1..MaxGap, Poll(gap) PROVE ButtonInv'
  <2>1. /\ first' = first /\ pin' = pin /\ subscribed' = subscribed
        /\ heldAtBoot' = heldAtBoot
    BY <1>3 DEF Poll
  <2>2. quiet' \in 0..Debounce
    BY <1>3 DEF Poll, Least, ButtonInv, ButtonTypeOK
  <2>3. lastState' \in BOOLEAN
    BY <1>3 DEF Poll, ButtonInv, ButtonTypeOK
  <2>4. pressed' \in BOOLEAN /\ long' \in BOOLEAN /\ unheard' \in BOOLEAN
    <3>1. pressed \in BOOLEAN /\ long \in BOOLEAN /\ unheard \in BOOLEAN
      BY DEF ButtonInv, ButtonTypeOK
    <3> QED
      BY <3>1, <1>3 DEF Poll, PressSeen, ReleaseSeen, StillPressed
  <2>5. /\ age' \in 0..Threshold /\ answers' \in 0..1 /\ heldFor' \in 0..TooLong
        /\ AgeIsKept' /\ AnswerWhenLong' /\ PressAnswered'
    <3>1. CASE PressSeen(gap)
      BY <3>1 DEF PressSeen, AgeIsKept, AnswerWhenLong, PressAnswered, Least, TooLong
    <3>2. CASE pressed /\ (ReleaseSeen(gap) \/ StillPressed(gap))
      BY <3>2, PressGoesOn
    <3>3. CASE UNCHANGED << pressed, age, long, answers, heldFor, unheard >>
      BY <3>3 DEF ButtonInv, ButtonTypeOK, AgeIsKept, AnswerWhenLong, PressAnswered
    <3> QED
      BY <1>3, <3>1, <3>2, <3>3 DEF Poll
  <2>6. BootStateLasts'
    <3>1. CASE heldAtBoot /\ ~first
      <4>1. ~pin /\ ~lastState /\ ~pressed /\ answers = 0 /\ pin \in BOOLEAN
            /\ lastState \in BOOLEAN
        BY <3>1 DEF ButtonInv, BootStateLasts, ButtonTypeOK
      <4>2. ~Edge(gap)
        BY <4>1 DEF Edge
      <4> QED
        BY <4>1, <4>2, <2>1, <1>3 DEF Poll, BootStateLasts
    <3>2. CASE ~(heldAtBoot /\ ~first)
      BY <3>2, <2>1 DEF ButtonInv, BootStateLasts
    <3> QED
      BY <3>1, <3>2
  <2>7. /\ first' \in BOOLEAN /\ pin' \in BOOLEAN /\ subscribed' \in BOOLEAN
        /\ heldAtBoot' \in BOOLEAN
    BY <2>1 DEF ButtonInv, ButtonTypeOK
  <2>8. answers' \in 0..2
    BY <2>5
  <2> QED
    BY <2>2, <2>3, <2>4, <2>5, <2>6, <2>7, <2>8 DEF ButtonInv, ButtonTypeOK
<1>4. CASE UNCHANGED buttonVars
  BY <1>4 DEF buttonVars, ButtonInv, ButtonTypeOK, AgeIsKept, AnswerWhenLong, PressAnswered,
     BootStateLasts
<1> QED
  BY <1>1, <1>2, <1>3, <1>4 DEF ButtonNext, ButtonPolls

LEMMA ButtonInvAlways == ButtonSpec => []ButtonInv
  BY ButtonInvInit, ButtonInvNext, PTL DEF ButtonSpec

\* Every variable of a button has its type.
THEOREM ButtonTypeCorrect == ButtonSpec => []ButtonTypeOK
<1>1. ButtonInv => ButtonTypeOK
  BY DEF ButtonInv
<1> QED
  BY <1>1, ButtonInvAlways, PTL

\* Every press is answered once, or its release came just after the threshold, for
\* every threshold, debouncing time and delay of the loop.
THEOREM EveryPressAnswered == ButtonSpec => []PressAnswered
<1>1. ButtonInv => PressAnswered
  BY DEF ButtonInv
<1> QED
  BY <1>1, ButtonInvAlways, PTL

\* SW2, SW3 and SW4 do nothing while they stay held from boot on.
THEOREM BootButtonsSilent == ButtonSpec => []HeldAtBootIsSilent
<1>1. ButtonInv => HeldAtBootIsSilent
  BY DEF ButtonInv, BootStateLasts, HeldAtBootIsSilent
<1> QED
  BY <1>1, ButtonInvAlways, PTL

-----------------------------------------------------------------------------
(* The rotary encoder.                                                      *)

\* What waits in the queue leads from what the task believes to what the knob is.
EdgesAlternate ==
  /\ edges = << >> => (isPressed <=> down)
  /\ Len(edges) = 1 => (edges[1] <=> ~isPressed) /\ (edges[1] <=> down)
  /\ Len(edges) = 2 => (edges[1] <=> ~isPressed) /\ (edges[2] <=> isPressed)
                       /\ (edges[2] <=> down)

\* With no edge waiting, the task's age of the press is ahead of the truth by the time
\* of one pass at most.
AgeIsNear == edges = << >> /\ isPressed => pressAge <= knobHeld + MaxBlock

EncoderInv ==
  EncoderTypeOK /\ (~dropped => EdgesAlternate /\ AgeIsNear /\ RestartNeedsHold)

LEMMA EncoderInvInit == EncoderInit => EncoderInv
<1> SUFFICES ASSUME EncoderInit PROVE EncoderInv
  OBVIOUS
<1>1. down \in BOOLEAN /\ dropped \in BOOLEAN /\ isPressed \in BOOLEAN /\ rest \in BOOLEAN
  BY DEF EncoderInit
<1>2. edges \in Seq(BOOLEAN) /\ Len(edges) = 0
  BY DEF EncoderInit
<1>3. turns \in 0..2 /\ snap \in 0..MaxBlock /\ pressAge \in 0..LongTime
      /\ knobHeld \in 0..LongTime
  BY EncoderTimes DEF EncoderInit, LongTime
<1>4. taskAt = "waiting" /\ (isPressed <=> down) /\ ~isPressed
  BY DEF EncoderInit
<1>5. EdgesAlternate /\ AgeIsNear /\ RestartNeedsHold
  BY <1>2, <1>4 DEF EdgesAlternate, AgeIsNear, RestartNeedsHold
<1> QED
  BY <1>1, <1>2, <1>3, <1>4, <1>5 DEF EncoderInv, EncoderTypeOK

LEMMA UpToTwo == \A n \in Nat : (n <= 2 => n \in 0..2) /\ (n \in 0..2 => n = 0 \/ n = 1 \/ n = 2)
OBVIOUS

LEMMA AppendTo ==
  ASSUME NEW s \in Seq(BOOLEAN), NEW e \in BOOLEAN, Len(s) = 1
  PROVE  Len(Append(s, e)) = 2 /\ Append(s, e)[1] = s[1] /\ Append(s, e)[2] = e
<1> DEFINE t == Append(s, e)
<1>a. Len(t) = Len(s) + 1
  OBVIOUS
<1>b. t[Len(s) + 1] = e
  BY AppendProperties
<1>c. \A i \in 1..Len(s) : t[i] = s[i]
  OBVIOUS
<1>1. /\ Len(t) = Len(s) + 1 /\ t[Len(s) + 1] = e
      /\ \A i \in 1..Len(s) : t[i] = s[i]
  BY <1>a, <1>b, <1>c
<1> HIDE DEF t
<1>2. Len(t) = 2 /\ t[2] = e /\ t[1] = s[1]
  BY <1>1
<1> QED
  BY <1>2 DEF t

LEMMA LaterType ==
  ASSUME NEW x \in 0..LongTime
  PROVE  Later(x) \in 0..LongTime /\ (x < LongTime => Later(x) = x + 1)
         /\ (x = LongTime => Later(x) = x)
BY EncoderTimes DEF Later, LongTime

LEMMA EncoderTypeNext ==
  ASSUME EncoderTypeOK, [EncoderNext]_encoderVars
  PROVE  EncoderTypeOK'
<1> USE EncoderTimes
<1>1. down' \in BOOLEAN /\ dropped' \in BOOLEAN /\ isPressed' \in BOOLEAN /\ rest' \in BOOLEAN
  <2>1. down \in BOOLEAN /\ dropped \in BOOLEAN /\ isPressed \in BOOLEAN /\ rest \in BOOLEAN
    BY DEF EncoderTypeOK
  <2>2. CASE KnobPressedOrReleased
    BY <2>1, <2>2 DEF KnobPressedOrReleased
  <2>3. CASE KnobTurned \/ TimePasses \/ UNCHANGED encoderVars
    BY <2>1, <2>3 DEF KnobTurned, TimePasses, encoderVars
  <2>4. CASE PassStarts \/ TurnHandled
    BY <2>1, <2>4 DEF PassStarts, TurnHandled
  <2>6. CASE ClickHandled
    <3>1. rest' = (snap > 0)
      BY <2>6 DEF ClickHandled
    <3>2. (snap > 0) \in BOOLEAN
      OBVIOUS
    <3>3. rest' \in BOOLEAN
      BY <3>1, <3>2, Zenon
    <3> QED
      BY <2>1, <2>6, <3>3 DEF ClickHandled
  <2>5. CASE ButtonHandled
    BY <2>1, <2>5 DEF ButtonHandled, PressTaken, ReleaseTaken, NothingTaken
  <2> QED
    BY <2>2, <2>3, <2>4, <2>5, <2>6 DEF EncoderNext, RotaryTask
<1>2. edges' \in Seq(BOOLEAN) /\ Len(edges') <= 2
  <2>0. edges \in Seq(BOOLEAN) /\ Len(edges) <= 2 /\ (~down) \in BOOLEAN
    BY DEF EncoderTypeOK
  <2>1. CASE edges' = edges
    BY <2>0, <2>1
  <2>2. CASE KnobPressedOrReleased
    <3>1. CASE Len(edges) < 2
      <4> DEFINE e == ~down
      <4>1. edges' = Append(edges, e) /\ e \in BOOLEAN
        BY <2>2, <3>1 DEF KnobPressedOrReleased
      <4> HIDE DEF e
      <4> QED
        BY <2>0, <3>1, <4>1
    <3>2. CASE ~(Len(edges) < 2)
      BY <2>0, <2>2, <3>2 DEF KnobPressedOrReleased
    <3> QED
      BY <3>1, <3>2
  <2>3. CASE ButtonHandled
    <3>1. edges' = IF edges = << >> THEN edges ELSE Tail(edges)
      BY <2>3 DEF ButtonHandled
    <3>2. CASE edges = << >>
      BY <2>0, <3>1, <3>2
    <3>3. CASE edges # << >>
      <4>1. edges' = Tail(edges)
        BY <3>1, <3>3
      <4>2. Tail(edges) \in Seq(BOOLEAN) /\ Len(Tail(edges)) = Len(edges) - 1
        BY <2>0, <3>3, HeadTailProperties
      <4>3. Len(edges) \in Nat
        BY <2>0, LenProperties
      <4> QED
        BY <2>0, <4>1, <4>2, <4>3
    <3> QED
      BY <3>2, <3>3
  <2> QED
    BY <2>1, <2>2, <2>3 DEF EncoderNext, KnobTurned, TimePasses, RotaryTask, PassStarts,
       TurnHandled, ClickHandled, encoderVars
<1>3. turns' \in 0..2
  BY DEF EncoderTypeOK, EncoderNext, KnobPressedOrReleased, KnobTurned, TimePasses, RotaryTask,
     PassStarts, TurnHandled, ButtonHandled, ClickHandled, encoderVars
<1>4. taskAt' \in {"waiting", "turning", "button", "clicking", "restarted"}
  BY DEF EncoderTypeOK, EncoderNext, KnobPressedOrReleased, KnobTurned, TimePasses, RotaryTask,
     PassStarts, TurnHandled, ButtonHandled, ClickHandled, encoderVars
<1>5. snap' \in 0..MaxBlock
  BY DEF EncoderTypeOK, EncoderNext, KnobPressedOrReleased, KnobTurned, TimePasses, RotaryTask,
     PassStarts, TurnHandled, ButtonHandled, ClickHandled, encoderVars
<1>6. pressAge' \in 0..LongTime
  <2>1. pressAge \in 0..LongTime /\ snap \in 0..LongTime
    BY DEF EncoderTypeOK, LongTime
  <2> QED
    BY <2>1, LaterType DEF EncoderNext, KnobPressedOrReleased, KnobTurned, TimePasses,
       RotaryTask, PassStarts, TurnHandled, ButtonHandled, PressTaken, ReleaseTaken,
       NothingTaken, ClickHandled, encoderVars
<1>7. knobHeld' \in 0..LongTime
  <2>1. knobHeld \in 0..LongTime /\ 0 \in 0..LongTime
    BY DEF EncoderTypeOK, LongTime
  <2> QED
    BY <2>1, LaterType DEF EncoderNext, KnobPressedOrReleased, KnobTurned, TimePasses,
       RotaryTask, PassStarts, TurnHandled, ButtonHandled, ClickHandled, encoderVars
<1> QED
  BY <1>1, <1>2, <1>3, <1>4, <1>5, <1>6, <1>7 DEF EncoderTypeOK

LEMMA EncoderInvNext ==
  ASSUME EncoderInv, [EncoderNext]_encoderVars
  PROVE  EncoderInv'
<1> USE EncoderTimes
<1>0. EncoderTypeOK /\ EncoderTypeOK'
  BY EncoderTypeNext DEF EncoderInv
<1> SUFFICES ASSUME ~dropped' PROVE EdgesAlternate' /\ AgeIsNear' /\ RestartNeedsHold'
  BY <1>0 DEF EncoderInv
<1>a. ~dropped
  BY DEF EncoderNext, KnobPressedOrReleased, KnobTurned, TimePasses, RotaryTask, PassStarts,
     TurnHandled, ButtonHandled, ClickHandled, encoderVars
<1>b. EdgesAlternate /\ AgeIsNear /\ RestartNeedsHold
  BY <1>a DEF EncoderInv
<1>c. edges \in Seq(BOOLEAN) /\ Len(edges) \in 0..2 /\ isPressed \in BOOLEAN /\ down \in BOOLEAN
  <2>1. edges \in Seq(BOOLEAN) /\ Len(edges) <= 2
    BY <1>0 DEF EncoderTypeOK
  <2>0. Len(edges) \in Nat
    BY <2>1, LenProperties
  <2>2. Len(edges) \in 0..2
    BY <2>0, <2>1, UpToTwo
  <2>3. isPressed \in BOOLEAN /\ down \in BOOLEAN
    BY <1>0 DEF EncoderTypeOK
  <2> QED
    BY <2>1, <2>2, <2>3
<1>d. pressAge \in 0..LongTime /\ knobHeld \in 0..LongTime /\ snap \in 0..MaxBlock
  BY <1>0 DEF EncoderTypeOK
<1>1. CASE KnobPressedOrReleased
  <2>0. Len(edges) # 2
    BY <1>1 DEF KnobPressedOrReleased
  <2>1. Len(edges) < 2 /\ taskAt' # "restarted" /\ isPressed' = isPressed
    <3>1. taskAt' # "restarted" /\ isPressed' = isPressed
      BY <1>1 DEF KnobPressedOrReleased
    <3>2. Len(edges) < 2
      BY <1>c, <2>0
    <3> QED
      BY <3>1, <3>2
  <2> DEFINE e == ~down
  <2>2. edges' = Append(edges, e) /\ e \in BOOLEAN /\ down' = e
    BY <1>1, <2>1 DEF KnobPressedOrReleased
  <2>3. e <=> ~down
    OBVIOUS
  <2> HIDE DEF e
  <2>4. CASE edges = << >>
    <3>1. Len(edges') = 1 /\ edges'[1] = e
      BY <2>2, <2>4
    <3>2. isPressed <=> down
      BY <1>b, <2>4 DEF EdgesAlternate
    <3> QED
      BY <1>c, <2>1, <2>2, <2>3, <3>1, <3>2 DEF EdgesAlternate, AgeIsNear, RestartNeedsHold
  <2>5. CASE Len(edges) = 1
    <3>1. Len(edges') = 2 /\ edges'[1] = edges[1] /\ edges'[2] = e
      BY <1>c, <2>2, <2>5, AppendTo
    <3>2. (edges[1] <=> ~isPressed) /\ (edges[1] <=> down)
      BY <1>b, <2>5 DEF EdgesAlternate
    <3> QED
      BY <1>c, <2>1, <2>2, <2>3, <3>1, <3>2 DEF EdgesAlternate, AgeIsNear, RestartNeedsHold
  <2>6. Len(edges) = 0 => edges = << >>
    BY <1>c, EmptySeq
  <2>7. Len(edges) = 0 \/ Len(edges) = 1
    BY <1>c, <2>0, UpToTwo
  <2> QED
    BY <2>4, <2>5, <2>6, <2>7
<1>2. CASE TimePasses
  <2>1. /\ edges' = edges /\ isPressed' = isPressed /\ down' = down /\ taskAt' # "restarted"
        /\ pressAge' = Later(pressAge)
        /\ knobHeld' = IF down THEN Later(knobHeld) ELSE knobHeld
    BY <1>2 DEF TimePasses
  <2>2. EdgesAlternate' /\ RestartNeedsHold'
    BY <1>b, <2>1 DEF EdgesAlternate, RestartNeedsHold
  <2>3. AgeIsNear'
    <3> SUFFICES ASSUME edges = << >>, isPressed PROVE pressAge' <= knobHeld' + MaxBlock
      BY <2>1 DEF AgeIsNear
    <3>1. down /\ pressAge <= knobHeld + MaxBlock
      BY <1>b DEF EdgesAlternate, AgeIsNear
    <3>2. knobHeld' = Later(knobHeld)
      BY <2>1, <3>1
    <3>3. pressAge' \in 0..LongTime /\ pressAge' <= pressAge + 1
      BY <1>d, <2>1, LaterType DEF LongTime
    <3>4. knobHeld' = knobHeld + 1 \/ knobHeld' = LongTime
      BY <1>d, <3>2, LaterType DEF LongTime
    <3> QED
      BY <1>d, <3>1, <3>3, <3>4 DEF LongTime
  <2> QED
    BY <2>2, <2>3
<1>3. CASE ButtonHandled
  <2>1. down' = down /\ knobHeld' = knobHeld
    BY <1>3 DEF ButtonHandled
  <2>2. CASE edges = << >>
    <3>1. edges' = edges /\ isPressed' = isPressed /\ pressAge' = pressAge
      BY <1>3, <2>2 DEF ButtonHandled, PressTaken, ReleaseTaken, NothingTaken, NextEdge
    <3>2. EdgesAlternate' /\ AgeIsNear'
      BY <1>b, <2>1, <3>1 DEF EdgesAlternate, AgeIsNear
    <3>3. taskAt' = "restarted" => isPressed /\ pressAge >= HoldTime + snap
      BY <1>3, <3>1 DEF ButtonHandled, HeldLong
    <3>4. taskAt' = "restarted" => knobHeld + MaxBlock >= HoldTime
      <4> SUFFICES ASSUME taskAt' = "restarted" PROVE knobHeld + MaxBlock >= HoldTime
        OBVIOUS
      <4>1. pressAge <= knobHeld + MaxBlock /\ pressAge >= HoldTime + snap
        BY <1>b, <2>2, <3>3 DEF AgeIsNear
      <4> QED
        BY <1>d, <4>1 DEF LongTime
    <3> QED
      BY <2>1, <3>2, <3>4 DEF RestartNeedsHold
  <2>3. CASE edges # << >>
    <3>a. Len(edges) \in 1..2 /\ edges[1] \in BOOLEAN
      BY <1>c, <2>3, EmptySeq, ElementOfSeq
    <3>1. (edges[1] <=> ~isPressed) /\ edges' = Tail(edges) /\ Head(edges) = edges[1]
      BY <1>3, <1>b, <1>c, <2>3 DEF EdgesAlternate, ButtonHandled
    <3>2. isPressed' <=> ~isPressed
      <4>1. CASE isPressed
        <5>1. Head(edges) = FALSE
          BY <1>c, <3>1, <3>a, <4>1
        <5>2. ReleaseTaken
          BY <1>3, <2>3, <4>1, <5>1, Zenon DEF ButtonHandled, PressTaken, NothingTaken, NextEdge
        <5> QED
          BY <4>1, <5>2 DEF ReleaseTaken
      <4>2. CASE ~isPressed
        <5>1. Head(edges) = TRUE
          BY <1>c, <3>1, <3>a, <4>2
        <5>2. PressTaken
          BY <1>3, <2>3, <4>2, <5>1, Zenon DEF ButtonHandled, ReleaseTaken, NothingTaken, NextEdge
        <5> QED
          BY <4>2, <5>2 DEF PressTaken
      <4> QED
        BY <4>1, <4>2
    <3>3. ASSUME Len(edges) = 1 PROVE EdgesAlternate'
      <4>1. edges' = << >> /\ (edges[1] <=> down)
        BY <1>b, <1>c, <3>1, <3>3 DEF EdgesAlternate
      <4>2. Len(edges') = 0
        BY <4>1
      <4>3. isPressed' <=> down'
        BY <2>1, <3>1, <3>2, <4>1, Zenon
      <4>4. ~(Len(edges') = 1) /\ ~(Len(edges') = 2)
        BY <4>2
      <4> QED
        BY <4>3, <4>4, Zenon DEF EdgesAlternate
    <3>4. ASSUME Len(edges) = 2 PROVE EdgesAlternate'
      <4>1. Len(edges') = 1 /\ edges'[1] = edges[2]
        BY <1>c, <3>1, <3>4
      <4>2. (edges[2] <=> isPressed) /\ (edges[2] <=> down)
        BY <1>b, <3>4 DEF EdgesAlternate
      <4>3. edges' # << >> /\ ~(Len(edges') = 2)
        BY <4>1
      <4>4. (edges'[1] <=> ~isPressed') /\ (edges'[1] <=> down')
        BY <2>1, <3>2, <4>1, <4>2, Zenon
      <4> QED
        BY <4>3, <4>4, Zenon DEF EdgesAlternate
    <3>5. EdgesAlternate'
      <4>1. Len(edges) = 1 \/ Len(edges) = 2
        BY <3>a
      <4> QED
        BY <3>3, <3>4, <4>1
    <3>6. isPressed' => pressAge' = snap
      BY <1>3, <1>c, <3>2 DEF ButtonHandled, PressTaken, ReleaseTaken, NothingTaken
    <3>7. AgeIsNear'
      BY <1>d, <2>1, <3>6 DEF AgeIsNear, LongTime
    <3>8. taskAt' # "restarted"
      <4>1. isPressed' => ~HeldLong(pressAge')
        BY <1>d, <3>6 DEF HeldLong
      <4> QED
        BY <1>3, <4>1 DEF ButtonHandled
    <3> QED
      BY <3>5, <3>7, <3>8 DEF RestartNeedsHold
  <2> QED
    BY <2>2, <2>3
<1>4. CASE KnobTurned \/ PassStarts \/ TurnHandled \/ ClickHandled \/ UNCHANGED encoderVars
  <2>1. UNCHANGED << edges, isPressed, down, pressAge, knobHeld >>
        /\ (taskAt' = "restarted" => taskAt = "restarted")
    BY <1>4 DEF KnobTurned, PassStarts, TurnHandled, ClickHandled, encoderVars
  <2> QED
    BY <1>a, <1>b, <2>1 DEF EdgesAlternate, AgeIsNear, RestartNeedsHold
<1> QED
  BY <1>1, <1>2, <1>3, <1>4 DEF EncoderNext, RotaryTask

LEMMA EncoderInvAlways == EncoderSpec => []EncoderInv
  BY EncoderInvInit, EncoderInvNext, PTL DEF EncoderSpec

\* Every variable of the encoder has its type.
THEOREM EncoderTypeCorrect == EncoderSpec => []EncoderTypeOK
<1>1. EncoderInv => EncoderTypeOK
  BY DEF EncoderInv
<1> QED
  BY <1>1, EncoderInvAlways, PTL

\* The device restarts only after the knob was held for the threshold, less the time of
\* one pass, whatever the threshold and however long the callbacks take.
THEOREM OnlyAHoldRestarts == EncoderSpec => []RestartNeedsHold
<1>1. EncoderInv => RestartNeedsHold
  BY DEF EncoderInv, RestartNeedsHold
<1> QED
  BY <1>1, EncoderInvAlways, PTL
=============================================================================
