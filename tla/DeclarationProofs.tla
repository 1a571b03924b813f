--------------------------- MODULE DeclarationProofs ---------------------------
(***************************************************************************)
(* Proofs of the safety properties of Declaration, for any drivers, any    *)
(* number of lines and any number of attempts.                             *)
(***************************************************************************)
EXTENDS Declaration, TLAPS

USE DeclarationAssumption

\* What Tail and Append do, position by position.
LEMMA TailFacts ==
  ASSUME NEW S, NEW s \in Seq(S), s # <<>>
  PROVE  /\ Head(s) \in S /\ Head(s) = s[1]
         /\ Tail(s) \in Seq(S) /\ Len(s) \in Nat \ {0} /\ Len(Tail(s)) = Len(s) - 1
         /\ \A i \in 1 .. Len(s) - 1 : Tail(s)[i] = s[i + 1]
OBVIOUS

LEMMA AppendFacts ==
  ASSUME NEW S, NEW s \in Seq(S), NEW x \in S
  PROVE  /\ Append(s, x) \in Seq(S) /\ Len(s) \in Nat /\ Len(Append(s, x)) = Len(s) + 1
         /\ \A i \in 1 .. Len(s) : Append(s, x)[i] = s[i]
         /\ Append(s, x)[Len(s) + 1] = x
         /\ Append(s, x) # <<>>
OBVIOUS

\* Every step keeps the types.
LEMMA TypeStep == TypeOK /\ [Next]_vars => TypeOK'
<1> SUFFICES ASSUME TypeOK, [Next]_vars PROVE TypeOK'
  OBVIOUS
<1>1. CASE Declare
  BY <1>1 DEF TypeOK, Declare, Line, ack, thread, device, Waiting
<1>2. CASE Send
  <2>1. Append(lines, at) \in Seq(Line)
    BY AppendFacts DEF TypeOK
  <2>2. QED
    BY <1>2, <2>1 DEF TypeOK, Send, thread
<1>3. CASE Timeout \/ Joined \/ StopRxThread \/ Relock \/ Done
  BY <1>3 DEF TypeOK, Timeout, Joined, StopRxThread, Relock, Done, ack, thread, device
<1>4. CASE Expected
  <2>1. at + 1 \in Line
    BY <1>4 DEF TypeOK, Expected, Line
  <2>2. QED
    BY <1>4, <2>1 DEF TypeOK, Expected, ack, thread, device
<1>5. CASE Acknowledged \/ Unexpected \/ StartRxThread
  <2>1. 1 \in Line /\ (at < Lines => at + 1 \in Line)
    BY DEF TypeOK, Line
  <2>2. ASSUME NEW ok \in BOOLEAN, Return(ok)
        PROVE  main' = "idle" /\ at' \in Line /\ holder' = "none" /\ attempt' = attempt
               /\ declared' \in BOOLEAN
    BY <2>1, <2>2 DEF Return
  <2>3. CASE Acknowledged
    <3>1. CASE result = "success" /\ at < Lines
      BY <1>5, <2>3, <3>1, <2>1 DEF TypeOK, Acknowledged, thread, device
    <3>2. CASE ~(result = "success" /\ at < Lines)
      <4>1. Return(result = "success")
        BY <2>3, <3>2 DEF Acknowledged
      <4>2. (result = "success") \in BOOLEAN
        OBVIOUS
      <4>3. main' = "idle" /\ at' \in Line /\ holder' = "none" /\ attempt' = attempt
            /\ declared' \in BOOLEAN
        BY <2>2, <4>1, <4>2
      <4>4. QED
        BY <2>3, <4>3 DEF TypeOK, Acknowledged, thread, device
    <3>3. QED
      BY <3>1, <3>2
  <2>4. CASE Unexpected
    BY <2>4, <2>2 DEF TypeOK, Unexpected, ack, thread, device
  <2>5. CASE StartRxThread
    BY <2>5, <2>2 DEF TypeOK, StartRxThread, ack, device
  <2>6. QED
    BY <1>5, <2>3, <2>4, <2>5
<1>6. CASE RxData \/ Parse \/ RxEnd \/ Take \/ Give
  BY <1>6 DEF TypeOK, RxData, Parse, RxEnd, Take, Give, caller, ack, thread, device
<1>7. CASE RxAnswer
  <2>1. Head(answers) \in Answers /\ Tail(answers) \in Seq(Answers)
    BY <1>7, TailFacts DEF TypeOK, RxAnswer
  <2>2. QED
    BY <1>7, <2>1 DEF TypeOK, RxAnswer, caller, ack
<1>8. CASE Accept
  <2>1. Head(lines) \in Line /\ Tail(lines) \in Seq(Line)
    BY <1>8, TailFacts DEF TypeOK, Accept
  <2>2. Append(answers, Head(lines)) \in Seq(Answers)
    BY <2>1, AppendFacts DEF TypeOK, Answers
  <2>3. Arrives(Head(lines)) \in Seq(Line)
    <3>1. CASE Head(lines) = 1
      BY <2>1, <3>1 DEF Arrives
    <3>2. CASE Head(lines) # 1
      <4>1. Append(task, Head(lines)) \in Seq(Line)
        BY <2>1, AppendFacts DEF TypeOK
      <4>2. QED
        BY <3>2, <4>1 DEF Arrives
    <3>3. QED
      BY <3>1, <3>2
  <2>4. QED
    BY <1>8, <2>1, <2>2, <2>3 DEF TypeOK, Accept, caller, ack, thread
<1>9. CASE Refuse \/ LoseLine \/ LoseAnswer
  <2>1. lines # <<>> => Tail(lines) \in Seq(Line)
    BY TailFacts DEF TypeOK
  <2>2. answers # <<>> => Tail(answers) \in Seq(Answers)
    BY TailFacts DEF TypeOK
  <2>3. Append(answers, Refused) \in Seq(Answers)
    BY AppendFacts DEF TypeOK, Answers
  <2>4. QED
    BY <1>9, <2>1, <2>2, <2>3 DEF TypeOK, Refuse, LoseLine, LoseAnswer, caller, ack, thread
<1>10. CASE UNCHANGED vars
  BY <1>10 DEF TypeOK, vars, caller, ack, thread, device
<1>11. QED
  BY <1>1, <1>2, <1>3, <1>4, <1>5, <1>6, <1>7, <1>8, <1>9, <1>10
     DEF Next, Main, Receive, Device

\* The lock is held, and the receive thread stopped, where they should be.
LEMMA ThreadStep ==
  TypeOK /\ LockHeld /\ ThreadStopped /\ [Next]_vars => LockHeld' /\ ThreadStopped'
<1> SUFFICES ASSUME TypeOK, LockHeld, ThreadStopped, [Next]_vars
             PROVE  LockHeld' /\ ThreadStopped'
  OBVIOUS
<1>1. CASE Declare \/ Send \/ Timeout
  BY <1>1 DEF TypeOK, LockHeld, ThreadStopped, Declare, Send, Timeout, Waiting,
              ack, thread, device
<1>2. CASE Acknowledged
  BY <1>2 DEF TypeOK, LockHeld, ThreadStopped, Acknowledged, Return, Waiting, thread, device
<1>3. CASE StopRxThread \/ Joined \/ Relock \/ Expected \/ Done
  BY <1>3 DEF TypeOK, LockHeld, ThreadStopped, StopRxThread, Joined, Relock, Expected,
              Done, Waiting, ack, thread, device
<1>4. CASE Unexpected \/ StartRxThread
  BY <1>4 DEF TypeOK, LockHeld, ThreadStopped, Unexpected, StartRxThread, GivesUp, Return,
              Waiting, ack, thread, device
<1>5. CASE RxData \/ RxAnswer \/ Parse \/ RxEnd
  BY <1>5 DEF TypeOK, LockHeld, ThreadStopped, RxData, RxAnswer, Parse, RxEnd, Waiting,
              caller, ack, thread, device
<1>6. CASE Take \/ Give
  BY <1>6 DEF TypeOK, LockHeld, ThreadStopped, Take, Give, Waiting, caller, ack, thread, device
<1>7. CASE Accept \/ Refuse \/ LoseLine \/ LoseAnswer \/ UNCHANGED vars
  BY <1>7 DEF TypeOK, LockHeld, ThreadStopped, Accept, Refuse, LoseLine, LoseAnswer,
              Waiting, vars, caller, ack, thread, device
<1>8. QED
  BY <1>1, <1>2, <1>3, <1>4, <1>5, <1>6, <1>7 DEF Next, Main, Receive, Device

-----------------------------------------------------------------------------
(* The acknowledgements of a driver that names the lines. *)

LEMMA FirstFacts ==
  /\ First(1) = <<1>>
  /\ \A k \in Nat \ {0, 1} : Append(First(k - 1), k) = First(k)
<1>1. First(1) = <<1>>
  BY DEF First
<1>2. ASSUME NEW k \in Nat \ {0, 1}
      PROVE  Append(First(k - 1), k) = First(k)
  BY <1>2 DEF First
<1>3. QED
  BY <1>1, <1>2

\* What is on the way loses a part or moves on, nothing is added.
Moves == RxData \/ RxAnswer \/ Accept \/ Refuse \/ LoseLine \/ LoseAnswer

Kept == UNCHANGED <<driver, caller, ack>>

LEMMA MovesOnly == Moves => Kept
BY DEF Moves, Kept, RxData, RxAnswer, Accept, Refuse, LoseLine, LoseAnswer, caller, ack

LEMMA Lengths ==
  ASSUME TypeOK
  PROVE  /\ Len(lines) \in Nat /\ Len(answers) \in Nat /\ OnWay \in Nat
         /\ Len(lines) <= OnWay /\ Len(answers) <= OnWay
         /\ Len(lines) + Len(answers) <= OnWay
         /\ Hand => Len(lines) + Len(answers) + 1 <= OnWay
         /\ (lines = <<>>) <=> (Len(lines) = 0)
         /\ (answers = <<>>) <=> (Len(answers) = 0)
         /\ DOMAIN lines = 1 .. Len(lines) /\ DOMAIN answers = 1 .. Len(answers)
<1>1. lines \in Seq(Line) /\ answers \in Seq(Answers)
  BY DEF TypeOK
<1>2. Len(lines) \in Nat /\ Len(answers) \in Nat
  BY <1>1
<1>3. QED
  BY <1>1, <1>2 DEF OnWay

\* What a move keeps.
Preserved ==
  /\ OnWay' <= OnWay
  /\ \A k \in Line : Own(k) => Own(k)'
  /\ \A k \in Line : Acked(k) => Acked(k)'
  /\ Left => Left'
  /\ FirstLine /\ OnWay <= 2 => FirstLine'
  /\ \A k \in Line : k > 1 /\ LaterLine(k) /\ OnWay <= (IF k > 2 THEN 1 ELSE 2)
        => LaterLine(k)'

LEMMA AnswerTaken == TypeOK /\ RxAnswer => Preserved
<1> SUFFICES ASSUME TypeOK, RxAnswer PROVE Preserved
  OBVIOUS
<1>1. TypeOK'
  BY TypeStep DEF Next, Receive
<1>2. /\ ~Hand /\ Hand' /\ line' = answers[1] /\ answers # <<>>
      /\ lines' = lines /\ task' = task
      /\ Len(answers) >= 1 /\ Len(answers') = Len(answers) - 1
      /\ \A i \in 1 .. Len(answers) - 1 : answers'[i] = answers[i + 1]
  <2>1. answers \in Seq(Answers) /\ answers # <<>> /\ answers' = Tail(answers)
    BY DEF TypeOK, RxAnswer
  <2>2. line' = answers[1] /\ line' \in Answers
    BY <2>1, TailFacts DEF RxAnswer
  <2>3. line' # Sentence
    BY <2>2 DEF Answers, Sentence, Refused, Line
  <2>4. QED
    BY <2>1, <2>2, <2>3, TailFacts DEF RxAnswer, Hand
<1>3. OnWay' = OnWay
  BY <1>2, Lengths DEF OnWay
<1>4. /\ DOMAIN answers = 1 .. Len(answers) /\ DOMAIN answers' = 1 .. Len(answers')
      /\ Len(answers) \in Nat /\ Len(answers') \in Nat /\ 1 \in DOMAIN answers
      /\ Len(answers') = 0 => answers' = <<>>
  <2>1. answers \in Seq(Answers) /\ answers' \in Seq(Answers)
    BY <1>1 DEF TypeOK
  <2>2. QED
    BY <2>1, <1>2
<1>s. \A i \in DOMAIN answers' :
        /\ i + 1 \in DOMAIN answers /\ i + 1 > 1 /\ answers'[i] = answers[i + 1]
        /\ i + 1 = Len(answers) => i = Len(answers')
  BY <1>2, <1>4
<1>5. ASSUME NEW k \in Line, Heard(k)'
      PROVE  Heard(k)
  BY <1>2, <1>4, <1>5 DEF Heard
<1>6. ASSUME NEW k \in Line, Own(k)
      PROVE  Own(k)'
  BY <1>2, <1>4, <1>6 DEF Own
<1>7. 1 \in Line
  BY DEF Line
<1>8. ASSUME NEW k \in Line, Acked(k)
      PROVE  Acked(k)'
  BY <1>2, <1>3, <1>6, <1>7, <1>8 DEF Acked, First
<1>9. Left => Left'
  BY <1>2, <1>3, <1>5, <1>7 DEF Left, First
<1>10. ASSUME FirstLine, OnWay <= 2
       PROVE  FirstLine'
  <2>1. \A i \in DOMAIN answers' : answers'[i] \in {1, Refused}
    BY <1>10, <1>s DEF FirstLine
  <2>3. \A i \in DOMAIN lines' : lines'[i] = 1
    BY <1>2, <1>10 DEF FirstLine
  <2>4. Heard(1)' => task' = First(1)
    BY <1>2, <1>5, <1>7, <1>10 DEF FirstLine
  <2>5. QED
    BY <2>1, <2>3, <2>4 DEF FirstLine, First
<1>11. ASSUME NEW k \in Line, k > 1, LaterLine(k), OnWay <= IF k > 2 THEN 1 ELSE 2
       PROVE  LaterLine(k)'
  <2>0. /\ \A i \in DOMAIN answers : i > 1 => answers[i] \in {k, Refused}
        /\ \A i \in DOMAIN answers : answers[i] = k => i = Len(answers) /\ lines = <<>>
    BY <1>11 DEF LaterLine
  <2>1. /\ \A i \in DOMAIN answers' : answers'[i] \in {k, Refused}
        /\ \A i \in DOMAIN answers' :
              answers'[i] = k => i = Len(answers') /\ lines' = <<>>
    BY <1>2, <1>s, <2>0
  <2>2. ASSUME line' = k PROVE answers' = <<>> /\ lines' = <<>>
    <3>1. 1 = Len(answers) /\ lines = <<>>
      BY <1>2, <1>4, <2>0, <2>2
    <3>2. Len(answers') = 0
      BY <1>2, <1>4, <3>1
    <3>3. QED
      BY <1>2, <1>4, <3>1, <3>2
  <2>3. QED
    BY <1>2, <1>5, <1>11, <2>1, <2>2 DEF LaterLine, First
<1>12. QED
  BY <1>3, <1>6, <1>8, <1>9, <1>10, <1>11, Lengths DEF Preserved

LEMMA AnswerLost == TypeOK /\ LoseAnswer => Preserved
<1> SUFFICES ASSUME TypeOK, LoseAnswer PROVE Preserved
  OBVIOUS
<1>1. /\ rx' = rx /\ line' = line /\ lines' = lines /\ task' = task
      /\ answers \in Seq(Answers) /\ answers' \in Seq(Answers) /\ answers # <<>>
      /\ Len(answers) \in Nat \ {0} /\ Len(answers') = Len(answers) - 1
      /\ \A i \in 1 .. Len(answers) - 1 : answers'[i] = answers[i + 1]
  BY TailFacts DEF TypeOK, LoseAnswer, thread
<1>2. /\ DOMAIN answers = 1 .. Len(answers) /\ DOMAIN answers' = 1 .. Len(answers')
      /\ Len(answers') \in Nat
      /\ Len(answers') = 0 => answers' = <<>>
      /\ Hand' <=> Hand
  BY <1>1 DEF Hand
<1>s. \A i \in DOMAIN answers' :
        /\ i + 1 \in DOMAIN answers /\ i + 1 > 1 /\ answers'[i] = answers[i + 1]
        /\ i + 1 = Len(answers) => i = Len(answers')
  BY <1>1, <1>2
<1>3. OnWay' = OnWay - 1 /\ OnWay \in Nat
  BY <1>1, <1>2, Lengths DEF OnWay
<1>4. ASSUME NEW k \in Line, Heard(k)'
      PROVE  Heard(k)
  BY <1>1, <1>2, <1>4 DEF Heard
<1>5. ASSUME NEW k \in Line, Own(k)
      PROVE  Own(k)'
  BY <1>1, <1>2, <1>5 DEF Own
<1>6. 1 \in Line
  BY DEF Line
<1>7. ASSUME NEW k \in Line, Acked(k)
      PROVE  Acked(k)'
  BY <1>1, <1>3, <1>5, <1>6, <1>7 DEF Acked, First
<1>8. Left => Left'
  BY <1>1, <1>3, <1>4, <1>6 DEF Left, First
<1>9. ASSUME FirstLine
      PROVE  FirstLine'
  BY <1>1, <1>2, <1>4, <1>6, <1>9 DEF FirstLine, First
<1>10. ASSUME NEW k \in Line, k > 1, LaterLine(k)
       PROVE  LaterLine(k)'
  <2>0. /\ \A i \in DOMAIN answers : i > 1 \/ Hand => answers[i] \in {k, Refused}
        /\ \A i \in DOMAIN answers : answers[i] = k => i = Len(answers) /\ lines = <<>>
        /\ Hand /\ line = k => answers = <<>>
    BY <1>10 DEF LaterLine
  <2>1. /\ \A i \in DOMAIN answers' : answers'[i] \in {k, Refused}
        /\ \A i \in DOMAIN answers' :
              answers'[i] = k => i = Len(answers') /\ lines' = <<>>
    BY <1>1, <1>s, <2>0
  <2>2. ~(Hand' /\ line' = k)
    BY <1>1, <1>2, <2>0
  <2>3. QED
    BY <1>1, <1>2, <1>4, <1>10, <2>1, <2>2 DEF LaterLine, First
<1>11. QED
  BY <1>3, <1>5, <1>7, <1>8, <1>9, <1>10 DEF Preserved

\* A line leaves the way to the device: a refusal answers it, or nothing does.
LEMMA LineGone == TypeOK /\ (Refuse \/ LoseLine) => Preserved
<1> SUFFICES ASSUME TypeOK, Refuse \/ LoseLine PROVE Preserved
  OBVIOUS
<1>1. /\ rx' = rx /\ line' = line /\ task' = task
      /\ lines \in Seq(Line) /\ lines' \in Seq(Line) /\ lines # <<>>
      /\ Len(lines) \in Nat \ {0} /\ Len(lines') = Len(lines) - 1
      /\ \A i \in 1 .. Len(lines) - 1 : lines'[i] = lines[i + 1]
  BY TailFacts DEF TypeOK, Refuse, LoseLine, thread
<1>2. /\ DOMAIN lines = 1 .. Len(lines) /\ DOMAIN lines' = 1 .. Len(lines')
      /\ Len(lines') \in Nat
      /\ Len(lines') = 0 => lines' = <<>>
      /\ lines' # <<>> => Len(lines') > 0
      /\ Hand' <=> Hand
  BY <1>1 DEF Hand
<1>3. /\ answers \in Seq(Answers) /\ answers' \in Seq(Answers)
      /\ Len(answers) \in Nat /\ Len(answers') \in Len(answers) .. Len(answers) + 1
      /\ DOMAIN answers = 1 .. Len(answers) /\ DOMAIN answers' = 1 .. Len(answers')
      /\ \A i \in DOMAIN answers : answers'[i] = answers[i]
      /\ \A i \in DOMAIN answers' : i \in DOMAIN answers \/ answers'[i] = Refused
  <2>1. Refused \in Answers /\ answers \in Seq(Answers)
    BY DEF Answers, TypeOK
  <2>2. CASE LoseLine
    BY <2>1, <2>2 DEF LoseLine
  <2>3. CASE Refuse
    <3>1. answers' = Append(answers, Refused)
      BY <2>3 DEF Refuse
    <3>2. QED
      BY <2>1, <3>1, AppendFacts
  <2>4. QED
    BY <2>2, <2>3
<1>4. OnWay' <= OnWay /\ OnWay \in Nat
  BY <1>1, <1>2, <1>3, Lengths DEF OnWay
<1>5. ASSUME NEW k \in Line, Heard(k)'
      PROVE  Heard(k)
  <2>1. k # Refused
    BY DEF Line, Refused
  <2>2. QED
    BY <1>1, <1>2, <1>3, <1>5, <2>1 DEF Heard
<1>6. ASSUME NEW k \in Line, Own(k)
      PROVE  Own(k)'
  BY <1>1, <1>2, <1>3, <1>6 DEF Own
<1>7. 1 \in Line
  BY DEF Line
<1>8. ASSUME NEW k \in Line, Acked(k)
      PROVE  Acked(k)'
  <2>1. OnWay' <= IF k = 1 THEN 1 ELSE 0
    BY <1>1, <1>2, <1>3, <1>4, <1>8, Lengths DEF Acked, OnWay
  <2>2. QED
    BY <1>1, <1>6, <1>7, <1>8, <2>1 DEF Acked, First
<1>9. Left => Left'
  <2>1. OnWay <= 1 => OnWay' <= 1
    BY <1>1, <1>2, <1>3, <1>4, Lengths DEF OnWay
  <2>2. QED
    BY <1>1, <1>5, <1>7, <2>1 DEF Left, First
<1>10. ASSUME FirstLine
       PROVE  FirstLine'
  BY <1>1, <1>2, <1>3, <1>5, <1>7, <1>10 DEF FirstLine, First
<1>11. ASSUME NEW k \in Line, k > 1, LaterLine(k)
       PROVE  LaterLine(k)'
  <2>1. /\ \A i \in DOMAIN answers : i > 1 \/ Hand => answers[i] \in {k, Refused}
        /\ \A i \in DOMAIN answers : answers[i] # k
        /\ ~(Hand /\ line = k)
        /\ task = First(k - 1) /\ lines[Len(lines)] = k
        /\ \A i \in 1 .. Len(lines) - 1 : lines[i] = 1
    BY <1>1, <1>11 DEF LaterLine
  <2>2. k # Refused
    BY DEF Line, Refused
  <2>3. /\ \A i \in DOMAIN answers' : i > 1 \/ Hand' => answers'[i] \in {k, Refused}
        /\ \A i \in DOMAIN answers' : answers'[i] # k
        /\ ~(Hand' /\ line' = k)
    BY <1>1, <1>2, <1>3, <2>1, <2>2
  <2>4. ASSUME lines' # <<>>
        PROVE  /\ lines'[Len(lines')] = k
               /\ \A i \in 1 .. Len(lines') - 1 : lines'[i] = 1
    BY <1>1, <1>2, <2>1, <2>4
  <2>5. ~Heard(k)'
    BY <2>3 DEF Heard
  <2>6. QED
    BY <1>1, <2>1, <2>3, <2>4, <2>5 DEF LaterLine, First
<1>12. QED
  BY <1>4, <1>6, <1>8, <1>9, <1>10, <1>11 DEF Preserved

LEMMA LineAccepted == TypeOK /\ Accept => Preserved
<1> SUFFICES ASSUME TypeOK, Accept PROVE Preserved
  OBVIOUS
<1> DEFINE h == lines[1]
<1>1. /\ rx' = rx /\ line' = line /\ h \in Line
      /\ task' = Arrives(h) /\ answers' = Append(answers, h)
      /\ lines \in Seq(Line) /\ lines' \in Seq(Line) /\ lines # <<>>
      /\ Len(lines) \in Nat \ {0} /\ Len(lines') = Len(lines) - 1
      /\ \A i \in 1 .. Len(lines) - 1 : lines'[i] = lines[i + 1]
  BY TailFacts DEF TypeOK, Accept, thread
<1>2. /\ DOMAIN lines = 1 .. Len(lines) /\ DOMAIN lines' = 1 .. Len(lines')
      /\ Len(lines') \in Nat
      /\ Len(lines') = 0 => lines' = <<>>
      /\ lines' # <<>> => Len(lines') > 0
      /\ Hand' <=> Hand
      /\ 1 \in DOMAIN lines
  BY <1>1 DEF Hand
<1>3. /\ answers \in Seq(Answers) /\ answers' \in Seq(Answers)
      /\ Len(answers) \in Nat /\ Len(answers') = Len(answers) + 1
      /\ DOMAIN answers = 1 .. Len(answers) /\ DOMAIN answers' = 1 .. Len(answers')
      /\ \A i \in DOMAIN answers : answers'[i] = answers[i]
      /\ answers'[Len(answers')] = h
      /\ \A i \in DOMAIN answers' : i \in DOMAIN answers \/ i = Len(answers')
      /\ answers = <<>> <=> Len(answers) = 0
  <2>1. h \in Answers /\ answers \in Seq(Answers)
    BY <1>1 DEF Answers, TypeOK
  <2>2. QED
    BY <1>1, <2>1, AppendFacts
<1> HIDE DEF h
<1>4. OnWay' = OnWay /\ OnWay \in Nat
  BY <1>1, <1>2, <1>3, Lengths DEF OnWay
<1>5. ASSUME NEW k \in Line, Heard(k)', h # k
      PROVE  Heard(k)
  BY <1>1, <1>2, <1>3, <1>5 DEF Heard
<1>6. ASSUME NEW k \in Line, Own(k)
      PROVE  Own(k)'
  <2>1. h = k
    BY <1>2, <1>6 DEF Own, h
  <2>2. \A i \in DOMAIN lines' : lines'[i] = k
    <3>1. \A i \in DOMAIN lines' : i + 1 \in DOMAIN lines /\ lines'[i] = lines[i + 1]
      BY <1>1, <1>2
    <3>2. QED
      BY <1>6, <3>1 DEF Own
  <2>3. \A i \in DOMAIN answers' : answers'[i] \in {k, Refused}
    BY <1>3, <1>6, <2>1 DEF Own
  <2>4. QED
    BY <1>1, <1>2, <1>6, <2>2, <2>3 DEF Own
<1>7. 1 \in Line
  BY DEF Line
<1>8. h = 1 => task' = First(1)
  BY <1>1, FirstFacts DEF Arrives
<1>9. ASSUME NEW k \in Line, Acked(k)
      PROVE  Acked(k)'
  <2>1. h = 1 /\ Own(1)'
    BY <1>2, <1>6, <1>7, <1>9 DEF Acked, Own, h
  <2>2. k = 1
    BY <1>1, <1>9, Lengths DEF Acked
  <2>3. QED
    BY <1>4, <1>8, <1>9, <2>1, <2>2 DEF Acked, First
<1>10. ASSUME Left
       PROVE  Left'
  <2>1. ~Hand /\ Len(answers) = 0
    BY <1>1, <1>10, Lengths DEF Left
  <2>2. ~Heard(1)
    BY <1>3, <2>1 DEF Heard
  <2>3. QED
    BY <1>4, <1>5, <1>7, <1>8, <1>10, <2>2 DEF Left, First
<1>11. ASSUME FirstLine, OnWay <= 2
       PROVE  FirstLine'
  <2>1. answers # <<>> \/ Hand => h = 1
    BY <1>2, <1>11 DEF FirstLine, h
  <2>2. Heard(1)' => task' = First(1)
    <3>1. CASE h = 1
      BY <1>8, <3>1 DEF First
    <3>2. CASE h # 1
      <4>1. ~Heard(1)
        BY <1>3, <2>1, <3>2 DEF Heard
      <4>2. QED
        BY <1>5, <1>7, <3>2, <4>1
    <3>3. QED
      BY <3>1, <3>2
  <2>3. \A i \in DOMAIN lines' : lines'[i] = 1
    <3>1. \A i \in DOMAIN lines' :
              /\ i + 1 \in DOMAIN lines /\ i + 1 > 1 /\ lines'[i] = lines[i + 1]
      BY <1>1, <1>2
    <3>2. QED
      BY <1>11, <3>1 DEF FirstLine
  <2>4. \A i \in DOMAIN answers' : i > 1 \/ Hand' => answers'[i] \in {1, Refused}
    <3>1. SUFFICES ASSUME NEW i \in DOMAIN answers', i > 1 \/ Hand
                   PROVE  answers'[i] \in {1, Refused}
      BY <1>2
    <3>2. CASE i \in DOMAIN answers
      BY <1>3, <1>11, <3>1, <3>2 DEF FirstLine
    <3>3. CASE i = Len(answers')
      <4>1. answers # <<>> \/ Hand
        BY <1>3, <3>1, <3>3
      <4>2. QED
        BY <1>3, <2>1, <3>3, <4>1
    <3>4. QED
      BY <1>3, <3>2, <3>3
  <2>5. QED
    BY <2>2, <2>3, <2>4 DEF FirstLine, First
<1>12. ASSUME NEW k \in Line, k > 1, LaterLine(k), OnWay <= IF k > 2 THEN 1 ELSE 2
       PROVE  LaterLine(k)'
  <2>1. /\ \A i \in DOMAIN answers : i > 1 \/ Hand => answers[i] \in {k, Refused}
        /\ \A i \in DOMAIN answers : answers[i] # k
        /\ ~(Hand /\ line = k)
        /\ task = First(k - 1) /\ lines[Len(lines)] = k
        /\ \A i \in 1 .. Len(lines) - 1 : lines[i] = 1
    BY <1>1, <1>12 DEF LaterLine
  <2>2. k \in Nat \ {0, 1} /\ k # Refused
    BY <1>12 DEF Line, Refused
  <2>3. ~Heard(k)
    BY <2>1 DEF Heard
  <2>4. CASE Len(lines) = 1
    <3>1. h = k /\ lines' = <<>>
      BY <1>1, <1>2, <2>1, <2>4 DEF h
    <3>2. task' = First(k)
      BY <1>1, <2>1, <2>2, <3>1, FirstFacts DEF Arrives
    <3>3. \A i \in DOMAIN answers' : answers'[i] = k => i = Len(answers')
      BY <1>3, <2>1
    <3>4. \A i \in DOMAIN answers' : i > 1 \/ Hand' => answers'[i] \in {k, Refused}
      BY <1>2, <1>3, <2>1, <3>1
    <3>5. QED
      BY <1>1, <1>2, <2>1, <3>1, <3>2, <3>3, <3>4 DEF LaterLine, First
  <2>5. CASE Len(lines) > 1
    <3>1. Len(lines) = 2 /\ k = 2 /\ ~Hand /\ answers = <<>>
      BY <1>1, <1>3, <1>12, <2>2, <2>5, Lengths
    <3>2. h = 1
      BY <2>1, <3>1 DEF h
    <3>3. ~Heard(k)'
      BY <1>5, <2>2, <2>3, <3>2
    <3>4. Len(lines') = 1 /\ lines'[1] = k
      BY <1>1, <2>1, <3>1
    <3>5. \A i \in DOMAIN answers' : i = 1 /\ answers'[i] = 1
      BY <1>3, <3>1, <3>2
    <3>6. task' = First(k - 1)
      BY <1>8, <3>1, <3>2
    <3>7. QED
      BY <1>2, <1>3, <2>2, <3>1, <3>3, <3>4, <3>5, <3>6 DEF LaterLine, First
  <2>6. QED
    BY <1>1, <2>4, <2>5
<1>13. QED
  BY <1>4, <1>6, <1>9, <1>10, <1>11, <1>12 DEF Preserved

LEMMA DataTaken == TypeOK /\ RxData => Preserved
<1> SUFFICES ASSUME TypeOK, RxData PROVE Preserved
  OBVIOUS
<1>1. /\ lines' = lines /\ answers' = answers /\ task' = task /\ ~Hand' /\ ~Hand
  BY DEF RxData, device, Hand
<1>2. OnWay' = OnWay /\ OnWay \in Nat
  BY <1>1, Lengths DEF OnWay
<1>3. ASSUME NEW k \in Line
      PROVE  Own(k)' = Own(k) /\ Heard(k)' = Heard(k)
  BY <1>1 DEF Own, Heard
<1>4. 1 \in Line
  BY DEF Line
<1>5. FirstLine => FirstLine'
  BY <1>1, <1>3, <1>4 DEF FirstLine, First
<1>6. ASSUME NEW k \in Line, LaterLine(k)
      PROVE  LaterLine(k)'
  BY <1>1, <1>3, <1>6 DEF LaterLine, First
<1>7. ASSUME NEW k \in Line, Acked(k)
      PROVE  Acked(k)'
  BY <1>1, <1>2, <1>3, <1>4, <1>7 DEF Acked, First
<1>8. Left => Left'
  BY <1>1, <1>2, <1>3, <1>4 DEF Left, First
<1>9. QED
  BY <1>2, <1>3, <1>5, <1>6, <1>7, <1>8 DEF Preserved

\* So a move keeps the invariant, whatever the main thread waits for.
LEMMA MoveStep == TypeOK /\ Follows /\ Moves => Follows'
<1> SUFFICES ASSUME TypeOK, Follows, Moves PROVE Follows'
  OBVIOUS
<1>1. Preserved
  BY AnswerTaken, AnswerLost, LineGone, LineAccepted, DataTaken DEF Moves
<1>2. Kept
  BY MovesOnly
<1>3. /\ main' = main /\ at' = at /\ declared' = declared /\ result' = result
      /\ expects' = expects /\ at \in Line /\ Lines \in Line
  BY <1>2 DEF Kept, caller, ack, TypeOK, Line
<1>4. OnWay \in Nat /\ OnWay' \in Nat
  <2>1. TypeOK'
    BY TypeStep DEF Moves, Next, Receive, Device
  <2>2. Len(lines') \in Nat /\ Len(answers') \in Nat
    BY <2>1 DEF TypeOK
  <2>3. QED
    BY <2>2, Lengths DEF OnWay
<1>5. main = "idle" => Left' /\ (declared => Acked(Lines)')
  BY <1>1, <1>3 DEF Follows, Preserved
<1>6. main = "send" => IF at = 1 THEN Left' ELSE Acked(at - 1)'
  <2>1. at # 1 => at - 1 \in Line
    BY <1>3 DEF Line
  <2>2. QED
    BY <1>1, <1>3, <2>1 DEF Follows, Preserved
<1>7. main \in {"wait", "late"} => expects = at /\ WaitFor(at)'
  <2>1. SUFFICES ASSUME main \in {"wait", "late"} PROVE WaitFor(at)'
    BY DEF Follows
  <2>2. WaitFor(at)
    BY <2>1 DEF Follows
  <2>3. CASE result = "success"
    BY <1>1, <1>3, <2>2, <2>3 DEF WaitFor, Preserved
  <2>4. CASE result # "success"
    <3>1. OnWay <= IF at > 2 THEN 1 ELSE 2
      BY <2>2, <2>4 DEF WaitFor
    <3>2. OnWay' <= IF at > 2 THEN 1 ELSE 2
      BY <1>1, <1>3, <1>4, <3>1 DEF Preserved, Line
    <3>3. main = "late" \/ result = "error" => OnWay' <= 1 /\ Own(at)'
      BY <1>1, <1>3, <1>4, <2>2, <2>4 DEF WaitFor, Preserved
    <3>4. IF at = 1 THEN FirstLine' ELSE LaterLine(at)'
      <4>1. CASE at = 1
        BY <1>1, <2>2, <2>4, <3>1, <4>1 DEF WaitFor, Preserved
      <4>2. CASE at # 1
        <5>1. at > 1
          BY <1>3, <4>2 DEF Line
        <5>2. QED
          BY <1>1, <1>3, <2>2, <2>4, <3>1, <4>2, <5>1 DEF WaitFor, Preserved
      <4>3. QED
        BY <4>1, <4>2
    <3>5. QED
      BY <1>3, <2>4, <3>2, <3>3, <3>4 DEF WaitFor
  <2>5. QED
    BY <2>3, <2>4
<1>8. QED
  BY <1>3, <1>5, <1>6, <1>7 DEF Follows

\* Nothing on the way, and nothing of it heard.
LEMMA NothingHeard ==
  ASSUME TypeOK, OnWay = 0, NEW k \in Line
  PROVE  ~Heard(k) /\ Own(k)
<1>1. Len(answers) = 0 /\ Len(lines) = 0 /\ ~Hand
  BY Lengths
<1>2. DOMAIN answers = {} /\ DOMAIN lines = {}
  BY <1>1, Lengths
<1>3. QED
  BY <1>1, <1>2 DEF Heard, Own

LEMMA DeclareStep == TypeOK /\ Follows /\ Declare /\ driver = "flarm" => Follows'
BY DEF Follows, Declare, Waiting, Left, Heard, Hand, OnWay, First, thread, device

LEMMA TimeoutStep == TypeOK /\ Follows /\ Timeout => Follows'
<1> SUFFICES ASSUME TypeOK, Follows, Timeout PROVE Follows'
  OBVIOUS
<1>1. /\ main = "wait" /\ main' = "late" /\ at' = at /\ expects' = expects
      /\ result' = result /\ rx' = rx /\ line' = line
      /\ lines' = lines /\ answers' = answers /\ task' = task
  BY DEF Timeout, ack, thread, device
<1>2. ~Hand /\ OnWay <= 1 /\ Own(at)
  BY DEF Timeout, OnlyThisLineIsLate, Hand, OnWay, Own
<1>3. WaitFor(at)
  BY <1>1 DEF Follows
<1>4. ASSUME NEW k \in Line
      PROVE  /\ OnWay' = OnWay /\ Own(k)' = Own(k) /\ Acked(k)' = Acked(k)
             /\ FirstLine' = FirstLine /\ LaterLine(k)' = LaterLine(k)
  BY <1>1 DEF OnWay, Own, Acked, FirstLine, LaterLine, Heard, Hand, First
<1>5. at \in Line
  BY DEF TypeOK
<1>6. WaitFor(at)'
  BY <1>1, <1>2, <1>3, <1>4, <1>5 DEF WaitFor
<1>7. QED
  BY <1>1, <1>6 DEF Follows

LEMMA AcknowledgedStep == TypeOK /\ Follows /\ Acknowledged => Follows'
<1> SUFFICES ASSUME TypeOK, Follows, Acknowledged PROVE Follows'
  OBVIOUS
<1>1. /\ main \in {"wait", "late"} /\ rx' = rx /\ line' = line
      /\ lines' = lines /\ answers' = answers /\ task' = task
  BY DEF Acknowledged, thread, device
<1>2. /\ OnWay' = OnWay /\ Left' = Left
      /\ \A k \in Line : Acked(k)' = Acked(k)
  BY <1>1 DEF OnWay, Left, Acked, Own, Heard, Hand, First
<1>3. WaitFor(at) /\ at \in Line /\ Lines \in Line /\ 1 \in Line
  BY <1>1 DEF Follows, TypeOK, Line
<1>4. CASE result = "success" /\ at < Lines
  <2>1. main' = "send" /\ at' = at + 1
    BY <1>4 DEF Acknowledged
  <2>2. at' # 1 /\ at' - 1 = at
    BY <1>3, <2>1 DEF Line
  <2>3. Acked(at)
    BY <1>3, <1>4 DEF WaitFor
  <2>4. \A k \in Line : k = at => Acked(k)'
    BY <1>2, <2>3
  <2>5. Acked(at - 1)'
    BY <1>3, <2>2, <2>4
  <2>6. QED
    BY <2>1, <2>2, <2>5 DEF Follows
<1>5. CASE result = "success" /\ ~(at < Lines)
  <2>1. main' = "idle"
    BY <1>5 DEF Acknowledged, Return
  <2>2. at = Lines /\ Acked(Lines)
    BY <1>3, <1>5 DEF WaitFor, Line
  <2>3. Left
    <3>1. CASE Lines = 1
      BY <2>2, <3>1 DEF Acked, Left
    <3>2. CASE Lines # 1
      <4>1. OnWay = 0
        BY <2>2, <3>2, Lengths DEF Acked
      <4>2. QED
        BY <1>3, <4>1, NothingHeard DEF Left
    <3>3. QED
      BY <3>1, <3>2
  <2>4. QED
    BY <1>2, <1>3, <2>1, <2>2, <2>3 DEF Follows
<1>6. CASE result # "success"
  <2>1. main' = "idle" /\ ~declared'
    BY <1>6 DEF Acknowledged, Return
  <2>2. main = "late" \/ result = "error"
    BY <1>6 DEF Acknowledged, TypeOK
  <2>3. OnWay <= 1 /\ Own(at)
    BY <1>3, <1>6, <2>2 DEF WaitFor
  <2>4. Heard(1) => task = First(1)
    <3>1. CASE at = 1
      BY <1>3, <1>6, <3>1 DEF WaitFor, FirstLine
    <3>2. CASE at # 1
      BY <2>3, <3>2 DEF Own, Heard, Refused
    <3>3. QED
      BY <3>1, <3>2
  <2>5. QED
    BY <1>2, <2>1, <2>3, <2>4 DEF Follows, Left
<1>7. QED
  BY <1>4, <1>5, <1>6

LEMMA SendStep == TypeOK /\ Follows /\ Send => Follows'
<1> SUFFICES ASSUME TypeOK, Follows, Send PROVE Follows'
  OBVIOUS
<1>1. /\ main = "send" /\ main' = "wait" /\ at' = at /\ expects' = at
      /\ result' = "timeout" /\ rx' = rx /\ line' = line
      /\ lines' = Append(lines, at) /\ answers' = answers /\ task' = task
      /\ at \in Line /\ at \in Nat \ {0} /\ 1 \in Line
  BY DEF TypeOK, Send, thread, Line
<1>2. /\ lines \in Seq(Line) /\ lines' \in Seq(Line) /\ Len(lines) \in Nat
      /\ Len(lines') = Len(lines) + 1 /\ lines' # <<>>
      /\ \A i \in 1 .. Len(lines) : lines'[i] = lines[i]
      /\ lines'[Len(lines')] = at
      /\ DOMAIN lines' = 1 .. Len(lines')
  <2>1. lines \in Seq(Line)
    BY DEF TypeOK
  <2>2. QED
    BY <1>1, <2>1, AppendFacts
<1>3. OnWay' = OnWay + 1 /\ OnWay \in Nat
  BY <1>1, <1>2, Lengths DEF OnWay, Hand
<1>4. (Hand' <=> Hand) /\ \A k \in Line : Heard(k)' <=> Heard(k)
  BY <1>1 DEF Hand, Heard
<1>5. CASE at = 1
  <2>1. Left
    BY <1>1, <1>5 DEF Follows
  <2>2. OnWay' <= 2
    BY <1>3, <2>1 DEF Left
  <2>3. FirstLine'
    <3>1. Heard(1)' => task' = First(1)
      BY <1>1, <1>4, <2>1 DEF Left
    <3>2. \A i \in DOMAIN answers : ~(i > 1 \/ Hand)
      BY <1>3, <2>1, Lengths DEF Left
    <3>3. ASSUME NEW i \in DOMAIN lines', i > 1 \/ answers # <<>> \/ Hand
          PROVE  lines'[i] = 1
      <4>1. CASE i = Len(lines')
        BY <1>2, <1>5, <4>1
      <4>2. CASE i # Len(lines')
        <5>1. i \in 1 .. Len(lines)
          BY <1>2, <3>3, <4>2
        <5>2. Len(lines) + Len(answers) <= 1 /\ (Hand => Len(lines) = 0)
          BY <1>2, <1>3, <2>1, Lengths DEF Left
        <5>3. i = 1 /\ Len(answers) = 0 /\ ~Hand
          BY <1>2, <5>1, <5>2, Lengths
        <5>4. QED
          BY <3>3, <5>3, Lengths
      <4>3. QED
        BY <4>1, <4>2
    <3>4. QED
      BY <1>1, <1>4, <3>1, <3>2, <3>3 DEF FirstLine, First
  <2>4. QED
    BY <1>1, <1>5, <2>2, <2>3 DEF Follows, WaitFor
<1>6. CASE at > 1
  <2>1. Acked(at - 1) /\ at - 1 \in Line
    BY <1>1, <1>6 DEF Follows, Line
  <2>2. OnWay <= IF at = 2 THEN 1 ELSE 0
    BY <1>1, <1>6, <2>1 DEF Acked
  <2>3. OnWay' <= IF at > 2 THEN 1 ELSE 2
    BY <1>1, <1>3, <1>6, <2>2
  <2>4. /\ \A i \in DOMAIN answers : answers[i] \in {1, Refused}
        /\ Hand => line \in {1, Refused}
        /\ \A i \in DOMAIN lines : lines[i] = 1
        /\ task = First(at - 1)
    BY <2>1 DEF Acked, Own
  <2>5. ~Heard(at)' /\ (Hand => line # at) /\ \A i \in DOMAIN answers : answers[i] # at
    BY <1>1, <1>4, <1>6, <2>4 DEF Heard, Refused
  <2>6. \A i \in DOMAIN answers : ~(i > 1 \/ Hand)
    BY <1>1, <1>3, <1>6, <2>2, Lengths
  <2>7. \A i \in 1 .. Len(lines') - 1 : lines'[i] = 1
    BY <1>2, <2>4, Lengths
  <2>8. LaterLine(at)'
    BY <1>1, <1>2, <1>4, <2>4, <2>5, <2>6, <2>7 DEF LaterLine, First
  <2>9. QED
    BY <1>1, <1>6, <2>3, <2>8 DEF Follows, WaitFor
<1>7. QED
  BY <1>1, <1>5, <1>6

LEMMA ParseStep == TypeOK /\ Follows /\ Parse /\ driver = "flarm" => Follows'
<1> SUFFICES ASSUME TypeOK, Follows, Parse, driver = "flarm" PROVE Follows'
  OBVIOUS
<1>1. /\ main' = main /\ at' = at /\ declared' = declared /\ expects' = expects
      /\ lines' = lines /\ answers' = answers /\ task' = task
      /\ at \in Line /\ at \in Nat \ {0} /\ 1 \in Line /\ Lines \in Line /\ ~Hand'
  BY DEF TypeOK, Parse, caller, device, Line, Hand
<1>2. /\ OnWay' \in Nat /\ OnWay \in Nat
      /\ OnWay' = IF Hand THEN OnWay - 1 ELSE OnWay
      /\ OnWay' = Len(lines) + Len(answers)
      /\ OnWay' <= OnWay
  BY <1>1, Lengths DEF OnWay
<1>3. ASSUME NEW k \in Line, Heard(k)'
      PROVE  Heard(k)
  BY <1>1, <1>3 DEF Heard
<1>4. ASSUME NEW k \in Line, Own(k)
      PROVE  Own(k)'
  BY <1>1, <1>4 DEF Own
<1>5. ASSUME NEW k \in Line, Acked(k)
      PROVE  Acked(k)'
  <2>1. OnWay' <= IF k = 1 THEN 1 ELSE 0
    BY <1>2, <1>5 DEF Acked
  <2>2. QED
    BY <1>1, <1>4, <1>5, <2>1 DEF Acked, First
<1>6. Left => Left'
  <2>1. OnWay <= 1 => OnWay' <= 1
    BY <1>2
  <2>2. QED
    BY <1>1, <1>3, <2>1 DEF Left, First
<1>7. FirstLine => FirstLine'
  BY <1>1, <1>3 DEF FirstLine, First
<1>8. ASSUME NEW k \in Line, LaterLine(k)
      PROVE  LaterLine(k)'
  BY <1>1, <1>3, <1>8 DEF LaterLine, First
<1>9. CASE main \in {"wait", "late"}
  <2>1. expects = at /\ WaitFor(at) /\ expects # 0
    BY <1>1, <1>9 DEF Follows
  <2>2. (rx = "line" /\ line \in Line /\ line = at) <=> Matches(line)
    BY <1>1, <2>1 DEF Matches, Parse
  <2>3. CASE line = at
    <3>1. Hand /\ result' = "success"
      <4>1. rx = "line" /\ Matches(line)
        BY <1>1, <2>2, <2>3 DEF Parse
      <4>2. line # Sentence
        BY <1>1, <2>3 DEF Sentence, Line
      <4>3. line # Refused
        BY <1>1, <2>3 DEF Refused
      <4>4. result' = "success"
        BY <4>1, <4>3 DEF Parse
      <4>5. QED
        BY <4>1, <4>2, <4>4 DEF Hand
    <3>2. Acked(at)'
      <4>1. CASE result = "success"
        BY <1>1, <1>5, <2>1, <4>1 DEF WaitFor
      <4>2. CASE result # "success" /\ at = 1
        <5>1. OnWay <= 2 /\ FirstLine
          BY <2>1, <4>2 DEF WaitFor
        <5>2. OnWay' <= 1
          BY <1>2, <3>1, <5>1
        <5>3. task = First(1)
          BY <2>3, <3>1, <4>2, <5>1 DEF FirstLine, Heard
        <5>4. Own(1)'
          BY <1>1, <3>1, <5>1 DEF FirstLine, Own
        <5>5. QED
          BY <1>1, <4>2, <5>2, <5>3, <5>4 DEF Acked, First
      <4>3. CASE result # "success" /\ at # 1
        <5>1. LaterLine(at)
          BY <2>1, <4>3 DEF WaitFor
        <5>2. answers = <<>> /\ lines = <<>> /\ task = First(at)
          BY <2>3, <3>1, <5>1 DEF LaterLine, Heard
        <5>3. Len(answers) = 0 /\ Len(lines) = 0
          BY <5>2, Lengths
        <5>4. OnWay' = 0
          BY <1>2, <5>3
        <5>5. Own(1)'
          BY <1>1, <5>2, <5>3, Lengths DEF Own
        <5>6. QED
          BY <1>1, <4>3, <5>2, <5>4, <5>5 DEF Acked, First
      <4>4. QED
        BY <4>1, <4>2, <4>3
    <3>3. QED
      BY <1>1, <1>9, <2>1, <3>1, <3>2 DEF Follows, WaitFor
  <2>4. CASE line = Refused
    <3>1. Hand /\ result' = "error"
      BY <1>1, <2>1, <2>2, <2>4 DEF Parse, Hand, Sentence, Refused
    <3>2. OnWay' <= 1 /\ Own(at)' /\ IF at = 1 THEN FirstLine' ELSE LaterLine(at)'
      <4>1. CASE result = "success"
        <5>1. OnWay' = 0
          BY <1>2, <2>1, <3>1, <4>1 DEF WaitFor, Acked
        <5>2. Len(answers) = 0 /\ Len(lines) = 0
          BY <1>2, <5>1, Lengths
        <5>3. DOMAIN answers = {} /\ DOMAIN lines = {} /\ lines = <<>>
          BY <5>2, Lengths
        <5>4. Own(at)' /\ ~Heard(at)' /\ ~Heard(1)'
          BY <1>1, <5>3 DEF Own, Heard
        <5>5. FirstLine'
          BY <1>1, <5>3, <5>4 DEF FirstLine
        <5>6. LaterLine(at)'
          BY <1>1, <5>3, <5>4 DEF LaterLine
        <5>7. QED
          BY <5>1, <5>4, <5>5, <5>6
      <4>2. CASE result # "success"
        <5>1. OnWay <= 2 /\ IF at = 1 THEN FirstLine ELSE LaterLine(at)
          BY <1>1, <1>2, <2>1, <4>2 DEF WaitFor
        <5>2. OnWay' <= 1
          BY <1>2, <3>1, <5>1
        <5>3. IF at = 1 THEN FirstLine' ELSE LaterLine(at)'
          BY <1>1, <1>7, <1>8, <5>1
        <5>4. \A i \in DOMAIN answers : answers[i] \in {at, Refused}
          BY <3>1, <5>1 DEF FirstLine, LaterLine
        <5>5. \A i \in DOMAIN lines : lines[i] = at
          <6>1. CASE at = 1
            BY <3>1, <5>1, <6>1 DEF FirstLine
          <6>2. CASE at # 1
            <7>1. Len(lines) <= 1
              BY <1>2, <5>2, Lengths
            <7>2. lines # <<>> => lines[Len(lines)] = at
              BY <5>1, <6>2 DEF LaterLine
            <7>3. \A i \in DOMAIN lines : lines # <<>> /\ i = Len(lines)
              BY <7>1, Lengths
            <7>4. QED
              BY <7>2, <7>3
          <6>3. QED
            BY <6>1, <6>2
        <5>6. Own(at)'
          BY <1>1, <5>4, <5>5 DEF Own
        <5>7. QED
          BY <5>2, <5>3, <5>6
      <4>3. QED
        BY <4>1, <4>2
    <3>3. OnWay' <= IF at > 2 THEN 1 ELSE 2
      BY <1>1, <1>2, <3>2
    <3>4. QED
      BY <1>1, <1>9, <2>1, <3>1, <3>2, <3>3 DEF Follows, WaitFor
  <2>5. CASE line # at /\ line # Refused
    <3>1. result' = result
      BY <2>2, <2>5 DEF Parse
    <3>2. WaitFor(at)'
      <4>1. CASE result = "success"
        BY <1>1, <1>5, <2>1, <3>1, <4>1 DEF WaitFor
      <4>2. CASE result # "success"
        <5>1. OnWay' <= IF at > 2 THEN 1 ELSE 2
          BY <1>1, <1>2, <2>1, <4>2 DEF WaitFor
        <5>2. main = "late" \/ result = "error" => OnWay' <= 1 /\ Own(at)'
          BY <1>1, <1>2, <1>4, <2>1, <4>2 DEF WaitFor
        <5>3. IF at = 1 THEN FirstLine' ELSE LaterLine(at)'
          BY <1>1, <1>7, <1>8, <2>1, <4>2 DEF WaitFor
        <5>4. QED
          BY <1>1, <3>1, <4>2, <5>1, <5>2, <5>3 DEF WaitFor
      <4>3. QED
        BY <4>1, <4>2
    <3>3. QED
      BY <1>1, <1>9, <2>1, <3>2 DEF Follows
  <2>6. QED
    BY <2>3, <2>4, <2>5
<1>10. CASE main = "send"
  <2>1. at # 1 => at - 1 \in Line
    BY <1>1 DEF Line
  <2>2. QED
    BY <1>1, <1>5, <1>6, <1>10, <2>1 DEF Follows
<1>11. CASE main \notin {"wait", "late", "send"}
  BY <1>1, <1>5, <1>6, <1>11 DEF Follows
<1>12. QED
  BY <1>9, <1>10, <1>11

LEMMA FollowsStep ==
  TypeOK /\ ThreadStopped /\ Follows /\ driver = "flarm" /\ [Next]_vars => Follows'
<1> SUFFICES ASSUME TypeOK, ThreadStopped, Follows, driver = "flarm", [Next]_vars
             PROVE  Follows'
  OBVIOUS
<1>1. /\ main \notin {"stop", "join", "relock", "read", "restart"}
      /\ ~stop
  BY DEF ThreadStopped, Waiting
<1>2. CASE Declare \/ Send \/ Timeout \/ Acknowledged \/ Parse \/ Moves
  BY <1>2, DeclareStep, SendStep, TimeoutStep, AcknowledgedStep, ParseStep, MoveStep
<1>3. ~(StopRxThread \/ Joined \/ Relock \/ Expected \/ Unexpected \/ Done
        \/ StartRxThread \/ RxEnd)
  BY <1>1 DEF StopRxThread, Joined, Relock, Expected, Unexpected, GivesUp, Done,
              StartRxThread, RxEnd
<1>4. CASE Take \/ Give \/ UNCHANGED vars
  BY <1>4 DEF Take, Give, vars, caller, ack, thread, device, Follows, Left, Acked, Own,
              WaitFor, FirstLine, LaterLine, Heard, Hand, OnWay, First
<1>5. QED
  BY <1>2, <1>3, <1>4 DEF Next, Main, Receive, Device, Moves

-----------------------------------------------------------------------------
(* The first attempt, also with acknowledgements that are all alike.       *)

\* With nothing on the way the device keeps its task.
LEMMA NothingMoves ==
  ASSUME TypeOK, Moves, OnWay = 0
  PROVE  OnWay' = 0 /\ task' = task
<1>1. Len(lines) = 0 /\ Len(answers) = 0
  BY Lengths
<1>2. lines = <<>> /\ answers = <<>>
  BY <1>1, Lengths
<1>3. RxData
  BY <1>2 DEF Moves, RxAnswer, Accept, Refuse, LoseLine, LoseAnswer
<1>4. UNCHANGED <<lines, answers, task>> /\ ~Hand'
  BY <1>3 DEF RxData, device, Hand
<1>5. QED
  BY <1>1, <1>4 DEF OnWay

\* What is on the way moves on: still only the line that is waited for.
LEMMA FirstMove == TypeOK /\ FirstTry /\ Moves => FirstTry'
<1> SUFFICES ASSUME TypeOK, FirstTry, Moves, attempt <= 1, Waiting
             PROVE  FirstTry'
  BY MovesOnly DEF Kept, caller, Waiting, FirstTry
<1>1. Preserved
  BY AnswerTaken, AnswerLost, LineGone, LineAccepted, DataTaken DEF Moves
<1>2. /\ main' = main /\ at' = at /\ declared' = declared /\ result' = result
      /\ expects' = expects /\ at \in Line /\ attempt' = attempt
  BY MovesOnly DEF Kept, caller, ack, TypeOK
<1>3. OnWay \in Nat /\ OnWay' \in Nat
  <2>1. TypeOK'
    BY TypeStep DEF Moves, Next, Receive, Device
  <2>2. Len(lines') \in Nat /\ Len(answers') \in Nat
    BY <2>1 DEF TypeOK
  <2>3. QED
    BY <2>2, Lengths DEF OnWay
<1>4. \A k \in Nat : OnWay = 0 /\ task = First(k) => OnWay' = 0 /\ task' = First(k)
  BY NothingMoves
<1>5. ASSUME FirstWait(at) PROVE FirstWait(at)'
  <2>1. CASE result = "success"
    BY <1>2, <1>5, <2>1, NothingMoves DEF FirstWait, First
  <2>2. CASE result # "success"
    <3>1. OnWay <= 1 /\ Own(at) /\ IF at = 1 THEN FirstLine ELSE LaterLine(at)
      BY <1>5, <2>2 DEF FirstWait
    <3>2. OnWay' <= 1 /\ Own(at)'
      BY <1>1, <1>2, <1>3, <3>1 DEF Preserved
    <3>3. CASE at = 1
      <4>1. FirstLine'
        BY <1>1, <1>3, <3>1, <3>3 DEF Preserved
      <4>2. QED
        BY <1>2, <2>2, <3>2, <3>3, <4>1 DEF FirstWait
    <3>4. CASE at # 1
      <4>1. at > 1 /\ OnWay <= (IF at > 2 THEN 1 ELSE 2)
        BY <1>2, <1>3, <3>1, <3>4 DEF Line
      <4>2. LaterLine(at)'
        BY <1>1, <1>2, <3>1, <3>4, <4>1 DEF Preserved
      <4>3. QED
        BY <1>2, <2>2, <3>2, <3>4, <4>2 DEF FirstWait
    <3>5. QED
      BY <3>3, <3>4
  <2>3. QED
    BY <2>1, <2>2
<1>6. main \in {"wait", "late"} => expects' = at' /\ FirstWait(at)'
  BY <1>2, <1>5 DEF FirstTry
<1>7. OnWay = 0 => OnWay' = 0 /\ task' = task
  BY NothingMoves
<1>8. QED
  BY <1>2, <1>6, <1>7 DEF FirstTry, First

\* It waits on, for the answer or for the lock.
LEMMA FirstTimeout == TypeOK /\ FirstTry /\ Timeout => FirstTry'
<1> SUFFICES ASSUME TypeOK, FirstTry, Timeout PROVE FirstTry'
  OBVIOUS
<1>1. UNCHANGED <<driver, at, attempt, declared, ack, thread, device>>
      /\ main = "wait" /\ main' = "late"
  BY DEF Timeout
<1>2. OnWay' = OnWay /\ FirstWait(at)' = FirstWait(at)
  BY <1>1 DEF FirstWait, OnWay, Own, FirstLine, LaterLine, Heard, Hand, First, ack, thread, device
<1>3. QED
  BY <1>1, <1>2 DEF FirstTry, Waiting, ack

LEMMA FirstDeclare == TypeOK /\ FirstTry /\ Declare => FirstTry'
<1> SUFFICES ASSUME TypeOK, FirstTry, Declare, attempt' <= 1, Waiting'
             PROVE  FirstTry'
  BY DEF FirstTry
<1>1. attempt = 0 /\ attempt' = 1 /\ main = "idle" /\ main' = "send" /\ at' = 1
      /\ Waiting
  BY DEF Declare, TypeOK, Waiting
<1>2. OnWay' = OnWay
  BY DEF Declare, OnWay, Hand, thread, device
<1>3. OnWay = 0
  BY <1>1 DEF FirstTry
<1>4. QED
  BY <1>1, <1>2, <1>3 DEF FirstTry

\* A line is sent with nothing before it.
LEMMA FirstSend == TypeOK /\ FirstTry /\ Send => FirstTry'
<1> SUFFICES ASSUME TypeOK, FirstTry, Send, attempt <= 1, Waiting
             PROVE  FirstTry'
  BY DEF FirstTry, Send, Waiting
<1>1. /\ main = "send" /\ main' = "wait" /\ at' = at /\ expects' = at
      /\ result' = "timeout" /\ rx' = rx /\ line' = line /\ attempt' = attempt
      /\ lines' = Append(lines, at) /\ answers' = answers /\ task' = task
      /\ at \in Line /\ at \in Nat \ {0}
  BY DEF TypeOK, Send, thread, Line
<1>2. OnWay = 0 /\ (at > 1 => task = First(at - 1)) /\ attempt # 0
  BY <1>1 DEF FirstTry
<1>3. Len(lines) = 0 /\ Len(answers) = 0 /\ ~Hand
  BY <1>2, Lengths
<1>4. lines' = <<at>> /\ answers' = <<>> /\ ~Hand'
  <2>1. lines = <<>> /\ answers = <<>>
    BY <1>3, Lengths
  <2>2. QED
    BY <1>1, <1>3, <2>1 DEF Hand
<1>5. Len(lines') = 1 /\ DOMAIN lines' = {1} /\ lines'[1] = at /\ lines' # <<>>
      /\ DOMAIN answers' = {} /\ Len(answers') = 0
  BY <1>4
<1>6. OnWay' = 1 /\ Own(at)' /\ \A k \in Line : ~Heard(k)'
  BY <1>1, <1>4, <1>5 DEF OnWay, Own, Heard
<1>7. at = 1 => FirstLine'
  BY <1>4, <1>5, <1>6 DEF FirstLine, Line
<1>8. at # 1 => LaterLine(at)'
  BY <1>1, <1>2, <1>4, <1>5, <1>6 DEF LaterLine, First
<1>9. FirstWait(at)'
  BY <1>1, <1>6, <1>7, <1>8 DEF FirstWait
<1>10. QED
  BY <1>1, <1>2, <1>9 DEF FirstTry

LEMMA FirstAcknowledged == TypeOK /\ FirstTry /\ Acknowledged => FirstTry'
<1> SUFFICES ASSUME TypeOK, FirstTry, Acknowledged, attempt <= 1, Waiting
             PROVE  FirstTry'
  BY DEF FirstTry, Acknowledged, Return, Waiting
<1>1. /\ main \in {"wait", "late"} /\ attempt' = attempt
      /\ UNCHANGED <<thread, device>> /\ at \in Line
  BY DEF Acknowledged, Return, TypeOK
<1>2. OnWay' = OnWay
  BY <1>1 DEF OnWay, Hand, thread, device
<1>3. FirstWait(at) /\ attempt # 0
  BY <1>1 DEF FirstTry
<1>4. CASE result = "success" /\ at < Lines
  <2>1. main' = "send" /\ at' = at + 1 /\ declared' = declared
    BY <1>4 DEF Acknowledged
  <2>2. at' - 1 = at
    BY <1>1, <2>1 DEF Line
  <2>3. OnWay' = 0 /\ task' = First(at)
    BY <1>1, <1>2, <1>3, <1>4 DEF FirstWait, device
  <2>4. QED
    BY <1>1, <1>3, <2>1, <2>2, <2>3 DEF FirstTry, First
<1>5. CASE result = "success" /\ ~(at < Lines)
  <2>1. main' = "idle"
    BY <1>5 DEF Acknowledged, Return
  <2>2. at = Lines
    BY <1>1, <1>5 DEF Line
  <2>3. OnWay' = 0 /\ task' = First(Lines)
    BY <1>1, <1>2, <1>3, <1>5, <2>2 DEF FirstWait, device
  <2>4. QED
    BY <1>1, <1>3, <2>1, <2>3 DEF FirstTry, First
<1>6. CASE result # "success"
  <2>1. main' = "idle" /\ ~declared'
    BY <1>6 DEF Acknowledged, Return
  <2>2. QED
    BY <1>1, <1>3, <2>1 DEF FirstTry
<1>7. QED
  BY <1>4, <1>5, <1>6

\* Any acknowledgement is that of the line, which the device has then.
LEMMA FirstParse == TypeOK /\ FirstTry /\ Parse => FirstTry'
<1> SUFFICES ASSUME TypeOK, FirstTry, Parse, attempt <= 1, Waiting
             PROVE  FirstTry'
  BY DEF FirstTry, Parse, Waiting, caller
<1>1. /\ main' = main /\ at' = at /\ declared' = declared /\ expects' = expects
      /\ attempt' = attempt /\ rx = "line"
      /\ lines' = lines /\ answers' = answers /\ task' = task
      /\ at \in Line /\ at \in Nat \ {0} /\ ~Hand'
      /\ result' \in {"timeout", "success", "error"}
  BY TypeStep DEF TypeOK, Parse, caller, device, Line, Hand, Next, Receive
<1>2. /\ OnWay' \in Nat /\ OnWay \in Nat
      /\ OnWay' = IF Hand THEN OnWay - 1 ELSE OnWay
      /\ OnWay' <= OnWay
  BY <1>1, Lengths DEF OnWay
<1>3. ASSUME FirstWait(at), expects = at PROVE FirstWait(at)'
  <2>1. CASE result = "success"
    <3>1. OnWay = 0 /\ task = First(at) /\ ~Hand
      BY <1>3, <2>1, Lengths DEF FirstWait
    <3>2. line = Sentence
      BY <1>1, <3>1 DEF Hand
    <3>3. ~Matches(line) /\ line # Refused
      BY <3>2 DEF Matches, Sentence, Line, Refused
    <3>4. result' = result
      BY <3>3 DEF Parse
    <3>5. QED
      BY <1>1, <1>2, <2>1, <3>1, <3>4 DEF FirstWait, First
  <2>2. CASE result # "success"
    <3>1. OnWay <= 1 /\ Own(at) /\ IF at = 1 THEN FirstLine ELSE LaterLine(at)
      BY <1>3, <2>2 DEF FirstWait
    <3>2. CASE Matches(line)
      <4>1. Hand /\ result' = "success" /\ line = at
        <5>1. line \in Line /\ line # Sentence /\ line # Refused
          BY <3>2 DEF Matches, Line, Sentence, Refused
        <5>2. QED
          BY <1>1, <3>1, <3>2, <5>1 DEF Hand, Own, Parse
      <4>2. Heard(at) /\ task = First(at)
        BY <3>1, <4>1 DEF Heard, FirstLine, LaterLine
      <4>3. OnWay' = 0
        BY <1>2, <3>1, <4>1
      <4>4. QED
        BY <1>1, <4>1, <4>2, <4>3 DEF FirstWait, First
    <3>3. CASE ~Matches(line)
      <4>1. result' # "success"
        BY <2>2, <3>3 DEF Parse
      <4>2. OnWay' <= 1 /\ Own(at)'
        BY <1>1, <1>2, <3>1 DEF Own
      <4>3. \A k \in Line : Heard(k)' => Heard(k)
        BY <1>1 DEF Heard
      <4>4. at = 1 => FirstLine'
        BY <1>1, <3>1, <4>3 DEF FirstLine, First
      <4>5. at # 1 => LaterLine(at)'
        BY <1>1, <3>1, <4>3 DEF LaterLine, First
      <4>6. QED
        BY <1>1, <4>1, <4>2, <4>4, <4>5 DEF FirstWait
    <3>4. QED
      BY <3>2, <3>3
  <2>3. QED
    BY <2>1, <2>2
<1>4. main \in {"wait", "late"} => expects' = at' /\ FirstWait(at)'
  BY <1>1, <1>3 DEF FirstTry
<1>5. OnWay = 0 => OnWay' = 0
  BY <1>2
<1>6. QED
  BY <1>1, <1>4, <1>5 DEF FirstTry, First

LEMMA FirstTryStep ==
  TypeOK /\ ThreadStopped /\ FirstTry /\ [Next]_vars => FirstTry'
<1> SUFFICES ASSUME TypeOK, ThreadStopped, FirstTry, [Next]_vars PROVE FirstTry'
  OBVIOUS
<1>1. CASE Declare \/ Send \/ Timeout \/ Acknowledged \/ Parse \/ Moves
  BY <1>1, FirstDeclare, FirstSend, FirstTimeout, FirstAcknowledged, FirstParse, FirstMove
<1>2. CASE StopRxThread \/ Joined \/ Relock \/ Expected \/ Unexpected \/ Done
           \/ StartRxThread \/ RxEnd
  <2>1. ~Waiting
    BY <1>2 DEF ThreadStopped, StopRxThread, Joined, Relock, Expected, Unexpected,
                GivesUp, Done, StartRxThread, RxEnd
  <2>2. driver' = driver
    BY <1>2 DEF StopRxThread, Joined, Relock, Expected, Unexpected, Done,
                StartRxThread, RxEnd
  <2>3. QED
    BY <2>1, <2>2 DEF FirstTry, Waiting
<1>3. CASE Take \/ Give \/ UNCHANGED vars
  <2>1. UNCHANGED <<driver, caller, ack, thread, device>>
    BY <1>3 DEF Take, Give, vars
  <2>2. OnWay' = OnWay /\ FirstWait(at)' = FirstWait(at)
    BY <2>1 DEF FirstWait, OnWay, Own, FirstLine, LaterLine, Heard, Hand, First,
                caller, ack, thread, device
  <2>3. QED
    BY <2>1, <2>2 DEF FirstTry, Waiting, First, caller, ack, device
<1>4. QED
  BY <1>1, <1>2, <1>3 DEF Next, Main, Receive, Device, Moves

-----------------------------------------------------------------------------
\* The inductive invariant holds always.
THEOREM Strengthening == Spec => []IInv
<1>1. Init => IInv
  <2> SUFFICES ASSUME Init PROVE IInv
    OBVIOUS
  <2>1. TypeOK
    <3>1. 1 \in Line /\ 0 \in 0 .. Attempts
      BY DEF Line
    <3>2. <<>> \in Seq(Line) /\ <<>> \in Seq(Answers)
      OBVIOUS
    <3>3. QED
      BY <3>1, <3>2 DEF Init, TypeOK
  <2>2. Len(lines) = 0 /\ Len(answers) = 0 /\ ~Hand /\ DOMAIN answers = {}
    BY DEF Init, Hand
  <2>3. OnWay = 0 /\ ~Heard(1)
    BY <2>2 DEF OnWay, Heard
  <2>4. Follows /\ FirstTry
    BY <2>3 DEF Init, Follows, Left, FirstTry
  <2>5. QED
    BY <2>1, <2>4 DEF Init, IInv, LockHeld, ThreadStopped
<1>2. IInv /\ [Next]_vars => IInv'
  <2>1. IInv /\ [Next]_vars => driver' = driver
    BY DEF Next, Main, Receive, Device, Declare, Send, Timeout, Acknowledged, StopRxThread,
           Joined, Relock, Expected, Unexpected, Done, StartRxThread, RxData, RxAnswer, Parse,
           RxEnd, Take, Give, Accept, Refuse, LoseLine, LoseAnswer, vars
  <2>2. QED
    BY <2>1, TypeStep, ThreadStep, FollowsStep, FirstTryStep DEF IInv
<1>3. QED
  BY <1>1, <1>2, PTL DEF Spec

\* Every variable keeps its type.
THEOREM TypeCorrect == Spec => []TypeOK
BY Strengthening, PTL DEF IInv

\* "Task Declared!": however many lines there are, a success means that the
\* device holds the declared task, if the acknowledgement names the line,
\* however often it has been tried, or if it is the first attempt (and if the
\* device is not late by more than one time-out).
THEOREM DeclaredTaskHeld == Spec => []NamedTaskDeclared
<1>1. IInv => NamedTaskDeclared
  <2> SUFFICES ASSUME IInv, driver = "flarm" \/ attempt = 1, main = "idle", declared,
                      Waiting
               PROVE  task = [k \in Line |-> k]
    BY DEF NamedTaskDeclared, TaskDeclared
  <2>1. task = First(Lines)
    BY DEF IInv, Follows, FirstTry, Acked
  <2>2. QED
    BY <2>1 DEF First, Line
<1>2. QED
  BY <1>1, Strengthening, PTL

\* A driver that reads the answers itself has the port for itself.
THEOREM PortUsedAlone == Spec => []SolePort
<1>1. IInv => SolePort
  BY DEF IInv, SolePort, LockHeld, ThreadStopped
<1>2. QED
  BY <1>1, Strengthening, PTL

\* After a declaration the device is received, unless a driver has given up.
THEOREM DeviceReceived == Spec => []ReceivedAgain
<1>1. IInv => ReceivedAgain
  <2> SUFFICES ASSUME IInv, driver = "leave" => declared, main = "idle"
               PROVE  rx # "ended"
    BY DEF ReceivedAgain, Received
  <2>1. driver \in {"flarm", "fenix", "stop", "leave"}
    BY DEF IInv, TypeOK, DeclarationAssumption
  <2>2. ~stop
    BY <2>1 DEF IInv, ThreadStopped, Waiting
  <2>3. QED
    BY <2>2 DEF IInv, ThreadStopped
<1>2. QED
  BY <1>1, Strengthening, PTL
=============================================================================
