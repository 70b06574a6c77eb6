--------------------------- MODULE DataLinkProofs ---------------------------
(***************************************************************************)
(* Proofs about the data link, for any number of messages, faults and      *)
(* resends, and for lines of any capacity.                                 *)
(***************************************************************************)
EXTENDS DataLink, SequenceTheorems, TLAPS

USE DataLinkAssumption

-----------------------------------------------------------------------------
(* The invariant.                                                          *)

Links == [bit : {0, 1}, frame : Frames \cup {NoFrame}, sdus : Seq(Sdus), state : States,
          resends : 0..(CountRange - 1), timer : BOOLEAN, out : Seq(Frames),
          tries : Nat, answers : Seq(Answers)]

Acks == [type : {"ack", "nak"}]
Responses == [type : {"response"}, code : {"ok", "isss", "error"}, to : Frames]

LinkInv ==
    /\ link \in Links /\ link.out = <<>>
    /\ fired \in Nat
    /\ toMeter \in Seq(Frames)
    /\ toMaster \in Seq(Acks \cup Responses)
    /\ submitted \in Seq(Sdus)
    /\ late \subseteq Sdus
    /\ faults \in Nat

\* A message that is not answered waits, in the order of the messages.
InStep(subs, answers, sdus) ==
    /\ Len(subs) = Len(answers) + Len(sdus)
    /\ \A i \in 1..Len(answers) : subs[i] = answers[i].sdu
    /\ \A i \in 1..Len(sdus) : subs[Len(answers) + i] = sdus[i]

QueueInv == InStep(submitted, link.answers, link.sdus)

\* The tries of a frame are counted from its first one, the count of the class may
\* wrap around.
TriesInv ==
    IF link.frame = NoFrame THEN link.resends = 0 ELSE link.tries > link.resends

\* The line holds frames with the other bit and then frames with the bit that is
\* expected: an accepted answer is the first one to a frame sent since the bit changed.
Expected(f) == f.bit = link.bit

IsResponse(m) == m.type = "response"

Ordered(reqs, resps, bit) ==
    /\ \A i, j \in 1..Len(reqs) : i < j /\ reqs[i].bit = bit => reqs[j].bit = bit
    /\ \A i, j \in 1..Len(resps) :
          i < j /\ IsResponse(resps[i]) /\ IsResponse(resps[j]) /\ resps[i].to.bit = bit
              => resps[j].to.bit = bit
    /\ \A i \in 1..Len(resps), j \in 1..Len(reqs) :
          IsResponse(resps[i]) /\ resps[i].to.bit = bit => reqs[j].bit = bit

BitsInv ==
    /\ link.frame # NoFrame => Expected(link.frame)
    /\ Ordered(toMeter, toMaster, link.bit)

\* In a session every frame on the line that has the bit is the outstanding one.
Only(reqs, resps, bit, frame) ==
    /\ \A i \in 1..Len(reqs) : reqs[i].bit = bit => reqs[i] = frame
    /\ \A i \in 1..Len(resps) :
          IsResponse(resps[i]) /\ resps[i].to.bit = bit => resps[i].to = frame

SessionInv ==
    link.state = "SESSION_SECURITY" =>
        /\ Only(toMeter, toMaster, link.bit, link.frame)
        /\ link.frame # NoFrame => link.frame.kind \in {"message", "logoff"}
        /\ link.frame.kind = "message" => link.sdus # <<>> /\ link.frame.sdu = Head(link.sdus)
        /\ link.frame.kind = "logoff" =>
              \A i \in 1..Len(link.sdus) : link.sdus[i] \in late

DataLinkInv ==
    LinkInv /\ QueueInv /\ TriesInv /\ BitsInv /\ SessionInv /\ NeverStuck /\ RepliesBelong

-----------------------------------------------------------------------------
(* The functions of the class.                                             *)

LEMMA NoFrameIsNone == NoFrame \notin Frames /\ NoFrame \in Frames \cup {NoFrame}
  BY DEF NoFrame, Frames, Kinds

\* What does not touch a field leaves it as it was.
LEMMA SimpleFields ==
    ASSUME NEW l \in Links
    PROVE  /\ Timed(l) \in Links /\ Timed(l) = [l EXCEPT !.timer = TRUE]
           /\ \A s \in States : InState(l, s) \in Links
           /\ Toggled(l) \in Links /\ Toggled(l).bit # l.bit
           /\ Cleared(l) \in Links
           /\ Cleared(l).frame = NoFrame /\ Cleared(l).resends = 0
           /\ Cleared(l).bit = l.bit /\ Cleared(l).sdus = l.sdus /\ Cleared(l).state = l.state
           /\ Cleared(l).timer = l.timer /\ Cleared(l).out = l.out
           /\ Cleared(l).tries = l.tries /\ Cleared(l).answers = l.answers
<1>1. Timed(l) \in Links /\ Timed(l) = [l EXCEPT !.timer = TRUE]
  BY DEF Timed, Links
<1>2. ASSUME NEW s \in States PROVE InState(l, s) \in Links
  BY DEF InState, Links
<1>3. Toggled(l) \in Links /\ Toggled(l).bit # l.bit
  <2>1. l.bit \in {0, 1} /\ 1 - l.bit \in {0, 1} /\ 1 - l.bit # l.bit
    BY DEF Links
  <2> QED
    BY <2>1 DEF Toggled, Links
<1>4. 0 \in 0..(CountRange - 1)
  OBVIOUS
<1>5. /\ Cleared(l) \in Links
           /\ Cleared(l).frame = NoFrame /\ Cleared(l).resends = 0
           /\ Cleared(l).bit = l.bit /\ Cleared(l).sdus = l.sdus /\ Cleared(l).state = l.state
           /\ Cleared(l).timer = l.timer /\ Cleared(l).out = l.out
           /\ Cleared(l).tries = l.tries /\ Cleared(l).answers = l.answers
  BY <1>4, NoFrameIsNone DEF Cleared, Links
<1> QED
  BY <1>1, <1>2, <1>3, <1>5

\* The next frame is one of those of the protocol, with the bit that is expected.
LEMMA NextFrameFields ==
    ASSUME NEW l \in Links, l.sdus # <<>> \/ l.state # "BASE"
    PROVE  /\ NextFrame(l) \in Frames /\ NextFrame(l) # NoFrame
           /\ NextFrame(l).bit = l.bit
           /\ NextFrame(l).kind = NextKind(l)
           /\ NextKind(l) = "message" => NextFrame(l).sdu = Head(l.sdus)
<1>1. /\ l.bit \in {0, 1} /\ NextKind(l) \in Kinds
      /\ NextKind(l) = "message" => l.sdus # <<>>
  BY DEF NextKind, Kinds, Links, States
<1>2. NextKind(l) = "message" => Head(l.sdus) \in Sdus
  BY <1>1 DEF Links
<1>3. NextFrame(l) \in Frames
  BY <1>1, <1>2 DEF NextFrame, Frames
<1> QED
  BY <1>1, <1>3, NoFrameIsNone DEF NextFrame

\* send_next_frame does nothing, or sends the frame that it keeps and times it.
Idle(l) == l.sdus = <<>> /\ l.state = "BASE"

LEMMA SendNextFields ==
    ASSUME NEW l \in Links
    PROVE  LET n == SendNext(l) IN
           /\ n \in Links
           /\ n.bit = l.bit /\ n.sdus = l.sdus /\ n.state = l.state /\ n.resends = l.resends
           /\ n.answers = l.answers
           /\ \/ n = l /\ (l.frame # NoFrame \/ Idle(l))
              \/ /\ l.frame = NoFrame /\ ~Idle(l)
                 /\ n.frame = NextFrame(l) /\ n.frame \in Frames /\ n.out = <<n.frame>>
                 /\ n.tries = 1 /\ n.timer = TRUE
<1>1. CASE l.frame # NoFrame \/ Idle(l)
  BY <1>1 DEF SendNext, Idle
<1>2. CASE l.frame = NoFrame /\ ~Idle(l)
  <2> DEFINE f == NextFrame(l)
             n == [l EXCEPT !.frame = f, !.out = <<f>>, !.tries = 1]
  <2>1. f \in Frames
    BY <1>2, NextFrameFields DEF Idle
  <2> HIDE DEF f
  <2>2. f \in Frames \cup {NoFrame} /\ <<f>> \in Seq(Frames)
    BY <2>1
  <2>3. /\ n \in Links
        /\ n.bit = l.bit /\ n.sdus = l.sdus /\ n.state = l.state /\ n.resends = l.resends
        /\ n.answers = l.answers
        /\ n.frame = f /\ n.out = <<f>> /\ n.tries = 1
    BY <2>2 DEF Links
  <2>4. SendNext(l) = [n EXCEPT !.timer = TRUE]
    BY <1>2 DEF SendNext, Idle, Timed, f
  <2> HIDE DEF n
  <2>5. LET m == [n EXCEPT !.timer = TRUE] IN
        /\ m \in Links
        /\ m.bit = n.bit /\ m.sdus = n.sdus /\ m.state = n.state /\ m.resends = n.resends
        /\ m.answers = n.answers
        /\ m.frame = n.frame /\ m.out = n.out /\ m.tries = n.tries /\ m.timer = TRUE
    BY <2>3 DEF Links
  <2> QED
    BY <1>2, <2>1, <2>3, <2>4, <2>5 DEF f
<1> QED
  BY <1>1, <1>2

\* resend_cur_frame, too.
LEMMA ResendFields ==
    ASSUME NEW l \in Links
    PROVE  LET n == Resend(l) IN
           /\ n \in Links
           /\ n.bit = l.bit /\ n.sdus = l.sdus /\ n.state = l.state /\ n.frame = l.frame
           /\ n.answers = l.answers
           /\ \/ n = l /\ l.frame = NoFrame
              \/ /\ l.frame # NoFrame
                 /\ n.out = <<l.frame>> /\ n.timer = TRUE
                 /\ n.tries = l.tries + 1 /\ n.resends <= l.resends + 1
<1>1. CASE l.frame = NoFrame
  BY <1>1 DEF Resend
<1>2. CASE l.frame # NoFrame
  <2> DEFINE r == (l.resends + 1) % CountRange
             n == [l EXCEPT !.out = <<l.frame>>, !.resends = r, !.tries = l.tries + 1]
  <2>1. /\ l.frame \in Frames /\ l.resends \in Nat /\ l.resends + 1 <= CountRange
        /\ CountRange \in Nat /\ CountRange > 0
    BY <1>2 DEF Links
  <2>2. r \in 0..(CountRange - 1) /\ r <= l.resends + 1
    BY <2>1
  <2>3. l.tries + 1 \in Nat /\ <<l.frame>> \in Seq(Frames)
    BY <2>1 DEF Links
  <2> HIDE DEF r
  <2>4. /\ n \in Links
        /\ n.bit = l.bit /\ n.sdus = l.sdus /\ n.state = l.state /\ n.frame = l.frame
        /\ n.answers = l.answers
        /\ n.out = <<l.frame>> /\ n.tries = l.tries + 1 /\ n.resends = r
    BY <2>2, <2>3 DEF Links
  <2>5. Resend(l) = [n EXCEPT !.timer = TRUE]
    BY <1>2 DEF Resend, Timed, r
  <2> HIDE DEF n
  <2>6. LET m == [n EXCEPT !.timer = TRUE] IN
        /\ m \in Links
        /\ m.bit = n.bit /\ m.sdus = n.sdus /\ m.state = n.state /\ m.resends = n.resends
        /\ m.answers = n.answers
        /\ m.frame = n.frame /\ m.out = n.out /\ m.tries = n.tries /\ m.timer = TRUE
    BY <2>4 DEF Links
  <2> QED
    BY <1>2, <2>2, <2>4, <2>5, <2>6
<1> QED
  BY <1>1, <1>2

\* The kind and the contents of the next frame depend on the queue, the state and the
\* bit only.
LEMMA NextFrameOf ==
    ASSUME NEW l, NEW n, n.bit = l.bit, n.sdus = l.sdus, n.state = l.state
    PROVE  NextFrame(n) = NextFrame(l) /\ Idle(n) = Idle(l)
<1>1. NextKind(n) = NextKind(l)
  BY DEF NextKind
<1> QED
  BY <1>1 DEF NextFrame, Idle

\* After a frame is finished, the next one is sent if there is one.
Onward(n, out) ==
    \/ /\ n.frame = NoFrame /\ n.out = out /\ n.sdus = <<>>
       /\ n.timer = TRUE \/ n.state = "BASE"
    \/ /\ ~Idle(n)
       /\ n.frame = NextFrame(n) /\ n.frame \in Frames /\ n.out = <<n.frame>>
       /\ n.tries = 1 /\ n.timer = TRUE

LEMMA SendNextGoesOn ==
    ASSUME NEW l \in Links, l.frame = NoFrame
    PROVE  Onward(SendNext(l), l.out)
<1> DEFINE n == SendNext(l)
<1>1. NextFrame(n) = NextFrame(l) /\ Idle(n) = Idle(l)
  BY SendNextFields, NextFrameOf
<1> QED
  BY <1>1, SendNextFields DEF Onward, Idle

Results == {NoAnswer} \cup [outcome : Outcomes, to : Frames \cup {NoFrame}]
Answered(l, answer) == answer # NoAnswer /\ l.sdus # <<>>

\* finish_sending_cur_frame answers at most the first message, and goes on.
LEMMA FinishFields ==
    ASSUME NEW l \in Links, NEW answer \in Results, NEW more \in Seq(Sdus)
    PROVE  LET n == Finish(l, answer, more)
               a == [sdu |-> Head(l.sdus), to |-> answer.to, outcome |-> answer.outcome]
           IN
           /\ n \in Links
           /\ n.bit = l.bit /\ n.state = l.state /\ n.resends = 0
           /\ IF Answered(l, answer)
              THEN a \in Answers /\ n.answers = Append(l.answers, a)
                   /\ n.sdus = Tail(l.sdus \o more)
              ELSE n.answers = l.answers /\ n.sdus = l.sdus
           /\ Onward(n, l.out)
<1>1. CASE ~Answered(l, answer)
  <2>1. Finish(l, answer, more) = SendNext(Cleared(l))
    BY <1>1 DEF Finish, Answered
  <2> DEFINE c == Cleared(l)
             n == SendNext(c)
  <2>2. /\ c \in Links
        /\ c.frame = NoFrame /\ c.resends = 0
        /\ c.bit = l.bit /\ c.sdus = l.sdus /\ c.state = l.state /\ c.out = l.out
        /\ c.answers = l.answers
    BY SimpleFields
  <2> HIDE DEF c
  <2>3. /\ n \in Links
        /\ n.bit = c.bit /\ n.sdus = c.sdus /\ n.state = c.state /\ n.resends = c.resends
        /\ n.answers = c.answers
        /\ Onward(n, c.out)
    BY <2>2, SendNextFields, SendNextGoesOn
  <2>4. Finish(l, answer, more) = n
    BY <2>1 DEF c
  <2> HIDE DEF n
  <2> QED
    BY <1>1, <2>2, <2>3, <2>4
<1>2. CASE Answered(l, answer)
  <2> DEFINE a == [sdu |-> Head(l.sdus), to |-> answer.to, outcome |-> answer.outcome]
             q == Tail(l.sdus \o more)
             c == Cleared(l)
             p == [c EXCEPT !.sdus = q, !.answers = Append(l.answers, a)]
  <2>1. a \in Answers /\ q \in Seq(Sdus)
    <3>1. /\ l.sdus \in Seq(Sdus) /\ l.sdus # <<>>
          /\ answer.outcome \in Outcomes /\ answer.to \in Frames \cup {NoFrame}
      BY <1>2 DEF Links, Answered, Results
    <3>2. l.sdus \o more \in Seq(Sdus) /\ l.sdus \o more # <<>> /\ Head(l.sdus) \in Sdus
      BY <3>1
    <3> QED
      BY <3>1, <3>2 DEF Answers
  <2>2. /\ c \in Links
        /\ c.frame = NoFrame /\ c.resends = 0
        /\ c.bit = l.bit /\ c.sdus = l.sdus /\ c.state = l.state /\ c.out = l.out
        /\ c.answers = l.answers
    BY SimpleFields
  <2> HIDE DEF q, a, c
  <2>3. Append(l.answers, a) \in Seq(Answers)
    BY <2>1 DEF Links
  <2>4. /\ p \in Links
        /\ p.frame = NoFrame /\ p.resends = 0
        /\ p.bit = l.bit /\ p.sdus = q /\ p.state = l.state /\ p.out = l.out
        /\ p.answers = Append(l.answers, a)
    BY <2>1, <2>2, <2>3 DEF Links
  <2>5. Finish(l, answer, more) = IF q = <<>> THEN Timed(p) ELSE SendNext(p)
    <3>1. ~(answer = NoAnswer \/ l.sdus = <<>>)
      BY <1>2 DEF Answered
    <3>2. p = [Cleared(l) EXCEPT !.sdus = WithoutFirst(@ \o more),
                                 !.answers = Append(@, a)]
      BY <2>2 DEF c, q, WithoutFirst
    <3> HIDE DEF p
    <3> QED
      BY <2>4, <3>1, <3>2 DEF Finish, a
  <2> HIDE DEF p
  <2>6. CASE q = <<>>
    <3> DEFINE t == Timed(p)
    <3>1. t \in Links /\ t = [p EXCEPT !.timer = TRUE]
      BY <2>4, SimpleFields
    <3>2. /\ t.bit = p.bit /\ t.sdus = p.sdus /\ t.state = p.state /\ t.resends = p.resends
          /\ t.answers = p.answers /\ t.frame = p.frame /\ t.out = p.out /\ t.timer = TRUE
      BY <2>4, <3>1 DEF Links
    <3> HIDE DEF t
    <3>3. Onward(t, l.out)
      BY <2>4, <2>6, <3>2 DEF Onward
    <3> QED
      BY <1>2, <2>1, <2>4, <2>5, <2>6, <3>1, <3>2, <3>3 DEF t, a, q
  <2>7. CASE q # <<>>
    <3>1. Onward(SendNext(p), l.out)
      BY <2>4, SendNextGoesOn
    <3> QED
      BY <1>2, <2>1, <2>4, <2>5, <2>7, <3>1, SendNextFields DEF a, q
  <2> QED
    BY <2>6, <2>7
<1> QED
  BY <1>1, <1>2

-----------------------------------------------------------------------------
(* What a step does to the object and to the line.                         *)

LEMMA MoreType ==
    ASSUME LinkInv, NEW more \in More
    PROVE  /\ more \in Seq(Sdus)
           /\ \/ more = <<>>
              \/ \E s \in Sdus : more = <<s>> /\ \A i \in 1..Len(submitted) : submitted[i] # s
<1>1. CASE more = <<>>
  BY <1>1
<1>2. CASE more # <<>>
  <2>1. PICK s \in Unsent : more = <<s>>
    BY <1>2 DEF More
  <2>2. s \in Sdus /\ \A i \in 1..Len(submitted) : submitted[i] # s
    BY DEF Unsent
  <2> QED
    BY <2>1, <2>2
<1> QED
  BY <1>1, <1>2

\* The frame and what is counted of it stay.
Stays ==
    /\ link'.bit = link.bit /\ link'.frame = link.frame /\ link'.state = link.state
    /\ link'.resends = link.resends /\ link'.tries = link.tries
    /\ toMeter' = toMeter

\* The frame is sent again.
Resent ==
    /\ link.frame # NoFrame
    /\ link'.bit = link.bit /\ link'.frame = link.frame /\ link'.state = link.state
    /\ link'.resends <= link.resends + 1 /\ link'.tries = link.tries + 1
    /\ link'.timer = TRUE
    /\ toMeter' \in {toMeter, Append(toMeter, link.frame)}

\* The frame is finished, and the next one sent.
GoesOn ==
    /\ link'.resends = 0
    /\ \/ /\ link'.frame = NoFrame /\ link'.sdus = <<>>
          /\ link'.timer = TRUE \/ link'.state = "BASE"
          /\ toMeter' = toMeter
       \/ /\ ~Idle(link')
          /\ link'.frame = NextFrame(link') /\ link'.frame \in Frames
          /\ link'.tries = 1 /\ link'.timer = TRUE
          /\ toMeter' \in {toMeter, Append(toMeter, link'.frame)}

\* Nothing is answered, or the first message is.
Silent ==
    link'.answers = link.answers /\ link'.sdus = link.sdus /\ submitted' = submitted

Answering(a, more) ==
    /\ link.sdus # <<>>
    /\ a \in Answers /\ a.sdu = Head(link.sdus)
    /\ link'.answers = Append(link.answers, a)
    /\ link'.sdus = Tail(link.sdus \o more)
    /\ submitted' = submitted \o more

\* The new state is taken over, and what it sends goes on the line or is lost.
Sends(l) ==
    /\ link' = [l EXCEPT !.out = <<>>]
    /\ toMeter' \in {toMeter, toMeter \o l.out}

LEMMA SendsFields ==
    ASSUME LinkInv, NEW l \in Links, Sends(l)
    PROVE  /\ link' \in Links /\ link'.out = <<>>
           /\ link'.bit = l.bit /\ link'.frame = l.frame /\ link'.sdus = l.sdus
           /\ link'.state = l.state /\ link'.resends = l.resends /\ link'.timer = l.timer
           /\ link'.tries = l.tries /\ link'.answers = l.answers
           /\ toMeter' \in {toMeter, toMeter \o l.out}
<1>1. link' = [l EXCEPT !.out = <<>>] /\ <<>> \in Seq(Frames)
  BY DEF Sends
<1>2. /\ link' \in Links /\ link'.out = <<>>
      /\ link'.bit = l.bit /\ link'.frame = l.frame /\ link'.sdus = l.sdus
      /\ link'.state = l.state /\ link'.resends = l.resends /\ link'.timer = l.timer
      /\ link'.tries = l.tries /\ link'.answers = l.answers
  BY <1>1 DEF Links
<1> QED
  BY <1>2 DEF Sends

LEMMA BecomesFields ==
    ASSUME LinkInv, NEW l \in Links, NEW more, Becomes(l, more)
    PROVE  /\ link' \in Links /\ link'.out = <<>>
           /\ link'.bit = l.bit /\ link'.frame = l.frame /\ link'.sdus = l.sdus
           /\ link'.state = l.state /\ link'.resends = l.resends /\ link'.timer = l.timer
           /\ link'.tries = l.tries /\ link'.answers = l.answers
           /\ toMeter' \in {toMeter, toMeter \o l.out}
           /\ submitted' = IF Len(l.answers) > Len(link.answers) THEN submitted \o more
                           ELSE submitted
<1>1. Sends(l)
  BY DEF Becomes, Sends
<1> QED
  BY <1>1, SendsFields DEF Becomes

LEMMA LineTakes ==
    ASSUME toMeter \in Seq(Frames), NEW f \in Frames
    PROVE  toMeter \o <<f>> = Append(toMeter, f) /\ toMeter \o <<>> = toMeter
  OBVIOUS

\* The object as it is, but for the timer.
LEMMA BecomesSame ==
    ASSUME LinkInv, NEW more, NEW l \in Links, Becomes(l, more),
           l.bit = link.bit, l.frame = link.frame, l.sdus = link.sdus, l.state = link.state,
           l.resends = link.resends, l.tries = link.tries, l.answers = link.answers,
           l.out = <<>>
    PROVE  /\ link' \in Links /\ link'.out = <<>> /\ Stays /\ Silent
           /\ link'.timer = l.timer
<1>1. toMeter \o l.out = toMeter
  BY DEF LinkInv
<1>2. ~(Len(l.answers) > Len(link.answers))
  <2>1. Len(link.answers) \in Nat
    BY DEF LinkInv, Links
  <2> QED
    BY <2>1
<1> QED
  BY <1>1, <1>2, BecomesFields DEF Stays, Silent

LEMMA TimedFields ==
    ASSUME NEW l \in Links
    PROVE  /\ Timed(l).bit = l.bit /\ Timed(l).frame = l.frame /\ Timed(l).sdus = l.sdus
           /\ Timed(l).state = l.state /\ Timed(l).resends = l.resends
           /\ Timed(l).tries = l.tries /\ Timed(l).answers = l.answers
           /\ Timed(l).out = l.out /\ Timed(l).timer = TRUE
  BY DEF Timed, Links

LEMMA BecomesResent ==
    ASSUME LinkInv, NEW more, Becomes(Resend(link), more)
    PROVE  /\ link' \in Links /\ link'.out = <<>> /\ Silent
           /\ \/ link.frame = NoFrame /\ Stays /\ link'.timer = link.timer
              \/ Resent
<1>1. link \in Links /\ link.out = <<>> /\ toMeter \in Seq(Frames)
  BY DEF LinkInv
<1>2. link.frame \in Frames \cup {NoFrame} /\ Len(link.answers) \in Nat
  BY <1>1 DEF Links
<1> DEFINE l == Resend(link)
<1>3. /\ l \in Links /\ Becomes(l, more)
      /\ l.bit = link.bit /\ l.sdus = link.sdus /\ l.state = link.state /\ l.frame = link.frame
      /\ l.answers = link.answers
      /\ \/ l = link /\ link.frame = NoFrame
         \/ /\ link.frame # NoFrame
            /\ l.out = <<link.frame>> /\ l.timer = TRUE
            /\ l.tries = link.tries + 1 /\ l.resends <= link.resends + 1
  BY <1>1, ResendFields
<1> HIDE DEF l
<1>4. Silent /\ link' \in Links /\ link'.out = <<>>
  <2>1. ~(Len(l.answers) > Len(link.answers))
    BY <1>2, <1>3
  <2> QED
    BY <1>3, <2>1, BecomesFields DEF Silent
<1>5. CASE l = link /\ link.frame = NoFrame
  BY <1>1, <1>3, <1>5, BecomesSame
<1>6. CASE link.frame # NoFrame
  <2>1. l.out = <<link.frame>> /\ link.frame \in Frames
    BY <1>2, <1>3, <1>6
  <2>2. toMeter' \in {toMeter, Append(toMeter, link.frame)}
    BY <1>1, <1>3, <2>1, LineTakes, BecomesFields
  <2> QED
    BY <1>3, <1>4, <1>6, <2>2, BecomesFields DEF Resent
<1> QED
  BY <1>3, <1>4, <1>5, <1>6

LEMMA SendsOnward ==
    ASSUME LinkInv, NEW n \in Links, Onward(n, <<>>), n.resends = 0, Sends(n)
    PROVE  GoesOn
<1>1. /\ link'.bit = n.bit /\ link'.frame = n.frame /\ link'.sdus = n.sdus
      /\ link'.state = n.state /\ link'.resends = n.resends /\ link'.timer = n.timer
      /\ link'.tries = n.tries
      /\ toMeter' \in {toMeter, toMeter \o n.out}
  BY SendsFields
<1>2. NextFrame(link') = NextFrame(n) /\ Idle(link') = Idle(n)
  BY <1>1, NextFrameOf
<1>3. CASE /\ n.frame = NoFrame /\ n.out = <<>> /\ n.sdus = <<>>
           /\ n.timer = TRUE \/ n.state = "BASE"
  <2>1. toMeter' = toMeter
    BY <1>1, <1>3 DEF LinkInv
  <2> QED
    BY <1>1, <1>3, <2>1 DEF GoesOn
<1>4. CASE /\ ~Idle(n)
           /\ n.frame = NextFrame(n) /\ n.frame \in Frames /\ n.out = <<n.frame>>
           /\ n.tries = 1 /\ n.timer = TRUE
  <2>1. toMeter' \in {toMeter, Append(toMeter, n.frame)}
    BY <1>1, <1>4, LineTakes DEF LinkInv
  <2> QED
    BY <1>1, <1>2, <1>4, <2>1 DEF GoesOn
<1> QED
  BY <1>3, <1>4 DEF Onward

LEMMA BecomesNext ==
    ASSUME LinkInv, TriesInv, NEW more, link.frame = NoFrame, Becomes(SendNext(link), more)
    PROVE  /\ link' \in Links /\ link'.out = <<>> /\ Silent
           /\ link'.bit = link.bit /\ link'.state = link.state
           /\ GoesOn
<1> DEFINE n == SendNext(link)
<1>1. /\ n \in Links /\ Becomes(n, more)
      /\ n.bit = link.bit /\ n.sdus = link.sdus /\ n.state = link.state /\ n.resends = 0
      /\ n.answers = link.answers
      /\ Onward(n, <<>>)
  BY SendNextFields, SendNextGoesOn DEF LinkInv, TriesInv
<1> HIDE DEF n
<1>2. ~(Len(n.answers) > Len(link.answers))
  <2>1. Len(link.answers) \in Nat
    BY DEF LinkInv, Links
  <2> QED
    BY <1>1, <2>1
<1>3. GoesOn
  BY <1>1, SendsOnward DEF Becomes, Sends
<1> QED
  BY <1>1, <1>2, <1>3, BecomesFields DEF Silent

LEMMA BecomesFinished ==
    ASSUME LinkInv, NEW l \in Links, NEW answer \in Results, NEW more \in More,
           l.sdus = link.sdus, l.answers = link.answers, l.out = <<>>,
           Becomes(Finish(l, answer, more), more)
    PROVE  /\ link' \in Links /\ link'.out = <<>>
           /\ link'.bit = l.bit /\ link'.state = l.state
           /\ GoesOn
           /\ IF Answered(l, answer)
              THEN Answering([sdu |-> Head(link.sdus), to |-> answer.to,
                              outcome |-> answer.outcome], more)
              ELSE Silent
<1> DEFINE n == Finish(l, answer, more)
           a == [sdu |-> Head(link.sdus), to |-> answer.to, outcome |-> answer.outcome]
<1>1. more \in Seq(Sdus)
  BY MoreType
<1>0. [sdu |-> Head(l.sdus), to |-> answer.to, outcome |-> answer.outcome] = a
  OBVIOUS
<1>2. /\ n \in Links /\ Becomes(n, more)
      /\ n.bit = l.bit /\ n.state = l.state /\ n.resends = 0
      /\ IF Answered(l, answer)
         THEN a \in Answers /\ n.answers = Append(link.answers, a)
              /\ n.sdus = Tail(link.sdus \o more)
         ELSE n.answers = link.answers /\ n.sdus = link.sdus
      /\ Onward(n, <<>>)
  <2> HIDE DEF a
  <2>1. /\ n \in Links
        /\ n.bit = l.bit /\ n.state = l.state /\ n.resends = 0
        /\ IF Answered(l, answer)
           THEN a \in Answers /\ n.answers = Append(l.answers, a)
                /\ n.sdus = Tail(l.sdus \o more)
           ELSE n.answers = l.answers /\ n.sdus = l.sdus
        /\ Onward(n, l.out)
    BY <1>0, <1>1, FinishFields
  <2> HIDE DEF n
  <2>2. Becomes(n, more)
    BY DEF n
  <2> QED
    BY <2>1, <2>2
<1>3. a.sdu = Head(link.sdus)
  OBVIOUS
<1> HIDE DEF n, a
<1>4. GoesOn
  BY <1>2, SendsOnward DEF Becomes, Sends
<1>5. Len(link.answers) \in Nat /\ link.answers \in Seq(Answers)
  BY DEF LinkInv, Links
<1>6. CASE Answered(l, answer)
  <2>1. Len(n.answers) > Len(link.answers)
    BY <1>2, <1>5, <1>6
  <2>2. Answering(a, more)
    BY <1>2, <1>3, <1>6, <2>1, BecomesFields DEF Answering, Answered
  <2> QED
    BY <1>2, <1>4, <1>6, <2>2, BecomesFields DEF a
<1>7. CASE ~Answered(l, answer)
  <2>1. ~(Len(n.answers) > Len(link.answers))
    BY <1>2, <1>5, <1>7
  <2>2. Silent
    BY <1>2, <1>7, <2>1, BecomesFields DEF Silent
  <2> QED
    BY <1>2, <1>4, <1>7, <2>2, BecomesFields
<1> QED
  BY <1>6, <1>7

-----------------------------------------------------------------------------
(* The steps.                                                              *)

\* A message is handed in: it waits, or it is the first one and the link comes up.
LEMMA SendDoes ==
    ASSUME LinkInv, TriesInv, NEW s \in Sdus, Send(s)
    PROVE  /\ link' \in Links /\ link'.out = <<>>
           /\ link'.bit = link.bit /\ link'.state = link.state
           /\ link'.answers = link.answers /\ link'.sdus = Append(link.sdus, s)
           /\ \/ /\ Stays /\ link'.timer = link.timer
                 /\ link.sdus # <<>> \/ link.frame # NoFrame
              \/ link.frame = NoFrame /\ GoesOn
<1> DEFINE l == [link EXCEPT !.sdus = Append(link.sdus, s)]
           n == IF link.sdus = <<>> THEN SendNext(l) ELSE l
<1>1. Append(link.sdus, s) \in Seq(Sdus) /\ Append(link.sdus, s) # <<>>
  <2>1. link.sdus \in Seq(Sdus)
    BY DEF LinkInv, Links
  <2> QED
    BY <2>1
<1>2. /\ l \in Links
      /\ l.bit = link.bit /\ l.frame = link.frame /\ l.sdus = Append(link.sdus, s)
      /\ l.state = link.state /\ l.resends = link.resends /\ l.timer = link.timer
      /\ l.tries = link.tries /\ l.answers = link.answers /\ l.out = <<>>
  BY <1>1 DEF LinkInv, Links
<1>3. Sends(n)
  BY DEF Send, Begun, Sends
<1> HIDE DEF l
<1>4. CASE link.sdus = <<>> /\ link.frame = NoFrame
  <2>1. /\ n \in Links
        /\ n.bit = l.bit /\ n.sdus = l.sdus /\ n.state = l.state /\ n.resends = l.resends
        /\ n.answers = l.answers
        /\ Onward(n, <<>>)
    BY <1>2, <1>4, SendNextFields, SendNextGoesOn
  <2>2. l.resends = 0
    BY <1>2, <1>4 DEF TriesInv
  <2> HIDE DEF n
  <2>3. GoesOn
    BY <1>3, <2>1, <2>2, <1>2, SendsOnward
  <2> QED
    BY <1>2, <1>3, <1>4, <2>1, <2>3, SendsFields
<1>5. CASE link.sdus # <<>> \/ link.frame # NoFrame
  <2>1. n = l
    BY <1>1, <1>2, <1>5, SendNextFields DEF Idle
  <2>2. toMeter \o l.out = toMeter
    BY <1>2 DEF LinkInv
  <2>3. Stays /\ link'.timer = link.timer
    BY <1>2, <1>3, <2>1, <2>2, SendsFields DEF Stays
  <2> QED
    BY <1>2, <1>3, <1>5, <2>1, <2>3, SendsFields
<1> QED
  BY <1>4, <1>5

LEMMA OtherFields ==
    ASSUME NEW l \in Links
    PROVE  /\ \A s \in States :
                 /\ InState(l, s).sdus = l.sdus /\ InState(l, s).answers = l.answers
                 /\ InState(l, s).out = l.out /\ InState(l, s).bit = l.bit
                 /\ InState(l, s).state = s
           /\ Toggled(l).sdus = l.sdus /\ Toggled(l).answers = l.answers
           /\ Toggled(l).out = l.out /\ Toggled(l).state = l.state
<1>1. ASSUME NEW s \in States
      PROVE  /\ InState(l, s).sdus = l.sdus /\ InState(l, s).answers = l.answers
             /\ InState(l, s).out = l.out /\ InState(l, s).bit = l.bit
             /\ InState(l, s).state = s
  BY DEF InState, Links
<1>2. /\ Toggled(l).sdus = l.sdus /\ Toggled(l).answers = l.answers
      /\ Toggled(l).out = l.out /\ Toggled(l).state = l.state
  BY DEF Toggled, Links
<1> QED
  BY <1>1, <1>2

LEMMA ErrorIsResult ==
    ASSUME NEW o \in Outcomes
    PROVE  Error(o) \in Results /\ Error(o) # NoAnswer /\ Error(o).outcome = o
  BY DEF Error, Results, NoAnswer, Outcomes

\* The link breaks: it is taken down, and the first message, if any, fails.
BreaksWith(outcome) ==
    /\ link'.bit = link.bit /\ link'.state = "BASE"
    /\ GoesOn
    /\ \/ Silent
       \/ \E more \in More, a \in Answers : Answering(a, more) /\ a.outcome = outcome

LEMMA BecomesBroken ==
    ASSUME LinkInv, NEW more \in More, NEW o \in Outcomes,
           Becomes(Finish(InState(link, "BASE"), Error(o), more), more)
    PROVE  link' \in Links /\ link'.out = <<>> /\ BreaksWith(o)
<1> DEFINE l == InState(link, "BASE")
           a == [sdu |-> Head(link.sdus), to |-> Error(o).to, outcome |-> Error(o).outcome]
<1>1. /\ l \in Links /\ l.sdus = link.sdus /\ l.answers = link.answers /\ l.out = <<>>
      /\ l.bit = link.bit /\ l.state = "BASE"
  BY SimpleFields, OtherFields DEF LinkInv, States
<1>2. Error(o) \in Results /\ Becomes(Finish(l, Error(o), more), more) /\ a.outcome = o
  BY ErrorIsResult
<1> HIDE DEF l
<1>3. /\ link' \in Links /\ link'.out = <<>>
      /\ link'.bit = l.bit /\ link'.state = l.state
      /\ GoesOn
      /\ IF Answered(l, Error(o)) THEN Answering(a, more) ELSE Silent
  BY <1>1, <1>2, BecomesFinished
<1> HIDE DEF a
<1>4. Answering(a, more) => a \in Answers
  BY DEF Answering
<1> QED
  BY <1>1, <1>2, <1>3, <1>4 DEF BreaksWith

\* The timer's handler sends the next frame, sends the frame again, or gives up.
LEMMA TimerDoes ==
    ASSUME LinkInv, TriesInv, TimerHandler
    PROVE  /\ link' \in Links /\ link'.out = <<>>
           /\ \/ /\ link.frame = NoFrame /\ Silent /\ GoesOn
                 /\ link'.bit = link.bit /\ link'.state = link.state
              \/ Resent /\ Silent
              \/ /\ link.frame # NoFrame /\ link.resends >= MaxResends
                 /\ BreaksWith("timeout")
<1>1. PICK more \in More :
          Becomes(CASE link.frame = NoFrame -> SendNext(link)
                    [] link.frame # NoFrame /\ link.resends < MaxResends -> Resend(link)
                    [] OTHER -> Finish(InState(link, "BASE"), Error("timeout"), more),
                  more)
  BY DEF TimerHandler
<1>2. CASE link.frame = NoFrame
  <2>1. Becomes(SendNext(link), more)
    BY <1>1, <1>2
  <2> QED
    BY <1>2, <2>1, BecomesNext
<1>3. CASE link.frame # NoFrame /\ link.resends < MaxResends
  <2>1. Becomes(Resend(link), more)
    BY <1>1, <1>3
  <2> QED
    BY <1>3, <2>1, BecomesResent
<1>4. CASE link.frame # NoFrame /\ ~(link.resends < MaxResends)
  <2>1. Becomes(Finish(InState(link, "BASE"), Error("timeout"), more), more)
    BY <1>1, <1>4
  <2>2. link' \in Links /\ link'.out = <<>> /\ BreaksWith("timeout")
    BY <2>1, BecomesBroken DEF Outcomes
  <2>3. link.resends >= MaxResends
    BY <1>4 DEF LinkInv, Links
  <2> QED
    BY <1>4, <2>2, <2>3
<1> QED
  BY <1>2, <1>3, <1>4

\* An error of the channel.
LEMMA LowerErrorDoes ==
    ASSUME LinkInv, LowerError
    PROVE  link' \in Links /\ link'.out = <<>> /\ BreaksWith("channel")
  BY BecomesBroken DEF LowerError, Outcomes

\* A response with the expected bit changes the bit, and answers the first message if
\* there is one and the response is one that says so.
AcceptsResponse(to) ==
    /\ link'.bit # link.bit
    /\ GoesOn
    /\ \/ Silent
       \/ \E more \in More, a \in Answers :
             /\ Answering(a, more)
             /\ \/ a.outcome = "abnormal"
                \/ a.outcome = "reply" /\ link.state = "SESSION_SECURITY" /\ a.to = to

LEMMA ResponseIsFinish ==
    ASSUME NEW l \in Links, NEW code \in {"ok", "isss", "error"}, NEW to \in Frames, NEW more
    PROVE  \E k \in Links, answer \in Results :
              /\ Response(l, code, to, more) = Finish(k, answer, more)
              /\ k.sdus = l.sdus /\ k.answers = l.answers /\ k.out = l.out /\ k.bit = l.bit
              /\ \/ answer = NoAnswer \/ answer = Error("abnormal")
                 \/ answer = [outcome |-> "reply", to |-> to] /\ l.state = "SESSION_SECURITY"
<1>1. Up(l) \in States /\ "BASE" \in States
  BY DEF Up, States, Links
<1>2. NoAnswer \in Results /\ Error("abnormal") \in Results
      /\ [outcome |-> "reply", to |-> to] \in Results
  BY ErrorIsResult DEF Results, Outcomes
<1>3. CASE code = "isss"
  <2>1. Response(l, code, to, more) = Finish(InState(l, "BASE"), NoAnswer, more)
    BY <1>3 DEF Response
  <2> QED
    BY <1>1, <1>2, <2>1, SimpleFields, OtherFields
<1>4. CASE code = "ok" /\ l.state = "SESSION_SECURITY" /\ l.sdus # <<>>
  <2>1. Response(l, code, to, more) = Finish(l, [outcome |-> "reply", to |-> to], more)
    BY <1>4 DEF Response
  <2> QED
    BY <1>2, <1>4, <2>1
<1>5. CASE code = "ok" /\ ~(l.state = "SESSION_SECURITY" /\ l.sdus # <<>>)
  <2>1. Response(l, code, to, more) = Finish(InState(l, Up(l)), NoAnswer, more)
    BY <1>5 DEF Response
  <2> QED
    BY <1>1, <1>2, <2>1, SimpleFields, OtherFields
<1>6. CASE code = "error" /\ l.sdus = <<>>
  <2>1. Response(l, code, to, more) = Finish(InState(l, "BASE"), NoAnswer, more)
    BY <1>6 DEF Response
  <2> QED
    BY <1>1, <1>2, <2>1, SimpleFields, OtherFields
<1>7. CASE code = "error" /\ l.sdus # <<>>
  <2>1. Response(l, code, to, more) = Finish(l, Error("abnormal"), more)
    BY <1>7 DEF Response
  <2> QED
    BY <1>2, <2>1
<1> QED
  BY <1>3, <1>4, <1>5, <1>6, <1>7

LEMMA BecomesAccepted ==
    ASSUME LinkInv, NEW m \in Responses, NEW more \in More,
           Becomes(Response(Toggled(link), m.code, m.to, more), more)
    PROVE  link' \in Links /\ link'.out = <<>> /\ AcceptsResponse(m.to)
<1>1. m.code \in {"ok", "isss", "error"} /\ m.to \in Frames
  BY DEF Responses
<1> DEFINE l == Toggled(link)
<1>2. /\ l \in Links /\ l.sdus = link.sdus /\ l.answers = link.answers /\ l.out = <<>>
      /\ l.bit # link.bit /\ l.state = link.state
  BY SimpleFields, OtherFields DEF LinkInv
<1>3. PICK k \in Links, answer \in Results :
         /\ Response(l, m.code, m.to, more) = Finish(k, answer, more)
         /\ k.sdus = l.sdus /\ k.answers = l.answers /\ k.out = l.out /\ k.bit = l.bit
         /\ \/ answer = NoAnswer \/ answer = Error("abnormal")
            \/ answer = [outcome |-> "reply", to |-> m.to] /\ l.state = "SESSION_SECURITY"
  BY <1>1, <1>2, ResponseIsFinish
<1>4. Becomes(Finish(k, answer, more), more)
  BY <1>3
<1> HIDE DEF l
<1> DEFINE a == [sdu |-> Head(link.sdus), to |-> answer.to, outcome |-> answer.outcome]
<1>5. /\ link' \in Links /\ link'.out = <<>>
      /\ link'.bit = k.bit
      /\ GoesOn
      /\ IF Answered(k, answer) THEN Answering(a, more) ELSE Silent
  BY <1>2, <1>3, <1>4, BecomesFinished
<1>6. CASE ~Answered(k, answer)
  BY <1>2, <1>3, <1>5, <1>6 DEF AcceptsResponse
<1>7. CASE Answered(k, answer)
  <2>1. \/ a.outcome = "abnormal"
        \/ a.outcome = "reply" /\ link.state = "SESSION_SECURITY" /\ a.to = m.to
    BY <1>2, <1>3, <1>7 DEF Answered, Error
  <2> HIDE DEF a
  <2>2. Answering(a, more) /\ a \in Answers
    BY <1>5, <1>7 DEF Answering
  <2> QED
    BY <1>2, <1>3, <1>5, <2>1, <2>2 DEF AcceptsResponse
<1> QED
  BY <1>6, <1>7

\* What arrives leaves the frame as it is, asks for it again, or finishes it.
LEMMA ReceiveDoes ==
    ASSUME LinkInv, Receive
    PROVE  /\ link' \in Links /\ link'.out = <<>>
           /\ \/ Stays /\ Silent /\ link'.timer \in {link.timer, TRUE}
              \/ Resent /\ Silent
              \/ /\ Head(toMaster) \in Responses /\ Expected(Head(toMaster).to)
                 /\ AcceptsResponse(Head(toMaster).to)
<1> DEFINE m == Head(toMaster)
<1>1. m \in Acks \cup Responses
  BY DEF Receive, LinkInv
<1>2. PICK more \in More :
         Becomes(CASE m.type = "ack" -> Timed(link)
                   [] m.type = "nak" -> Resend(link)
                   [] m.type = "response" /\ m.to.bit = link.bit ->
                         Response(Toggled(link), m.code, m.to, more)
                   [] OTHER -> link,
                 more)
  BY DEF Receive
<1> HIDE DEF m
<1>3. link \in Links /\ link.out = <<>>
  BY DEF LinkInv
<1>4. CASE m.type = "ack"
  <2>1. Becomes(Timed(link), more)
    BY <1>2, <1>4
  <2> QED
    BY <1>3, <2>1, SimpleFields, TimedFields, BecomesSame, ZenonT(60)
<1>5. CASE m.type = "nak"
  <2>1. Becomes(Resend(link), more)
    BY <1>2, <1>5
  <2> QED
    BY <2>1, BecomesResent
<1>6. CASE m.type = "response" /\ m.to.bit = link.bit
  <2>1. m \in Responses
    BY <1>1, <1>6 DEF Acks
  <2>2. Becomes(Response(Toggled(link), m.code, m.to, more), more)
    BY <1>2, <1>6
  <2>3. link' \in Links /\ link'.out = <<>> /\ AcceptsResponse(m.to)
    BY <2>1, <2>2, BecomesAccepted
  <2> QED
    BY <1>6, <2>1, <2>3 DEF m, Expected
<1>7. CASE m.type \notin {"ack", "nak"} /\ ~(m.type = "response" /\ m.to.bit = link.bit)
  <2>1. Becomes(link, more)
    BY <1>2, <1>7
  <2> QED
    BY <1>3, <2>1, BecomesSame
<1> QED
  BY <1>4, <1>5, <1>6, <1>7

-----------------------------------------------------------------------------
(* The invariant holds.                                                    *)

\* The initial state satisfies it.
LEMMA InitDataLinkInv == Init => DataLinkInv
<1> SUFFICES ASSUME Init PROVE DataLinkInv
  OBVIOUS
<1>1. /\ link.bit = 0 /\ link.frame = NoFrame /\ link.sdus = <<>> /\ link.state = "BASE"
      /\ link.resends = 0 /\ link.out = <<>> /\ link.answers = <<>>
      /\ toMeter = <<>> /\ toMaster = <<>> /\ submitted = <<>>
  BY DEF Init
<1>2. link \in Links
  <2>1. 0 \in 0..(CountRange - 1) /\ <<>> \in Seq(Sdus) /\ <<>> \in Seq(Frames)
        /\ <<>> \in Seq(Answers) /\ NoFrame \in Frames \cup {NoFrame} /\ "BASE" \in States
    BY DEF States
  <2> QED
    BY <2>1 DEF Init, Links
<1>3. LinkInv
  BY <1>1, <1>2 DEF Init, LinkInv
<1>4. QueueInv /\ TriesInv /\ BitsInv /\ SessionInv /\ NeverStuck /\ RepliesBelong
  BY <1>1 DEF QueueInv, InStep, TriesInv, BitsInv, Ordered, SessionInv, NeverStuck, RepliesBelong
<1> QED
  BY <1>3, <1>4 DEF DataLinkInv

\* The steps in which the class does nothing but, at most, let the timer expire.
LineStep == Expire \/ MeterAnswers \/ MeterNaks \/ Lose \/ UNCHANGED vars

LEMMA LineStepDoes ==
    ASSUME LinkInv, LineStep
    PROVE  /\ link' \in Links /\ link'.out = <<>>
           /\ link'.bit = link.bit /\ link'.frame = link.frame /\ link'.state = link.state
           /\ link'.resends = link.resends /\ link'.tries = link.tries
           /\ Silent
           /\ fired' \in Nat
           /\ (link'.timer = link.timer /\ fired' = fired) \/ fired' > 0
           /\ late' = late
           /\ faults' \in Nat
<1>1. CASE Expire
  <2>1. link' = [link EXCEPT !.timer = FALSE] /\ FALSE \in BOOLEAN
    BY <1>1 DEF Expire
  <2>2. /\ link' \in Links /\ link'.out = <<>>
        /\ link'.bit = link.bit /\ link'.frame = link.frame /\ link'.state = link.state
        /\ link'.resends = link.resends /\ link'.tries = link.tries
        /\ link'.answers = link.answers /\ link'.sdus = link.sdus
    BY <2>1 DEF LinkInv, Links
  <2> QED
    BY <1>1, <2>2 DEF Expire, LinkInv, Silent
<1>2. CASE MeterAnswers \/ MeterNaks \/ Lose \/ UNCHANGED vars
  <2>1. UNCHANGED <<link, fired, submitted, late>> /\ faults' \in {faults, faults + 1}
    BY <1>2 DEF MeterAnswers, MeterNaks, Lose, vars
  <2> QED
    BY <2>1 DEF LinkInv, Silent
<1> QED
  BY <1>1, <1>2 DEF LineStep

LEMMA TypeOfMeter ==
    ASSUME LinkInv, link' \in Links, Stays \/ Resent \/ GoesOn
    PROVE  toMeter' \in Seq(Frames)
<1>1. link.frame \in Frames \cup {NoFrame} /\ toMeter \in Seq(Frames)
  BY DEF LinkInv, Links
<1>2. toMeter' = toMeter \/ \E f \in Frames : toMeter' = Append(toMeter, f)
  BY <1>1 DEF Stays, Resent, GoesOn
<1> QED
  BY <1>1, <1>2

LEMMA TypeOfSubmitted ==
    ASSUME LinkInv, Silent \/ \E more \in More, a \in Answers : Answering(a, more)
    PROVE  submitted' \in Seq(Sdus)
<1>1. CASE Silent
  BY <1>1 DEF Silent, LinkInv
<1>2. ASSUME NEW more \in More, submitted' = submitted \o more PROVE submitted' \in Seq(Sdus)
  <2>1. more \in Seq(Sdus)
    BY MoreType
  <2> QED
    BY <1>2, <2>1 DEF LinkInv
<1> QED
  BY <1>1, <1>2 DEF Answering

\* Every step keeps the types.
LEMMA StepLinkInv == LinkInv /\ TriesInv /\ [Next]_vars => LinkInv'
<1> SUFFICES ASSUME LinkInv, TriesInv, [Next]_vars PROVE LinkInv'
  OBVIOUS
<1> USE DEF LinkInv
<1>1. ASSUME NEW s \in Sdus, Send(s) PROVE LinkInv'
  <2>1. link' \in Links /\ link'.out = <<>> /\ (Stays \/ GoesOn)
    BY <1>1, SendDoes
  <2>2. toMeter' \in Seq(Frames)
    BY <2>1, TypeOfMeter
  <2>3. submitted' \in Seq(Sdus) /\ late' \subseteq Sdus
    BY <1>1 DEF Send
  <2> QED
    BY <1>1, <2>1, <2>2, <2>3 DEF Send
<1>2. CASE TimerHandler
  <2>1. /\ link' \in Links /\ link'.out = <<>>
        /\ Resent \/ GoesOn
        /\ Silent \/ \E more \in More, a \in Answers : Answering(a, more)
    BY <1>2, TimerDoes DEF BreaksWith
  <2>2. toMeter' \in Seq(Frames) /\ submitted' \in Seq(Sdus)
    BY <2>1, TypeOfMeter, TypeOfSubmitted
  <2> QED
    BY <1>2, <2>1, <2>2 DEF TimerHandler
<1>3. CASE LowerError
  <2>1. /\ link' \in Links /\ link'.out = <<>>
        /\ GoesOn
        /\ Silent \/ \E more \in More, a \in Answers : Answering(a, more)
    BY <1>3, LowerErrorDoes DEF BreaksWith
  <2>2. toMeter' \in Seq(Frames) /\ submitted' \in Seq(Sdus)
    BY <2>1, TypeOfMeter, TypeOfSubmitted
  <2> QED
    BY <1>3, <2>1, <2>2 DEF LowerError
<1>4. CASE Receive
  <2>1. /\ link' \in Links /\ link'.out = <<>>
        /\ Stays \/ Resent \/ GoesOn
        /\ Silent \/ \E more \in More, a \in Answers : Answering(a, more)
    BY <1>4, ReceiveDoes DEF AcceptsResponse
  <2>2. toMeter' \in Seq(Frames) /\ submitted' \in Seq(Sdus)
    BY <2>1, TypeOfMeter, TypeOfSubmitted
  <2>3. toMaster' \in Seq(Acks \cup Responses)
    BY <1>4 DEF Receive
  <2> QED
    BY <1>4, <2>1, <2>2, <2>3 DEF Receive
<1>5. CASE LineStep
  <2>1. /\ link' \in Links /\ link'.out = <<>> /\ fired' \in Nat /\ submitted' = submitted
        /\ late' = late /\ faults' \in Nat
    BY <1>5, LineStepDoes DEF Silent
  <2>2. toMeter' \in Seq(Frames)
    <3>1. toMeter' = toMeter \/ (toMeter # <<>> /\ toMeter' = Tail(toMeter))
      BY <1>5 DEF LineStep, Expire, MeterAnswers, MeterNaks, Lose, vars
    <3> QED
      BY <3>1, HeadTailProperties
  <2>3. toMaster' \in Seq(Acks \cup Responses)
    <3>1. CASE MeterAnswers
      <4>1. PICK code \in {"ok", "isss", "error"} :
              toMaster' = toMaster \o
                <<[type |-> "ack"],
                  [type |-> "response", code |-> code, to |-> Head(toMeter)]>>
        BY <3>1 DEF MeterAnswers
      <4>2. Head(toMeter) \in Frames
        BY <3>1 DEF MeterAnswers
      <4>3. [type |-> "ack"] \in Acks
            /\ [type |-> "response", code |-> code, to |-> Head(toMeter)] \in Responses
        BY <4>2 DEF Acks, Responses
      <4> QED
        BY <4>1, <4>3
    <3>2. CASE MeterNaks
      <4>1. [type |-> "nak"] \in Acks
        BY DEF Acks
      <4> QED
        BY <3>2, <4>1 DEF MeterNaks
    <3>3. CASE Expire \/ Lose \/ UNCHANGED vars
      <4>1. toMaster' = toMaster \/ (toMaster # <<>> /\ toMaster' = Tail(toMaster))
        BY <3>3 DEF Expire, Lose, vars
      <4> QED
        BY <4>1, HeadTailProperties
    <3> QED
      BY <1>5, <3>1, <3>2, <3>3 DEF LineStep
  <2> QED
    BY <2>1, <2>2, <2>3
<1> QED
  BY <1>1, <1>2, <1>3, <1>4, <1>5 DEF Next, LineStep

LEMMA GoesOnCounts ==
    ASSUME LinkInv, GoesOn
    PROVE  TriesInv' /\ NeverStuck'
  BY NoFrameIsNone DEF GoesOn, TriesInv, NeverStuck, Idle

LEMMA ResentCounts ==
    ASSUME LinkInv, TriesInv, link' \in Links, Resent
    PROVE  TriesInv' /\ NeverStuck'
  BY SMTT(30) DEF Resent, TriesInv, NeverStuck, LinkInv, Links

\* Every step keeps the count of the tries, and leaves a timer if anything waits.
LEMMA StepCounts ==
    ASSUME LinkInv, TriesInv, NeverStuck, [Next]_vars
    PROVE  TriesInv' /\ NeverStuck'
<1>1. ASSUME NEW s \in Sdus, Send(s) PROVE TriesInv' /\ NeverStuck'
  <2>1. CASE /\ Stays /\ link'.timer = link.timer
             /\ link.sdus # <<>> \/ link.frame # NoFrame
    BY <1>1, <2>1 DEF Stays, TriesInv, NeverStuck, Send
  <2> QED
    BY <1>1, <2>1, SendDoes, GoesOnCounts
<1>2. CASE TimerHandler
  BY <1>2, TimerDoes, StepLinkInv, GoesOnCounts, ResentCounts DEF BreaksWith
<1>3. CASE LowerError
  BY <1>3, LowerErrorDoes, GoesOnCounts DEF BreaksWith
<1>4. CASE Receive
  <2>1. CASE Stays /\ Silent /\ link'.timer \in {link.timer, TRUE}
    BY <1>4, <2>1 DEF Stays, Silent, TriesInv, NeverStuck, Receive
  <2> QED
    BY <1>4, <2>1, ReceiveDoes, GoesOnCounts, ResentCounts DEF AcceptsResponse
<1>5. CASE LineStep
  BY <1>5, LineStepDoes DEF TriesInv, NeverStuck, Silent
<1> QED
  BY <1>1, <1>2, <1>3, <1>4, <1>5 DEF Next, LineStep

\* A message that is handed in goes to the end of the queue.
LEMMA AppendInStep ==
    ASSUME NEW S, NEW T, NEW subs \in Seq(S), NEW answers \in Seq(T), NEW sdus \in Seq(S),
           InStep(subs, answers, sdus), NEW s \in S
    PROVE  InStep(Append(subs, s), answers, Append(sdus, s))
<1>1. Len(subs) \in Nat /\ Len(answers) \in Nat /\ Len(sdus) \in Nat
  OBVIOUS
<1>2. Len(Append(subs, s)) = Len(subs) + 1 /\ Len(Append(sdus, s)) = Len(sdus) + 1
  OBVIOUS
<1>3. \A i \in 1..(Len(subs) + 1) :
         Append(subs, s)[i] = IF i = Len(subs) + 1 THEN s ELSE subs[i]
  OBVIOUS
<1>4. \A i \in 1..(Len(sdus) + 1) :
         Append(sdus, s)[i] = IF i = Len(sdus) + 1 THEN s ELSE sdus[i]
  OBVIOUS
<1> DEFINE u == Append(subs, s)
           q == Append(sdus, s)
           n == Len(answers)
           k == Len(sdus)
<1>5. /\ \A i \in 1..n : subs[i] = answers[i].sdu
      /\ \A i \in 1..k : subs[n + i] = sdus[i]
      /\ Len(subs) = n + k
  BY DEF InStep
<1> HIDE DEF u, q, n, k
<1>6. Len(u) = n + Len(q)
  BY <1>1, <1>2, <1>5 DEF u, q, n, k
<1>7. ASSUME NEW i \in 1..n PROVE u[i] = answers[i].sdu
  <2>1. i \in 1..(Len(subs) + 1) /\ i # Len(subs) + 1
    BY <1>1, <1>5 DEF n, k
  <2> QED
    BY <1>3, <1>5, <2>1 DEF u
<1>8. ASSUME NEW i \in 1..Len(q) PROVE u[n + i] = q[i]
  <2>1. /\ i \in 1..(k + 1) /\ n + i \in 1..(Len(subs) + 1)
        /\ (n + i = Len(subs) + 1) <=> (i = k + 1)
    <3>1. n \in Nat /\ k \in Nat /\ Len(subs) = n + k /\ Len(q) = k + 1
      BY <1>1, <1>2, <1>5 DEF n, k, q
    <3> QED
      BY <3>1
  <2>2. u[n + i] = IF i = k + 1 THEN s ELSE subs[n + i]
    BY <1>3, <2>1 DEF u
  <2>3. q[i] = IF i = k + 1 THEN s ELSE sdus[i]
    BY <1>4, <2>1 DEF q, k
  <2>4. i # k + 1 => i \in 1..k
    BY <1>1, <2>1 DEF k
  <2> QED
    BY <1>5, <2>2, <2>3, <2>4
<1> QED
  BY <1>6, <1>7, <1>8 DEF InStep, u, q, n

\* An answer takes the first message out, and what is handed in meanwhile goes last.
LEMMA AnswerInStep ==
    ASSUME NEW S, NEW T, NEW subs \in Seq(S), NEW answers \in Seq(T), NEW sdus \in Seq(S),
           InStep(subs, answers, sdus), NEW more \in Seq(S), sdus # <<>>,
           NEW a \in T, a.sdu = Head(sdus)
    PROVE  InStep(subs \o more, Append(answers, a), Tail(sdus \o more))
<1> DEFINE q == sdus \o more
           u == subs \o more
           r == Append(answers, a)
           t == Tail(q)
           n == Len(answers)
           k == Len(sdus)
           m == Len(more)
<1>1. n \in Nat /\ k \in Nat /\ m \in Nat /\ k >= 1 /\ Len(subs) = n + k
  BY DEF InStep
<1>2. /\ q \in Seq(S) /\ Len(q) = k + m
      /\ \A i \in 1..(k + m) : q[i] = IF i <= k THEN sdus[i] ELSE more[i - k]
  BY ConcatProperties
<1>3. /\ Len(u) = n + k + m
      /\ \A i \in 1..(n + k + m) : u[i] = IF i <= n + k THEN subs[i] ELSE more[i - (n + k)]
  <2>1. /\ Len(u) = Len(subs) + m
        /\ \A i \in 1..(Len(subs) + m) : u[i] = IF i <= Len(subs) THEN subs[i]
                                                 ELSE more[i - Len(subs)]
    BY ConcatProperties
  <2> HIDE DEF u, n, k, m
  <2> QED
    BY <1>1, <2>1
<1>4. /\ Len(r) = n + 1 /\ r[n + 1] = a
      /\ \A i \in 1..n : r[i] = answers[i]
  OBVIOUS
<1>5. /\ Len(t) = k + m - 1
      /\ \A i \in 1..(k + m - 1) : t[i] = q[i + 1]
  <2>1. q # <<>>
    BY <1>1, <1>2
  <2> HIDE DEF q
  <2> QED
    BY <1>2, <2>1, HeadTailProperties
<1>6. /\ \A i \in 1..n : subs[i] = answers[i].sdu
      /\ \A i \in 1..k : subs[n + i] = sdus[i]
      /\ a.sdu = sdus[1]
  BY DEF InStep
<1> HIDE DEF q, u, r, t, n, k, m
<1>7. ASSUME NEW i \in 1..(k + m) PROVE u[n + i] = q[i]
  <2>1. n + i \in 1..(n + k + m)
    BY <1>1
  <2>2. CASE i <= k
    <3>1. i \in 1..k /\ n + i <= n + k
      BY <1>1, <2>2
    <3> QED
      BY <1>2, <1>3, <1>6, <2>1, <2>2, <3>1
  <2>3. CASE ~(i <= k)
    <3>1. (n + i) - (n + k) = i - k /\ ~(n + i <= n + k)
      BY <1>1, <2>3
    <3> QED
      BY <1>1, <1>2, <1>3, <2>1, <2>3, <3>1
  <2> QED
    BY <2>2, <2>3
<1>8. ASSUME NEW i \in 1..(n + 1) PROVE u[i] = r[i].sdu
  <2>1. CASE i \in 1..n
    <3>1. i \in 1..(n + k + m) /\ i <= n + k
      BY <1>1, <2>1
    <3> QED
      BY <1>3, <1>4, <1>6, <2>1, <3>1
  <2>2. CASE i = n + 1
    <3>1. 1 \in 1..(k + m) /\ 1 <= k
      BY <1>1
    <3> QED
      BY <1>2, <1>4, <1>6, <1>7, <2>2, <3>1
  <2> QED
    BY <1>1, <2>1, <2>2
<1>9. ASSUME NEW i \in 1..(k + m - 1) PROVE u[(n + 1) + i] = t[i]
  <2>1. i + 1 \in 1..(k + m) /\ (n + 1) + i = n + (i + 1)
    BY <1>1
  <2> QED
    BY <1>5, <1>7, <2>1
<1>10. Len(u) = Len(r) + Len(t)
  BY <1>1, <1>3, <1>4, <1>5
<1>11. InStep(u, r, t)
  BY <1>4, <1>5, <1>8, <1>9, <1>10 DEF InStep
<1> QED
  BY <1>11 DEF u, r, t, q

LEMMA QueueTypes ==
    ASSUME LinkInv
    PROVE  link.answers \in Seq(Answers) /\ link.sdus \in Seq(Sdus) /\ submitted \in Seq(Sdus)
  BY DEF LinkInv, Links

LEMMA AppendKeepsQueue ==
    ASSUME LinkInv, QueueInv, NEW s \in Sdus, submitted' = Append(submitted, s),
           link'.answers = link.answers, link'.sdus = Append(link.sdus, s)
    PROVE  QueueInv'
  BY QueueTypes, AppendInStep DEF QueueInv

LEMMA AnsweringKeepsQueue ==
    ASSUME LinkInv, QueueInv, NEW more \in More, NEW a \in Answers, Answering(a, more)
    PROVE  QueueInv'
<1>1. InStep(submitted \o more, Append(link.answers, a), Tail(link.sdus \o more))
  BY QueueTypes, MoreType, AnswerInStep DEF QueueInv, Answering
<1> QED
  BY <1>1 DEF QueueInv, Answering

\* Every step keeps the messages and the answers in step.
LEMMA StepQueueInv ==
    ASSUME LinkInv, TriesInv, QueueInv, [Next]_vars
    PROVE  QueueInv'
<1>1. ASSUME NEW s \in Sdus, Send(s) PROVE QueueInv'
  BY <1>1, SendDoes, AppendKeepsQueue DEF Send
<1>2. CASE Silent
  BY <1>2 DEF Silent, QueueInv
<1>3. CASE TimerHandler
  BY <1>2, <1>3, TimerDoes, AnsweringKeepsQueue DEF BreaksWith
<1>4. CASE LowerError
  BY <1>2, <1>4, LowerErrorDoes, AnsweringKeepsQueue DEF BreaksWith
<1>5. CASE Receive
  BY <1>2, <1>5, ReceiveDoes, AnsweringKeepsQueue DEF AcceptsResponse
<1>6. CASE LineStep
  BY <1>2, <1>6, LineStepDoes
<1> QED
  BY <1>1, <1>3, <1>4, <1>5, <1>6 DEF Next, LineStep

-----------------------------------------------------------------------------
(* The bits on the line.                                                   *)

\* No frame on the line has the bit.
Clear(reqs, resps, bit) ==
    /\ \A i \in 1..Len(reqs) : reqs[i].bit # bit
    /\ \A i \in 1..Len(resps) : IsResponse(resps[i]) => resps[i].to.bit # bit

LEMMA ClearLine ==
    ASSUME NEW q, NEW r, NEW b, Clear(q, r, b)
    PROVE  Ordered(q, r, b) /\ \A f : Only(q, r, b, f)
  BY DEF Clear, Ordered, Only

\* A frame with the bit may follow.
LEMMA AppendOnLine ==
    ASSUME NEW S, NEW q \in Seq(S), NEW r, NEW b, NEW f \in S, f.bit = b
    PROVE  /\ Ordered(q, r, b) => Ordered(Append(q, f), r, b)
           /\ Only(q, r, b, f) => Only(Append(q, f), r, b, f)
<1> DEFINE u == Append(q, f)
<1>1. /\ Len(q) \in Nat /\ Len(u) = Len(q) + 1
      /\ \A i \in 1..(Len(q) + 1) : u[i] = IF i = Len(q) + 1 THEN f ELSE q[i]
  OBVIOUS
<1> HIDE DEF u
<1>2. \A i \in 1..Len(u) : u[i] = f \/ (i \in 1..Len(q) /\ u[i] = q[i])
  BY <1>1
<1>3. \A i, j \in 1..Len(u) : i < j => i \in 1..Len(q) /\ u[i] = q[i]
  BY <1>1
<1>4. Ordered(q, r, b) => Ordered(u, r, b)
  BY <1>2, <1>3 DEF Ordered
<1>5. Only(q, r, b, f) => Only(u, r, b, f)
  BY <1>2 DEF Only
<1> QED
  BY <1>4, <1>5 DEF u

\* What is left of a sequence without its first element.
LEMMA TailIndices ==
    ASSUME NEW S, NEW q \in Seq(S), q # <<>>
    PROVE  /\ \A i \in 1..Len(Tail(q)) : Tail(q)[i] = q[i + 1] /\ i + 1 \in 1..Len(q) /\ 1 < i + 1
           /\ \A i, j \in 1..Len(Tail(q)) : i < j => i + 1 < j + 1
<1> DEFINE u == Tail(q)
<1>1. /\ Len(q) \in Nat /\ Len(u) = Len(q) - 1
      /\ \A i \in 1..Len(u) : u[i] = q[i + 1]
  BY HeadTailProperties
<1> HIDE DEF u
<1>2. \A i \in 1..Len(u) : u[i] = q[i + 1] /\ i + 1 \in 1..Len(q) /\ 1 < i + 1
  BY <1>1
<1>3. \A i, j \in 1..Len(u) : i < j => i + 1 < j + 1
  BY <1>1
<1> QED
  BY <1>2, <1>3 DEF u

\* A request may be lost.
LEMMA LoseRequest ==
    ASSUME NEW S, NEW q \in Seq(S), q # <<>>, NEW r, NEW b, NEW f
    PROVE  /\ Ordered(q, r, b) => Ordered(Tail(q), r, b)
           /\ Only(q, r, b, f) => Only(Tail(q), r, b, f)
<1> DEFINE u == Tail(q)
<1>1. /\ \A i \in 1..Len(u) : u[i] = q[i + 1] /\ i + 1 \in 1..Len(q)
      /\ \A i, j \in 1..Len(u) : i < j => i + 1 < j + 1
  BY TailIndices
<1> HIDE DEF u
<1>2. ASSUME Ordered(q, r, b) PROVE Ordered(u, r, b)
  <2>1. ASSUME NEW i \in 1..Len(u), NEW j \in 1..Len(u), i < j, u[i].bit = b
        PROVE  u[j].bit = b
    <3>1. /\ i + 1 \in 1..Len(q) /\ j + 1 \in 1..Len(q) /\ i + 1 < j + 1
          /\ q[i + 1].bit = b /\ u[j] = q[j + 1]
      BY <1>1, <2>1
    <3>2. q[j + 1].bit = b
      BY <1>2, <3>1 DEF Ordered
    <3> QED
      BY <3>1, <3>2
  <2>2. ASSUME NEW i \in 1..Len(r), NEW j \in 1..Len(u), IsResponse(r[i]), r[i].to.bit = b
        PROVE  u[j].bit = b
    BY <1>1, <1>2, <2>2 DEF Ordered
  <2>3. \A i, j \in 1..Len(r) :
           i < j /\ IsResponse(r[i]) /\ IsResponse(r[j]) /\ r[i].to.bit = b => r[j].to.bit = b
    BY <1>2 DEF Ordered
  <2> QED
    BY <2>1, <2>2, <2>3 DEF Ordered
<1>3. Only(q, r, b, f) => Only(u, r, b, f)
  BY <1>1 DEF Only
<1> QED
  BY <1>2, <1>3 DEF u

\* An answer may be lost.
LEMMA LoseAnswer ==
    ASSUME NEW q, NEW T, NEW r \in Seq(T), r # <<>>, NEW b, NEW f
    PROVE  /\ Ordered(q, r, b) => Ordered(q, Tail(r), b)
           /\ Only(q, r, b, f) => Only(q, Tail(r), b, f)
<1> DEFINE u == Tail(r)
<1>1. /\ \A i \in 1..Len(u) : u[i] = r[i + 1] /\ i + 1 \in 1..Len(r)
      /\ \A i, j \in 1..Len(u) : i < j => i + 1 < j + 1
  BY TailIndices
<1> HIDE DEF u
<1>2. ASSUME Ordered(q, r, b) PROVE Ordered(q, u, b)
  <2>1. ASSUME NEW i \in 1..Len(u), NEW j \in 1..Len(u), i < j,
               IsResponse(u[i]), IsResponse(u[j]), u[i].to.bit = b
        PROVE  u[j].to.bit = b
    <3>1. /\ i + 1 \in 1..Len(r) /\ j + 1 \in 1..Len(r) /\ i + 1 < j + 1
          /\ u[i] = r[i + 1] /\ u[j] = r[j + 1]
      BY <1>1, <2>1
    <3>2. r[j + 1].to.bit = b
      BY <1>2, <2>1, <3>1 DEF Ordered
    <3> QED
      BY <3>1, <3>2
  <2>2. ASSUME NEW i \in 1..Len(u), NEW j \in 1..Len(q), IsResponse(u[i]), u[i].to.bit = b
        PROVE  q[j].bit = b
    BY <1>1, <1>2, <2>2 DEF Ordered
  <2>3. \A i, j \in 1..Len(q) : i < j /\ q[i].bit = b => q[j].bit = b
    BY <1>2 DEF Ordered
  <2> QED
    BY <2>1, <2>2, <2>3 DEF Ordered
<1>3. Only(q, r, b, f) => Only(q, u, b, f)
  BY <1>1 DEF Only
<1> QED
  BY <1>2, <1>3 DEF u

\* A frame that the meter takes becomes the last answer.
LEMMA AnswerOnLine ==
    ASSUME NEW S, NEW q \in Seq(S), q # <<>>, NEW T, NEW r \in Seq(T), NEW b, NEW f,
           NEW a \in T, ~IsResponse(a), NEW x \in T, x.to = Head(q)
    PROVE  /\ Ordered(q, r, b) => Ordered(Tail(q), r \o <<a, x>>, b)
           /\ Only(q, r, b, f) => Only(Tail(q), r \o <<a, x>>, b, f)
<1> DEFINE u == Tail(q)
           v == r \o <<a, x>>
<1>1. /\ Len(q) \in Nat /\ Len(q) >= 1 /\ Len(u) = Len(q) - 1 /\ q[1] = x.to
      /\ \A i \in 1..Len(u) : u[i] = q[i + 1]
  BY HeadTailProperties
<1>2. /\ Len(r) \in Nat /\ Len(v) = Len(r) + 2
      /\ \A i \in 1..Len(v) : v[i] = IF i <= Len(r) THEN r[i]
                                     ELSE IF i = Len(r) + 1 THEN a ELSE x
  OBVIOUS
<1> HIDE DEF u, v
<1>3. \A i \in 1..Len(u) : u[i] = q[i + 1] /\ i + 1 \in 1..Len(q) /\ 1 < i + 1
  BY <1>1
<1>4. 1 \in 1..Len(q)
  BY <1>1
<1>5. \A i \in 1..Len(v) : IsResponse(v[i]) => v[i] = x \/ (i \in 1..Len(r) /\ v[i] = r[i])
  BY <1>2
<1>6. \A i, j \in 1..Len(v) : i < j => i + 1 <= Len(v) /\ (i \in 1..Len(r) \/ i = Len(r) + 1)
  BY <1>2
<1>7. \A i, j \in 1..Len(v) : i < j /\ IsResponse(v[i]) => i \in 1..Len(r) /\ v[i] = r[i]
  BY <1>2, <1>6
<1>8. ASSUME Ordered(q, r, b) PROVE Ordered(u, v, b)
  <2>1. \A i, j \in 1..Len(u) : i < j => i + 1 < j + 1
    BY <1>1
  <2>2. \A i, j \in 1..Len(u) : i < j /\ u[i].bit = b => u[j].bit = b
    BY <1>3, <1>8, <2>1, SMTT(30) DEF Ordered
  <2>3. \A i, j \in 1..Len(v) :
           i < j /\ IsResponse(v[i]) /\ IsResponse(v[j]) /\ v[i].to.bit = b
               => v[j].to.bit = b
    BY <1>1, <1>4, <1>5, <1>7, <1>8 DEF Ordered
  <2>4. ASSUME NEW i \in 1..Len(v), NEW j \in 1..Len(u), IsResponse(v[i]), v[i].to.bit = b
        PROVE  u[j].bit = b
    <3>1. j + 1 \in 1..Len(q) /\ 1 < j + 1 /\ u[j] = q[j + 1]
      BY <1>3
    <3>2. CASE v[i] = x
      <4>1. q[1].bit = b
        BY <1>1, <2>4, <3>2
      <4>2. q[j + 1].bit = b
        BY <1>4, <1>8, <3>1, <4>1 DEF Ordered
      <4> QED
        BY <3>1, <4>2
    <3>3. CASE i \in 1..Len(r) /\ v[i] = r[i]
      <4>1. q[j + 1].bit = b
        BY <1>8, <2>4, <3>1, <3>3 DEF Ordered
      <4> QED
        BY <3>1, <4>1
    <3> QED
      BY <1>5, <2>4, <3>2, <3>3
  <2> QED
    BY <2>2, <2>3, <2>4 DEF Ordered
<1>9. ASSUME Only(q, r, b, f) PROVE Only(u, v, b, f)
  BY <1>1, <1>3, <1>4, <1>5, <1>9, SMTT(30) DEF Only
<1> QED
  BY <1>8, <1>9 DEF u, v

\* A refusal is no answer to anything.
LEMMA RefusalOnLine ==
    ASSUME NEW T, NEW r \in Seq(T), NEW q, NEW b, NEW f, NEW a \in T, ~IsResponse(a)
    PROVE  /\ Ordered(q, r, b) => Ordered(q, Append(r, a), b)
           /\ Only(q, r, b, f) => Only(q, Append(r, a), b, f)
<1> DEFINE v == Append(r, a)
<1>1. \A i \in 1..Len(v) : IsResponse(v[i]) => i \in 1..Len(r) /\ v[i] = r[i]
  <2>1. /\ Len(r) \in Nat /\ Len(v) = Len(r) + 1
        /\ \A i \in 1..Len(v) : v[i] = IF i = Len(r) + 1 THEN a ELSE r[i]
    OBVIOUS
  <2> HIDE DEF v
  <2> QED
    BY <2>1
<1> HIDE DEF v
<1>2. Ordered(q, r, b) => Ordered(q, v, b)
  BY <1>1 DEF Ordered
<1>3. Only(q, r, b, f) => Only(q, v, b, f)
  BY <1>1 DEF Only
<1> QED
  BY <1>2, <1>3 DEF v

\* Behind the first answer with the bit no frame has the other one.
LEMMA AcceptFromLine ==
    ASSUME NEW T, NEW r \in Seq(T), r # <<>>, IsResponse(Head(r)), NEW q, NEW b, NEW c, c # b,
           Ordered(q, r, b), Head(r).to.bit = b
    PROVE  Clear(q, Tail(r), c)
<1> DEFINE u == Tail(r)
<1>1. /\ Len(r) \in Nat /\ Len(r) >= 1 /\ Len(u) = Len(r) - 1 /\ Head(r) = r[1]
      /\ \A i \in 1..Len(u) : u[i] = r[i + 1]
  BY HeadTailProperties
<1> HIDE DEF u
<1>2. \A i \in 1..Len(u) : u[i] = r[i + 1] /\ i + 1 \in 1..Len(r) /\ 1 < i + 1
  BY <1>1
<1>3. 1 \in 1..Len(r)
  BY <1>1
<1>4. \A i \in 1..Len(q) : q[i].bit = b
  BY <1>1, <1>3 DEF Ordered
<1>5. \A i \in 1..Len(u) : IsResponse(u[i]) => u[i].to.bit = b
  BY <1>1, <1>2, <1>3 DEF Ordered
<1> QED
  BY <1>4, <1>5 DEF Clear, u

-----------------------------------------------------------------------------
(* The outstanding frame.                                                  *)

\* An answer may be taken from the line.
Taken == toMaster' = toMaster \/ (toMaster # <<>> /\ toMaster' = Tail(toMaster))

LEMMA LineTypes ==
    ASSUME LinkInv
    PROVE  /\ link \in Links /\ link.frame \in Frames \cup {NoFrame}
           /\ toMeter \in Seq(Frames) /\ toMaster \in Seq(Acks \cup Responses)
  BY DEF LinkInv, Links

\* While the frame stays, so do the bits, and what is said of the line in a session.
LEMMA FrameStays ==
    ASSUME LinkInv, BitsInv, Stays \/ Resent, Taken
    PROVE  /\ BitsInv'
           /\ Only(toMeter, toMaster, link.bit, link.frame)
                  => Only(toMeter', toMaster', link'.bit, link'.frame)
<1>1. /\ link'.bit = link.bit /\ link'.frame = link.frame
      /\ \/ toMeter' = toMeter
         \/ link.frame # NoFrame /\ toMeter' = Append(toMeter, link.frame)
  BY DEF Stays, Resent
<1>2. /\ Ordered(toMeter, toMaster, link.bit) => Ordered(toMeter, toMaster', link.bit)
      /\ Only(toMeter, toMaster, link.bit, link.frame)
             => Only(toMeter, toMaster', link.bit, link.frame)
  BY LineTypes, LoseAnswer DEF Taken
<1>3. /\ Ordered(toMeter, toMaster', link.bit) => Ordered(toMeter', toMaster', link.bit)
      /\ Only(toMeter, toMaster', link.bit, link.frame)
             => Only(toMeter', toMaster', link.bit, link.frame)
  <2>1. CASE toMeter' = toMeter
    BY <2>1
  <2>2. CASE link.frame # NoFrame /\ toMeter' = Append(toMeter, link.frame)
    <3>1. link.frame \in Frames /\ link.frame.bit = link.bit
      BY <2>2, LineTypes DEF BitsInv, Expected
    <3> QED
      BY <2>2, <3>1, LineTypes, AppendOnLine
  <2> QED
    BY <1>1, <2>1, <2>2
<1> QED
  BY <1>1, <1>2, <1>3 DEF BitsInv, Expected

\* The next frame has the bit.
LEMMA NextHasBit ==
    ASSUME LinkInv, link' \in Links, GoesOn
    PROVE  \/ link'.frame = NoFrame /\ link'.sdus = <<>> /\ toMeter' = toMeter
           \/ /\ link'.frame \in Frames /\ link'.frame.bit = link'.bit
              /\ link'.frame.kind = NextKind(link')
              /\ NextKind(link') = "message" => link'.frame.sdu = Head(link'.sdus)
              /\ toMeter' \in {toMeter, Append(toMeter, link'.frame)}
  BY NextFrameFields DEF GoesOn, Idle

\* It follows what is on the line.
LEMMA NextOnLine ==
    ASSUME LinkInv, link' \in Links, GoesOn
    PROVE  /\ Ordered(toMeter, toMaster', link'.bit) => BitsInv'
           /\ Clear(toMeter, toMaster', link'.bit) => BitsInv' /\ SessionInv'
<1>1. ASSUME Ordered(toMeter, toMaster', link'.bit) PROVE BitsInv'
  <2>1. CASE link'.frame = NoFrame /\ toMeter' = toMeter
    BY <1>1, <2>1 DEF BitsInv
  <2>2. CASE /\ link'.frame \in Frames /\ link'.frame.bit = link'.bit
             /\ toMeter' \in {toMeter, Append(toMeter, link'.frame)}
    <3>1. Ordered(toMeter', toMaster', link'.bit)
      BY <1>1, <2>2, LineTypes, AppendOnLine
    <3> QED
      BY <2>2, <3>1 DEF BitsInv, Expected
  <2> QED
    BY <2>1, <2>2, NextHasBit
<1>2. ASSUME Clear(toMeter, toMaster', link'.bit) PROVE SessionInv'
  <2> SUFFICES ASSUME link'.state = "SESSION_SECURITY"
               PROVE  /\ Only(toMeter', toMaster', link'.bit, link'.frame)
                      /\ link'.frame # NoFrame => link'.frame.kind \in {"message", "logoff"}
                      /\ link'.frame.kind = "message" =>
                            link'.sdus # <<>> /\ link'.frame.sdu = Head(link'.sdus)
                      /\ link'.frame.kind = "logoff" =>
                            \A i \in 1..Len(link'.sdus) : link'.sdus[i] \in late'
    BY DEF SessionInv
  <2>1. \A f : Only(toMeter, toMaster', link'.bit, f)
    BY <1>2, ClearLine
  <2>2. CASE link'.frame = NoFrame /\ toMeter' = toMeter
    BY <2>1, <2>2 DEF NoFrame
  <2>3. CASE /\ link'.frame \in Frames /\ link'.frame.bit = link'.bit
             /\ link'.frame.kind = NextKind(link')
             /\ NextKind(link') = "message" => link'.frame.sdu = Head(link'.sdus)
             /\ toMeter' \in {toMeter, Append(toMeter, link'.frame)}
    <3>1. Only(toMeter', toMaster', link'.bit, link'.frame)
      BY <2>1, <2>3, LineTypes, AppendOnLine
    <3>2. NextKind(link') = IF link'.sdus # <<>> THEN "message" ELSE "logoff"
      BY DEF NextKind
    <3>3. link'.sdus = <<>> => \A i \in 1..Len(link'.sdus) : link'.sdus[i] \in late'
      OBVIOUS
    <3> QED
      BY <2>3, <3>1, <3>2, <3>3
  <2> QED
    BY <2>2, <2>3, NextHasBit
<1>3. Clear(toMeter, toMaster', link'.bit) => Ordered(toMeter, toMaster', link'.bit)
  BY ClearLine
<1> QED
  BY <1>1, <1>2, <1>3

\* With no frame outstanding the line is clear in a session.
LEMMA NextInSession ==
    ASSUME LinkInv, BitsInv, SessionInv, link' \in Links, link.frame = NoFrame, GoesOn,
           link'.bit = link.bit, link'.state = link.state, toMaster' = toMaster
    PROVE  BitsInv' /\ SessionInv'
<1>1. BitsInv'
  BY NextOnLine DEF BitsInv
<1>2. CASE link.state # "SESSION_SECURITY"
  BY <1>1, <1>2 DEF SessionInv
<1>3. CASE link.state = "SESSION_SECURITY"
  <2>1. Only(toMeter, toMaster, link.bit, NoFrame)
    BY <1>3 DEF SessionInv
  <2>2. ASSUME NEW i \in 1..Len(toMeter) PROVE toMeter[i].bit # link.bit
    <3>1. toMeter[i] \in Frames
      BY LineTypes
    <3> QED
      BY <2>1, <3>1, NoFrameIsNone DEF Only
  <2>3. ASSUME NEW i \in 1..Len(toMaster), IsResponse(toMaster[i])
        PROVE  toMaster[i].to.bit # link.bit
    <3>1. toMaster[i] \in Acks \cup Responses
      BY LineTypes
    <3>2. toMaster[i].to \in Frames
      BY <2>3, <3>1 DEF IsResponse, Acks, Responses
    <3> QED
      BY <2>1, <2>3, <3>2, NoFrameIsNone DEF Only
  <2>4. Clear(toMeter, toMaster, link.bit)
    BY <2>2, <2>3 DEF Clear
  <2> QED
    BY <2>4, NextOnLine
<1> QED
  BY <1>2, <1>3

\* A broken link sends its next frame with the same bit, and is in no session.
LEMMA BreakKeepsBits ==
    ASSUME LinkInv, BitsInv, link' \in Links, NEW outcome, BreaksWith(outcome), toMaster' = toMaster
    PROVE  BitsInv' /\ SessionInv'
  BY NextOnLine DEF BreaksWith, BitsInv, SessionInv

\* The first answer with the bit leaves only frames with that bit behind it: the other
\* one is clear.
LEMMA AcceptKeepsBits ==
    ASSUME LinkInv, BitsInv, link' \in Links, Receive, Head(toMaster) \in Responses,
           Expected(Head(toMaster).to), AcceptsResponse(Head(toMaster).to)
    PROVE  BitsInv' /\ SessionInv'
<1>1. toMaster # <<>> /\ toMaster' = Tail(toMaster)
  BY DEF Receive
<1>2. IsResponse(Head(toMaster)) /\ Head(toMaster).to.bit = link.bit
  BY DEF IsResponse, Responses, Expected
<1>3. Clear(toMeter, Tail(toMaster), link'.bit)
  BY <1>1, <1>2, LineTypes, AcceptFromLine DEF BitsInv, AcceptsResponse
<1> QED
  BY <1>1, <1>3, NextOnLine DEF AcceptsResponse

\* What is said of the outstanding frame stays with it.
LEMMA SessionStays ==
    ASSUME LinkInv, SessionInv, link'.state = link.state, link'.frame = link.frame, Silent,
           late \subseteq late',
           Only(toMeter, toMaster, link.bit, link.frame)
               => Only(toMeter', toMaster', link'.bit, link'.frame)
    PROVE  SessionInv'
  BY DEF SessionInv, Silent

\* A message that is handed in while the link closes is late.
LEMMA SendKeepsBits ==
    ASSUME LinkInv, TriesInv, BitsInv, SessionInv, NEW s \in Sdus, Send(s)
    PROVE  BitsInv' /\ SessionInv'
<1>1. /\ link' \in Links
      /\ link'.bit = link.bit /\ link'.state = link.state
      /\ link'.sdus = Append(link.sdus, s)
      /\ \/ Stays
         \/ link.frame = NoFrame /\ GoesOn
  BY SendDoes
<1>2. toMaster' = toMaster /\ late' = IF Closing(link.frame) THEN late \cup {s} ELSE late
  BY DEF Send
<1>3. CASE Stays
  <2>1. /\ BitsInv'
        /\ Only(toMeter, toMaster, link.bit, link.frame)
               => Only(toMeter', toMaster', link'.bit, link'.frame)
    BY <1>2, <1>3, FrameStays DEF Taken
  <2>2. SessionInv'
    <3> SUFFICES ASSUME link.state = "SESSION_SECURITY"
                 PROVE  /\ link.frame.kind = "message" =>
                              link'.sdus # <<>> /\ link.frame.sdu = Head(link'.sdus)
                        /\ link.frame.kind = "logoff" =>
                              \A i \in 1..Len(link'.sdus) : link'.sdus[i] \in late'
      BY <1>1, <1>3, <2>1 DEF SessionInv, Stays
    <3>1. link.sdus \in Seq(Sdus)
      BY QueueTypes
    <3>2. ASSUME link.frame.kind = "message"
          PROVE  link'.sdus # <<>> /\ link.frame.sdu = Head(link'.sdus)
      <4>1. link.sdus # <<>> /\ link.frame.sdu = Head(link.sdus)
        BY <3>2 DEF SessionInv
      <4> QED
        BY <1>1, <3>1, <4>1
    <3>3. ASSUME link.frame.kind = "logoff", NEW i \in 1..Len(link'.sdus)
          PROVE  link'.sdus[i] \in late'
      <4>1. \A j \in 1..Len(link.sdus) : link.sdus[j] \in late
        BY <3>3 DEF SessionInv
      <4>2. late' = late \cup {s}
        BY <1>2, <3>3 DEF Closing
      <4>3. link'.sdus[i] = s \/ (i \in 1..Len(link.sdus) /\ link'.sdus[i] = link.sdus[i])
        BY <1>1, <3>1
      <4> QED
        BY <4>1, <4>2, <4>3
    <3> QED
      BY <3>2, <3>3
  <2> QED
    BY <2>1, <2>2
<1>4. CASE link.frame = NoFrame /\ GoesOn
  BY <1>1, <1>2, <1>4, NextInSession
<1> QED
  BY <1>1, <1>3, <1>4

\* The line itself keeps the order of its frames.
LEMMA LineKeepsBits ==
    ASSUME LinkInv, BitsInv, SessionInv, LineStep
    PROVE  BitsInv' /\ SessionInv'
<1>1. /\ link'.bit = link.bit /\ link'.frame = link.frame /\ link'.state = link.state
      /\ Silent /\ late' = late
  BY LineStepDoes
<1> DEFINE Kept ==
        /\ Ordered(toMeter, toMaster, link.bit) => Ordered(toMeter', toMaster', link.bit)
        /\ Only(toMeter, toMaster, link.bit, link.frame)
               => Only(toMeter', toMaster', link.bit, link.frame)
<1>2. ASSUME MeterAnswers PROVE Kept
  <2>1. PICK code \in {"ok", "isss", "error"} :
           toMaster' = toMaster \o <<[type |-> "ack"],
                                     [type |-> "response", code |-> code, to |-> Head(toMeter)]>>
    BY <1>2 DEF MeterAnswers
  <2>2. toMeter # <<>> /\ toMeter' = Tail(toMeter) /\ Head(toMeter) \in Frames
    BY <1>2, LineTypes DEF MeterAnswers
  <2> DEFINE a == [type |-> "ack"]
             x == [type |-> "response", code |-> code, to |-> Head(toMeter)]
  <2>3. /\ a \in Acks \cup Responses /\ ~IsResponse(a)
        /\ x \in Acks \cup Responses /\ x.to = Head(toMeter)
        /\ toMaster' = toMaster \o <<a, x>>
    BY <2>1, <2>2 DEF Acks, Responses, IsResponse
  <2> HIDE DEF a, x
  <2> QED
    BY <2>2, <2>3, LineTypes, AnswerOnLine
<1>3. ASSUME MeterNaks PROVE Kept
  <2> DEFINE a == [type |-> "nak"]
  <2>1. a \in Acks \cup Responses /\ ~IsResponse(a)
    BY DEF Acks, IsResponse
  <2>2. toMeter # <<>> /\ toMeter' = Tail(toMeter) /\ toMaster' = Append(toMaster, a)
    BY <1>3 DEF MeterNaks
  <2> HIDE DEF a
  <2>3. /\ Ordered(toMeter, toMaster, link.bit) => Ordered(toMeter', toMaster, link.bit)
        /\ Only(toMeter, toMaster, link.bit, link.frame)
               => Only(toMeter', toMaster, link.bit, link.frame)
    BY <2>2, LineTypes, LoseRequest
  <2>4. /\ Ordered(toMeter', toMaster, link.bit) => Ordered(toMeter', toMaster', link.bit)
        /\ Only(toMeter', toMaster, link.bit, link.frame)
               => Only(toMeter', toMaster', link.bit, link.frame)
    BY <2>1, <2>2, LineTypes, RefusalOnLine
  <2> QED
    BY <2>3, <2>4
<1>4. ASSUME Lose PROVE Kept
  <2>1. CASE toMeter # <<>> /\ toMeter' = Tail(toMeter) /\ UNCHANGED toMaster
    BY <2>1, LineTypes, LoseRequest
  <2>2. CASE toMaster # <<>> /\ toMaster' = Tail(toMaster) /\ UNCHANGED toMeter
    BY <2>2, LineTypes, LoseAnswer
  <2> QED
    BY <1>4, <2>1, <2>2 DEF Lose
<1>5. ASSUME Expire \/ UNCHANGED vars PROVE Kept
  BY <1>5 DEF Expire, vars
<1>6. Kept
  BY <1>2, <1>3, <1>4, <1>5 DEF LineStep
<1> HIDE DEF Kept
<1>7. BitsInv'
  BY <1>1, <1>6 DEF Kept, BitsInv, Expected
<1>8. SessionInv'
  BY <1>1, <1>6, SessionStays DEF Kept
<1> QED
  BY <1>7, <1>8

\* Every step keeps the order of the bits and the outstanding frame of a session.
LEMMA StepBits ==
    ASSUME LinkInv, TriesInv, BitsInv, SessionInv, [Next]_vars
    PROVE  BitsInv' /\ SessionInv'
<1>1. ASSUME NEW s \in Sdus, Send(s) PROVE BitsInv' /\ SessionInv'
  BY <1>1, SendKeepsBits
<1>2. ASSUME Stays \/ Resent, Silent, Taken, late \subseteq late' PROVE BitsInv' /\ SessionInv'
  <2>1. link'.state = link.state /\ link'.frame = link.frame
    BY <1>2 DEF Stays, Resent
  <2> QED
    BY <1>2, <2>1, FrameStays, SessionStays
<1>3. CASE TimerHandler
  <2>1. toMaster' = toMaster /\ late' = late
    BY <1>3 DEF TimerHandler
  <2>2. CASE Resent /\ Silent
    BY <1>2, <2>1, <2>2 DEF Taken
  <2> QED
    BY <1>3, <2>1, <2>2, TimerDoes, NextInSession, BreakKeepsBits
<1>4. CASE LowerError
  <2>1. toMaster' = toMaster
    BY <1>4 DEF LowerError
  <2> QED
    BY <1>4, <2>1, LowerErrorDoes, BreakKeepsBits
<1>5. CASE Receive
  <2>1. Taken /\ late' = late
    BY <1>5 DEF Receive, Taken
  <2>2. CASE (Stays \/ Resent) /\ Silent
    BY <1>2, <2>1, <2>2
  <2> QED
    BY <1>5, <2>2, ReceiveDoes, AcceptKeepsBits
<1>6. CASE LineStep
  BY <1>6, LineKeepsBits
<1> QED
  BY <1>1, <1>3, <1>4, <1>5, <1>6 DEF Next, LineStep

-----------------------------------------------------------------------------
(* The answers.                                                            *)

\* A new answer belongs to its message if it is no reply.
LEMMA AnsweringBelongs ==
    ASSUME LinkInv, RepliesBelong, NEW more \in More, NEW a \in Answers, Answering(a, more),
           late \subseteq late', a.sdu \in late' \/ Belongs(a)
    PROVE  RepliesBelong'
<1>1. link.answers \in Seq(Answers) /\ link'.answers = Append(link.answers, a)
  BY QueueTypes DEF Answering
<1>2. ASSUME NEW i \in 1..Len(link'.answers)
      PROVE  link'.answers[i].sdu \in late' \/ Belongs(link'.answers[i])
  <2>1. \/ link'.answers[i] = a
        \/ i \in 1..Len(link.answers) /\ link'.answers[i] = link.answers[i]
    BY <1>1
  <2> QED
    BY <2>1 DEF RepliesBelong
<1> QED
  BY <1>2 DEF RepliesBelong

LEMMA SilentBelongs ==
    ASSUME RepliesBelong, link'.answers = link.answers, late \subseteq late'
    PROVE  RepliesBelong'
  BY DEF RepliesBelong

\* In a session the accepted reply is the reply to the outstanding frame, and that frame
\* carries the first message, unless the link is being closed.
LEMMA ReplyBelongs ==
    ASSUME LinkInv, SessionInv, Receive, Head(toMaster) \in Responses,
           Expected(Head(toMaster).to), link.state = "SESSION_SECURITY",
           NEW a \in Answers, a.sdu = Head(link.sdus), link.sdus # <<>>,
           a.to = Head(toMaster).to
    PROVE  a.sdu \in late \/ Belongs(a)
<1>1. /\ toMaster # <<>> /\ toMaster \in Seq(Acks \cup Responses)
      /\ Len(toMaster) \in Nat
  BY LineTypes DEF Receive
<1>2. 1 \in 1..Len(toMaster) /\ toMaster[1] = Head(toMaster)
  BY <1>1
<1>3. IsResponse(toMaster[1]) /\ toMaster[1].to.bit = link.bit /\ toMaster[1].to \in Frames
  BY <1>2 DEF IsResponse, Responses, Expected
<1>4. a.to = link.frame /\ link.frame # NoFrame
  BY <1>2, <1>3, NoFrameIsNone DEF SessionInv, Only
<1>5. CASE link.frame.kind = "message"
  BY <1>4, <1>5 DEF SessionInv, Belongs
<1>6. CASE link.frame.kind = "logoff"
  <2>1. link.sdus \in Seq(Sdus)
    BY QueueTypes
  <2>2. 1 \in 1..Len(link.sdus) /\ Head(link.sdus) = link.sdus[1]
    BY <2>1
  <2> QED
    BY <1>6, <2>2 DEF SessionInv
<1> QED
  BY <1>4, <1>5, <1>6 DEF SessionInv

\* Every step keeps the replies with their messages.
LEMMA StepRepliesBelong ==
    ASSUME LinkInv, TriesInv, SessionInv, RepliesBelong, [Next]_vars
    PROVE  RepliesBelong'
<1>1. late \subseteq late'
  <2>1. ASSUME NEW s \in Sdus, Send(s) PROVE late \subseteq late'
    BY <2>1 DEF Send
  <2> QED
    BY <2>1, LineStepDoes DEF Next, TimerHandler, LowerError, Receive, LineStep
<1>2. ASSUME NEW outcome, outcome # "reply", BreaksWith(outcome) PROVE RepliesBelong'
  BY <1>1, <1>2, AnsweringBelongs, SilentBelongs DEF BreaksWith, Silent, Belongs
<1>3. ASSUME NEW s \in Sdus, Send(s) PROVE RepliesBelong'
  BY <1>1, <1>3, SendDoes, SilentBelongs
<1>4. CASE TimerHandler
  BY <1>1, <1>2, <1>4, TimerDoes, SilentBelongs DEF Silent
<1>5. CASE LowerError
  BY <1>2, <1>5, LowerErrorDoes
<1>6. CASE Receive
  <2>1. CASE Silent
    BY <1>1, <2>1, SilentBelongs DEF Silent
  <2>2. ASSUME Head(toMaster) \in Responses, Expected(Head(toMaster).to),
               NEW more \in More, NEW a \in Answers, Answering(a, more),
               \/ a.outcome = "abnormal"
               \/ /\ a.outcome = "reply" /\ link.state = "SESSION_SECURITY"
                  /\ a.to = Head(toMaster).to
        PROVE  RepliesBelong'
    <3>1. a.sdu \in late \/ Belongs(a)
      <4>1. CASE a.outcome = "abnormal"
        BY <4>1 DEF Belongs
      <4>2. CASE link.state = "SESSION_SECURITY" /\ a.to = Head(toMaster).to
        BY <1>6, <2>2, <4>2, ReplyBelongs DEF Answering
      <4> QED
        BY <2>2, <4>1, <4>2
    <3> QED
      BY <1>1, <2>2, <3>1, AnsweringBelongs
  <2> QED
    BY <1>6, <2>1, <2>2, ReceiveDoes DEF AcceptsResponse
<1>7. CASE LineStep
  BY <1>1, <1>7, LineStepDoes, SilentBelongs DEF Silent
<1> QED
  BY <1>3, <1>4, <1>5, <1>6, <1>7 DEF Next, LineStep

-----------------------------------------------------------------------------
(* The theorems.                                                           *)

LEMMA StepDataLinkInv == DataLinkInv /\ [Next]_vars => DataLinkInv'
<1> SUFFICES ASSUME DataLinkInv, [Next]_vars PROVE DataLinkInv'
  OBVIOUS
<1>1. LinkInv'
  BY StepLinkInv DEF DataLinkInv
<1>2. QueueInv'
  BY StepQueueInv DEF DataLinkInv
<1>3. TriesInv' /\ NeverStuck'
  BY StepCounts DEF DataLinkInv
<1>4. BitsInv' /\ SessionInv'
  BY StepBits DEF DataLinkInv
<1>5. RepliesBelong'
  BY StepRepliesBelong DEF DataLinkInv
<1> QED
  BY <1>1, <1>2, <1>3, <1>4, <1>5 DEF DataLinkInv

\* The invariant holds for any number of messages and faults and lines of any capacity.
THEOREM DataLinkInvariant == Spec => []DataLinkInv
  BY InitDataLinkInv, StepDataLinkInv, PTL DEF Spec

\* The object and the line always have their types, and nothing is left unsent between
\* two steps: send_next_frame and resend_cur_frame hand over what they keep
\* (data_link_layer.hpp:201-246, 347-355).
THEOREM DataLinkTypeTheorem == Spec => []TypeOK
<1>1. DataLinkInv => TypeOK
  BY DEF DataLinkInv, LinkInv, Links, TypeOK
<1> QED
  BY <1>1, DataLinkInvariant, PTL

\* While a frame or a message waits or the link is up, a timer runs or its handler is
\* queued: every way out of a handler starts the timer (data_link_layer.hpp:319-366).
THEOREM NeverStuckTheorem == Spec => []NeverStuck
<1>1. DataLinkInv => NeverStuck
  BY DEF DataLinkInv
<1> QED
  BY <1>1, DataLinkInvariant, PTL

\* Whatever the line loses and the meter refuses, a reply that an upper layer gets is
\* the meter's reply to that message, but for messages handed in while the link is being
\* closed (data_link_layer.hpp:435-497).
THEOREM RepliesBelongTheorem == Spec => []RepliesBelong
<1>1. DataLinkInv => RepliesBelong
  BY DEF DataLinkInv
<1> QED
  BY <1>1, DataLinkInvariant, PTL

\* A timeout is answered only when the count of resends is used up, and the tries of
\* the frame are more than that.
LEMMA StepGivesUp ==
    ASSUME LinkInv, TriesInv, [Next]_vars,
           NEW i \in 1..Len(link'.answers), i > Len(link.answers),
           link'.answers[i].outcome = "timeout"
    PROVE  link.tries > MaxResends
<1>1. link.answers \in Seq(Answers) /\ Len(link.answers) \in Nat
  BY QueueTypes
<1>2. link'.answers # link.answers
  BY <1>1
<1>3. ASSUME NEW more \in More, NEW a \in Answers, Answering(a, more) PROVE a.outcome = "timeout"
  <2>1. link'.answers = Append(link.answers, a)
    BY <1>3 DEF Answering
  <2>2. link'.answers[i] = a
    BY <1>1, <2>1
  <2> QED
    BY <2>2
<1>4. ASSUME NEW outcome, BreaksWith(outcome) PROVE outcome = "timeout"
  BY <1>2, <1>3, <1>4 DEF BreaksWith, Silent
<1>5. ASSUME NEW s \in Sdus, Send(s) PROVE FALSE
  BY <1>2, <1>5, SendDoes
<1>6. CASE TimerHandler
  <2>1. link.frame # NoFrame /\ link.resends >= MaxResends
    BY <1>2, <1>6, TimerDoes DEF Silent
  <2>2. link.tries > link.resends /\ link.tries \in Nat /\ link.resends \in Nat
    BY <2>1 DEF TriesInv, LinkInv, Links
  <2> QED
    BY <2>1, <2>2
<1>7. CASE LowerError
  BY <1>4, <1>7, LowerErrorDoes
<1>8. CASE Receive
  BY <1>2, <1>3, <1>8, ReceiveDoes DEF Silent, AcceptsResponse
<1>9. CASE LineStep
  BY <1>2, <1>9, LineStepDoes DEF Silent
<1> QED
  BY <1>5, <1>6, <1>7, <1>8, <1>9 DEF Next, LineStep

\* A message is given up only after its frame was sent once and MAX_RESEND_TIMES again,
\* also when the one byte that counts the resends wraps around
\* (data_link_layer.hpp:368-385).
THEOREM GivesUpTheorem == Spec => GivesUpAfterAllTries
<1>1. DataLinkInv /\ [Next]_vars =>
        [\A i \in 1..Len(link'.answers) :
            i > Len(link.answers) /\ link'.answers[i].outcome = "timeout"
                => link.tries > MaxResends]_vars
  BY StepGivesUp DEF DataLinkInv
<1> QED
  BY <1>1, DataLinkInvariant, PTL DEF Spec, GivesUpAfterAllTries

-----------------------------------------------------------------------------
(* The service.                                                            *)

ResultsOf(answers) ==
    [i \in 1..Len(answers) |-> [sdu |-> answers[i].sdu, outcome |-> answers[i].outcome]]

LEMMA ResultsAppend ==
    ASSUME NEW T, NEW answers \in Seq(T), NEW a \in T
    PROVE  /\ Len(ResultsOf(answers)) = Len(answers)
           /\ ResultsOf(Append(answers, a))
                = Append(ResultsOf(answers), [sdu |-> a.sdu, outcome |-> a.outcome])
<1> DEFINE R == {[sdu |-> x.sdu, outcome |-> x.outcome] : x \in T}
           r == ResultsOf(answers)
           e == [sdu |-> a.sdu, outcome |-> a.outcome]
           s == ResultsOf(Append(answers, a))
           n == Len(answers)
<1>1. \A i \in 1..n : answers[i] \in T
  OBVIOUS
<1>2. n \in Nat /\ Len(Append(answers, a)) = n + 1
  OBVIOUS
<1>3. r \in [1..n -> R] /\ e \in R
  <2>1. \A i \in 1..n : [sdu |-> answers[i].sdu, outcome |-> answers[i].outcome] \in R
    BY <1>1
  <2> HIDE DEF R
  <2> QED
    BY <2>1 DEF ResultsOf, R
<1> HIDE DEF R
<1>4. r \in Seq(R) /\ Len(r) = n
  BY <1>2, <1>3
<1>5. \A i \in 1..(n + 1) : Append(answers, a)[i] = IF i = n + 1 THEN a ELSE answers[i]
  OBVIOUS
<1>6. s = [i \in 1..(n + 1) |-> IF i = n + 1 THEN e ELSE r[i]]
  <2>1. \A i \in 1..(n + 1) : i # n + 1 => i \in 1..n
    BY <1>2
  <2>2. \A i \in 1..n : r[i] = [sdu |-> answers[i].sdu, outcome |-> answers[i].outcome]
    BY DEF ResultsOf
  <2> QED
    BY <1>2, <1>5, <2>1, <2>2 DEF ResultsOf
<1> HIDE DEF r, e, s, n
<1>7. Append(r, e) = [i \in 1..(n + 1) |-> IF i = n + 1 THEN e ELSE r[i]]
  <2> DEFINE u == Append(r, e)
  <2>1. /\ u \in Seq(R) /\ Len(u) = n + 1
        /\ \A i \in 1..n : u[i] = r[i]
        /\ u[n + 1] = e
    BY <1>3, <1>4, AppendProperties
  <2> HIDE DEF u
  <2>2. u = [i \in 1..(n + 1) |-> u[i]]
    BY <2>1
  <2>3. \A i \in 1..(n + 1) : i = n + 1 \/ i \in 1..n
    BY <1>2 DEF n
  <2> QED
    BY <2>1, <2>2, <2>3 DEF u
<1> QED
  BY <1>4, <1>6, <1>7 DEF r, e, s, n

\* The first message of the queue is the first one without an answer.
LEMMA AnsweringAnswers ==
    ASSUME LinkInv, QueueInv, NEW more \in More, NEW a \in Answers, Answering(a, more)
    PROVE  Service!Next
<1> DEFINE o == a.outcome
<1>1. o \in Outcomes
  BY DEF Answers
<1>2. /\ link.answers \in Seq(Answers) /\ link.sdus \in Seq(Sdus) /\ link.sdus # <<>>
      /\ link'.answers = Append(link.answers, a) /\ a.sdu = link.sdus[1]
  BY QueueTypes DEF Answering
<1>3. /\ Len(link.answers) < Len(submitted)
      /\ submitted[Len(link.answers) + 1] = a.sdu
  <2>1. Len(link.sdus) \in Nat /\ Len(link.sdus) >= 1 /\ Len(link.answers) \in Nat
    BY <1>2
  <2>2. 1 \in 1..Len(link.sdus)
    BY <2>1
  <2>3. /\ Len(submitted) = Len(link.answers) + Len(link.sdus)
        /\ submitted[Len(link.answers) + 1] = link.sdus[1]
    BY <2>2 DEF QueueInv, InStep
  <2>4. Len(link.answers) < Len(submitted)
    <3> DEFINE n == Len(link.answers)
               k == Len(link.sdus)
    <3>1. n \in Nat /\ k \in Nat /\ k >= 1 /\ Len(submitted) = n + k
      BY <2>1, <2>3
    <3> HIDE DEF n, k
    <3>2. n < Len(submitted)
      BY <3>1
    <3> QED
      BY <3>2 DEF n
  <2>5. submitted[Len(link.answers) + 1] = a.sdu
    BY <1>2, <2>3
  <2> QED
    BY <2>4, <2>5
<1>4. Service!GiveAnswer(o)
  <2>1. /\ Len(ResultsOf(link.answers)) = Len(link.answers)
        /\ ResultsOf(link'.answers)
             = Append(ResultsOf(link.answers), [sdu |-> a.sdu, outcome |-> o])
    BY <1>2, ResultsAppend
  <2> QED
    BY <1>3, <2>1 DEF Service!GiveAnswer, ResultsOf
<1>5. CASE more = <<>>
  <2>1. submitted' = submitted
    BY <1>5 DEF Answering, LinkInv
  <2>2. Service!Answer(o)
    BY <1>4, <2>1 DEF Service!Answer
  <2> QED
    BY <1>1, <2>2 DEF Service!Next
<1>6. CASE more # <<>>
  <2>1. PICK s \in Sdus : more = <<s>> /\ \A i \in 1..Len(submitted) : submitted[i] # s
    BY <1>6, MoreType
  <2>2. submitted' = Append(submitted, s)
    <3>1. submitted' = submitted \o <<s>> /\ submitted \in Seq(Sdus)
      BY <2>1 DEF Answering, LinkInv
    <3> QED
      BY <3>1
  <2>3. Service!AnswerAndSubmit(o, s)
    BY <1>4, <2>1, <2>2 DEF Service!AnswerAndSubmit, Service!New
  <2> QED
    BY <1>1, <2>3 DEF Service!Next
<1> QED
  BY <1>5, <1>6

\* Every step is one of the service, or invisible to the upper layers.
LEMMA StepService ==
    ASSUME LinkInv, TriesInv, QueueInv, [Next]_vars
    PROVE  \/ Service!Next
           \/ submitted' = submitted /\ link'.answers = link.answers
<1>1. ASSUME NEW s \in Sdus, Send(s) PROVE Service!Next
  <2>1. \A i \in 1..Len(submitted) : submitted[i] # s
    BY <1>1 DEF Send, Unsent
  <2>2. submitted' = Append(submitted, s) /\ link'.answers = link.answers
    BY <1>1, SendDoes DEF Send
  <2>3. Service!Submit(s)
    BY <2>1, <2>2 DEF Service!Submit, Service!New
  <2> QED
    BY <2>3 DEF Service!Next
<1>2. CASE Silent
  BY <1>2 DEF Silent
<1>3. CASE TimerHandler
  BY <1>2, <1>3, TimerDoes, AnsweringAnswers DEF BreaksWith
<1>4. CASE LowerError
  BY <1>2, <1>4, LowerErrorDoes, AnsweringAnswers DEF BreaksWith
<1>5. CASE Receive
  BY <1>2, <1>5, ReceiveDoes, AnsweringAnswers DEF AcceptsResponse
<1>6. CASE LineStep
  BY <1>2, <1>6, LineStepDoes
<1> QED
  BY <1>1, <1>3, <1>4, <1>5, <1>6 DEF Next, LineStep

\* The data link implements its service: one call of receive() for each send(), in the
\* order of the messages, whatever the line does and also for messages that are handed in
\* from inside receive() (data_link_layer.hpp:189-199, 319-345).
THEOREM LinkServiceTheorem == Spec => ImplementsLinkService
<1>1. Init => Service!Init
  BY DEF Init, Service!Init
<1>2. DataLinkInv /\ [Next]_vars => [Service!Next]_<<submitted, ResultsOf(link.answers)>>
  BY StepService DEF DataLinkInv
<1> QED
  BY <1>1, <1>2, DataLinkInvariant, PTL
     DEF Spec, ImplementsLinkService, Service!Spec, ResultsOf
=============================================================================
