------------------------------ MODULE DataLink ------------------------------
(***************************************************************************)
(* The C12.18 data link layer (ptcl_codec/ansi/data_link_layer.hpp): a     *)
(* master that brings the link up when there is something to send, sends   *)
(* one message at a time, waits for its reply, repeats it on NAK and on    *)
(* timeout, and takes the link down again when it has been idle.           *)
(*                                                                         *)
(* The class runs in one thread, so each of its functions is one step; the *)
(* frames in the buffer of on_lower_receive are received one by one.  The  *)
(* meter and the line are not part of the repository: the line keeps the   *)
(* order, may lose frames, and the meter answers with the toggle bit of    *)
(* the request.                                                            *)
(***************************************************************************)
EXTENDS Naturals, Sequences

CONSTANTS
    Sdus,        \* messages of the upper layers, each sent at most once
    None,
    MaxResends,  \* MAX_RESEND_TIMES, 3 in the code
    CountRange,  \* the values of i_resend_count, 256 in the code
    Capacity,    \* bound: frames on the line in each direction
    MaxFaults    \* bound: lost and garbled frames, refusals and channel errors

ASSUME DataLinkAssumption ==
    /\ None \notin Sdus
    /\ MaxResends \in Nat
    /\ CountRange \in Nat \ (0..MaxResends)
    /\ Capacity \in Nat
    /\ MaxFaults \in Nat

States == {"BASE", "ID", "SESSION_NORMAL", "SESSION_SECURITY"}
Kinds == {"ident", "logon", "security", "message", "logoff", "terminate"}
Frames == [kind : Kinds, sdu : Sdus \cup {None}, bit : {0, 1}]
NoFrame == [kind |-> "none", sdu |-> None, bit |-> 0]

\* Outcomes of a message: a reply, TIMEOUT_ERR, DEV_NOTIFY_ABN_ERR, another error.
Outcomes == {"reply", "timeout", "abnormal", "channel"}

VARIABLES
    link,      \* the object, with what it hands to the channel in "out"
    fired,     \* expired timers whose handler has not run yet
    toMeter,   \* request frames on the line
    toMaster,  \* answers on the line
    submitted, \* history: the messages handed to send(), in order
    late,      \* history: those handed in while the link was being closed
    faults     \* faults so far

vars == <<link, fired, toMeter, toMaster, submitted, late, faults>>

Init ==
    /\ link = [bit |-> 0, frame |-> NoFrame, sdus |-> <<>>, state |-> "BASE",
               resends |-> 0, timer |-> FALSE, out |-> <<>>,
               tries |-> 0, answers |-> <<>>]
    /\ fired = 0
    /\ toMeter = <<>>
    /\ toMaster = <<>>
    /\ submitted = <<>>
    /\ late = {}
    /\ faults = 0

-----------------------------------------------------------------------------
(* The functions of the class, as functions of the object.                 *)

\* Fault: the timer is not started.
NotTimed(l) == l

\* start_timer: expires_from_now withdraws a timer that is still running.
Timed(l) == [l EXCEPT !.timer = TRUE]

NextKind(l) ==
    IF l.sdus # <<>>
    THEN CASE l.state = "BASE" -> "ident" [] l.state = "ID" -> "logon"
           [] l.state = "SESSION_NORMAL" -> "security" [] OTHER -> "message"
    ELSE IF l.state = "ID" THEN "terminate" ELSE "logoff"

NextFrame(l) ==
    [kind |-> NextKind(l), bit |-> l.bit,
     sdu |-> IF NextKind(l) = "message" THEN Head(l.sdus) ELSE None]

\* send_next_frame
SendNext(l) ==
    IF l.frame # NoFrame \/ (l.sdus = <<>> /\ l.state = "BASE") THEN l
    ELSE Timed([l EXCEPT !.frame = NextFrame(l), !.out = <<NextFrame(l)>>, !.tries = 1])

\* Fault: the count goes on with the next frame.
ClearedFrame(l) == [l EXCEPT !.frame = NoFrame]

Cleared(l) == [l EXCEPT !.frame = NoFrame, !.resends = 0]

\* Fault: an answered message stays in the queue.
StillQueued(sdus) == sdus

WithoutFirst(sdus) == Tail(sdus)

Error(outcome) == [outcome |-> outcome, to |-> NoFrame]

\* The frame is done, but not the message.
NoAnswer == Error("none")

\* finish_sending_cur_frame.  "more" is what receive() sends from inside the call.
Finish(l, answer, more) ==
    IF answer = NoAnswer \/ l.sdus = <<>>
    THEN SendNext(Cleared(l))
    ELSE LET popped == [Cleared(l) EXCEPT
                            !.sdus = WithoutFirst(@ \o more),
                            !.answers = Append(@, [sdu |-> Head(l.sdus), to |-> answer.to,
                                                   outcome |-> answer.outcome])]
         IN  IF popped.sdus = <<>> THEN Timed(popped) ELSE SendNext(popped)

\* resend_cur_frame
Resend(l) ==
    IF l.frame = NoFrame THEN l
    ELSE Timed([l EXCEPT !.out = <<l.frame>>, !.resends = (@ + 1) % CountRange,
                         !.tries = @ + 1])

\* Fault: the toggle bit counts on.
ToggledTwice(l) == [l EXCEPT !.bit = @ + 1]

\* Fault: the toggle bit of an accepted frame is not taken over.
BitKept(l) == l

Toggled(l) == [l EXCEPT !.bit = 1 - @]

InState(l, s) == [l EXCEPT !.state = s]

\* Fault: the state goes up whether messages wait or not.
UpAlways(l) ==
    CASE l.state = "BASE" -> "ID" [] l.state = "ID" -> "SESSION_NORMAL"
      [] OTHER -> "SESSION_SECURITY"

\* The state after a positive response, by whether messages wait.
Up(l) ==
    CASE l.state = "BASE" -> IF l.sdus = <<>> THEN "BASE" ELSE "ID"
      [] l.state = "ID" -> IF l.sdus = <<>> THEN "BASE" ELSE "SESSION_NORMAL"
      [] l.state = "SESSION_NORMAL" -> IF l.sdus = <<>> THEN "ID" ELSE "SESSION_SECURITY"
      [] OTHER -> IF l.sdus = <<>> THEN "ID" ELSE "SESSION_SECURITY"

\* A response with the expected toggle bit.
Response(l, code, to, more) ==
    CASE code = "isss" -> Finish(InState(l, "BASE"), NoAnswer, more)
      [] code = "ok" /\ l.state = "SESSION_SECURITY" /\ l.sdus # <<>> ->
            Finish(l, [outcome |-> "reply", to |-> to], more)
      [] code = "ok" /\ ~(l.state = "SESSION_SECURITY" /\ l.sdus # <<>>) ->
            Finish(InState(l, Up(l)), NoAnswer, more)
      [] code = "error" /\ l.sdus = <<>> -> Finish(InState(l, "BASE"), NoAnswer, more)
      [] OTHER -> Finish(l, Error("abnormal"), more)

-----------------------------------------------------------------------------
(* Steps.                                                                  *)

Unsent == {s \in Sdus : \A i \in 1..Len(submitted) : submitted[i] # s}

\* What an upper layer can hand in from inside receive().
More == {<<>>} \cup {<<s>> : s \in Unsent}

\* The new state of the object; the frame it sent goes on the line if there is room.
Becomes(l, more) ==
    /\ link' = [l EXCEPT !.out = <<>>]
    /\ toMeter' = IF Len(toMeter) + Len(l.out) <= Capacity
                  THEN toMeter \o l.out ELSE toMeter
    /\ submitted' = IF Len(l.answers) > Len(link.answers) THEN submitted \o more
                    ELSE submitted

Closing(f) == f.kind \in {"logoff", "terminate"}

\* Fault: sending is left to the timer.
BegunByTimer(l) == l

Begun(l) == SendNext(l)

\* send()
Send(s) ==
    /\ s \in Unsent
    /\ LET l == [link EXCEPT !.sdus = Append(@, s)]
           next == IF link.sdus = <<>> THEN Begun(l) ELSE l
       IN  /\ link' = [next EXCEPT !.out = <<>>]
           /\ toMeter' = IF Len(toMeter) + Len(next.out) <= Capacity
                         THEN toMeter \o next.out ELSE toMeter
    /\ submitted' = Append(submitted, s)
    /\ late' = IF Closing(link.frame) THEN late \cup {s} ELSE late
    /\ UNCHANGED <<fired, toMaster, faults>>

\* The timer expires: its handler is queued and can no longer be withdrawn.
Expire ==
    /\ link.timer
    /\ link' = [link EXCEPT !.timer = FALSE]
    /\ fired' = fired + 1
    /\ UNCHANGED <<toMeter, toMaster, submitted, late, faults>>

\* handle_timer
TimerHandler ==
    /\ fired > 0
    /\ fired' = fired - 1
    /\ \E more \in More :
          Becomes(CASE link.frame = NoFrame -> SendNext(link)
                    [] link.frame # NoFrame /\ link.resends < MaxResends -> Resend(link)
                    [] OTHER -> Finish(InState(link, "BASE"), Error("timeout"), more),
                  more)
    /\ UNCHANGED <<toMaster, late, faults>>

\* on_lower_sent or on_lower_receive with an error code.
LowerError ==
    /\ faults < MaxFaults
    /\ faults' = faults + 1
    /\ \E more \in More : Becomes(Finish(InState(link, "BASE"), Error("channel"), more), more)
    /\ UNCHANGED <<fired, toMaster, late>>

\* on_lower_receive: an ACK, a NAK, or a response, which is acknowledged and dropped
\* if its toggle bit is not the expected one.
Receive ==
    /\ toMaster # <<>>
    /\ toMaster' = Tail(toMaster)
    /\ LET m == Head(toMaster)
       IN  \E more \in More :
              Becomes(CASE m.type = "ack" -> Timed(link)
                        [] m.type = "nak" -> Resend(link)
                        [] m.type = "response" /\ m.to.bit = link.bit ->
                              Response(Toggled(link), m.code, m.to, more)
                        [] OTHER -> link,
                      more)
    /\ UNCHANGED <<fired, late, faults>>

\* The meter: it accepts the request, asks for it again, or refuses it.
MeterAnswers ==
    /\ toMeter # <<>>
    /\ Len(toMaster) + 2 <= Capacity
    /\ toMeter' = Tail(toMeter)
    /\ \E code \in {"ok", "isss", "error"} :
          /\ IF code = "ok" THEN UNCHANGED faults
             ELSE faults < MaxFaults /\ faults' = faults + 1
          /\ toMaster' = toMaster \o
                <<[type |-> "ack"],
                  [type |-> "response", code |-> code, to |-> Head(toMeter)]>>
    /\ UNCHANGED <<link, fired, submitted, late>>

MeterNaks ==
    /\ toMeter # <<>>
    /\ Len(toMaster) < Capacity
    /\ faults < MaxFaults
    /\ faults' = faults + 1
    /\ toMeter' = Tail(toMeter)
    /\ toMaster' = Append(toMaster, [type |-> "nak"])
    /\ UNCHANGED <<link, fired, submitted, late>>

Lose ==
    /\ faults < MaxFaults
    /\ faults' = faults + 1
    /\ \/ toMeter # <<>> /\ toMeter' = Tail(toMeter) /\ UNCHANGED toMaster
       \/ toMaster # <<>> /\ toMaster' = Tail(toMaster) /\ UNCHANGED toMeter
    /\ UNCHANGED <<link, fired, submitted, late>>

Next ==
    \/ \E s \in Sdus : Send(s)
    \/ Expire \/ TimerHandler \/ LowerError \/ Receive
    \/ MeterAnswers \/ MeterNaks \/ Lose

Spec == Init /\ [][Next]_vars

(***************************************************************************)
(* The thread runs queued handlers and delivers what arrived, and a timer  *)
(* expires.  Nothing makes the meter answer, nor the upper layer send.     *)
(***************************************************************************)
Fairness == WF_vars(Expire) /\ WF_vars(TimerHandler) /\ WF_vars(Receive)
FairSpec == Spec /\ Fairness

-----------------------------------------------------------------------------
(* Properties.                                                             *)

Answers == [sdu : Sdus, outcome : Outcomes, to : Frames \cup {NoFrame}]

\* Every variable has its type, and send_next_frame is the only sender.
TypeOK ==
    /\ link.bit \in {0, 1}
    /\ link.frame \in Frames \cup {NoFrame}
    /\ link.sdus \in Seq(Sdus)
    /\ link.state \in States
    /\ link.resends \in 0..(CountRange - 1)
    /\ link.timer \in BOOLEAN
    /\ link.out = <<>>
    /\ link.tries \in Nat
    /\ link.answers \in Seq(Answers)
    /\ fired \in Nat
    /\ toMeter \in Seq(Frames)
    /\ submitted \in Seq(Sdus)
    /\ late \subseteq Sdus

Belongs(a) ==
    a.outcome = "reply" => a.to.kind = "message" /\ a.to.sdu = a.sdu

\* Whatever is lost, repeated, refused or answered too late, a reply handed to an
\* upper layer (on_lower_receive) is the meter's reply to that very message; the
\* messages handed in while the link is being closed are the exception.
RepliesBelong ==
    \A i \in 1..Len(link.answers) :
        link.answers[i].sdu \in late \/ Belongs(link.answers[i])

\* The same without the exception: "the link layer works by one question and one
\* answer".
OneQuestionOneAnswer == \A i \in 1..Len(link.answers) : Belongs(link.answers[i])

\* As long as a frame or a message waits or the link is up, a timer is running or its
\* handler is queued: nothing but the line's silence is ever waited for.
NeverStuck ==
    link.frame # NoFrame \/ link.sdus # <<>> \/ link.state # "BASE"
        => link.timer \/ fired > 0

\* A message is given up for a timeout only after its frame was sent the first time
\* and MAX_RESEND_TIMES again: no frame inherits the count of an earlier one.
GivesUpAfterAllTries ==
    [][\A i \in 1..Len(link'.answers) :
          i > Len(link.answers) /\ link'.answers[i].outcome = "timeout"
              => link.tries > MaxResends]_vars

Service == INSTANCE LinkService WITH
    results <- [i \in 1..Len(link.answers) |->
                   [sdu |-> link.answers[i].sdu, outcome |-> link.answers[i].outcome]]

\* One receive() for each send(), in the order of the messages, also for those that
\* are handed in from inside receive().
ImplementsLinkService == Service!Spec

IsSubmitted(s) == \E i \in 1..Len(submitted) : submitted[i] = s
IsAnswered(s) == \E i \in 1..Len(link.answers) : link.answers[i].sdu = s

\* Every message gets its answer, be it an error, also when the meter falls silent for
\* good: no fairness makes it take a request.  A meter that sent NAKs without end would
\* keep a frame alive for ever, because resend_cur_frame counts them and looks at no
\* limit; MaxFaults leaves that out.
EverySduIsAnswered == \A s \in Sdus : IsSubmitted(s) ~> IsAnswered(s)

AtRest == link.state = "BASE" /\ link.frame = NoFrame /\ link.sdus = <<>>

\* When the upper layers have nothing more to send, the link is taken down.
LinkComesToRest == <>[]AtRest
=============================================================================
