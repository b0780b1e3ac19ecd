--------------------------- MODULE HostCmdProofs ---------------------------
(***************************************************************************)
(* Proofs about HostCmd, for any commands and any number of calls and      *)
(* traps, and about HostLife, for any devices, contexts and receive        *)
(* transfers.  For HostCmd the inductive invariant follows the one answer  *)
(* of a call that began with none outstanding (Clean): from the device     *)
(* over the completed transfers and the callback into the buffer, and      *)
(* never past the completion of the command's own transfer.  For HostLife  *)
(* (LifeInv) it says who is in use, listed, owned and served while main    *)
(* goes from the probe of one context to the next and back.                *)
(***************************************************************************)
EXTENDS MCHost, QueueLemmas, TLAPS

SomeEvent == \E i \in 1 .. Len(events) : IsAnswer(events[i])
InHand == handling.type \in {"answer", "signal"}

(* Only this call's answer is under way, and it is in one place.           *)
OneAnswer ==
  /\ \A i \in 1 .. Len(device) : device[i] = cmd
  /\ \A i \in 1 .. Len(events) : IsAnswer(events[i]) => events[i] = cmd
  /\ IsAnswer(handling) => handling = cmd
  /\ Len(device) <= 1
  /\ \A m, i \in 1 .. Len(events) : IsAnswer(events[m]) /\ IsAnswer(events[i]) => m = i
  /\ device # <<>> => ~SomeEvent
  /\ device # <<>> \/ SomeEvent => ~InHand

(* The answer comes behind the completion of the transfer.                 *)
Behind ==
  /\ transfer = "pending" => ~Outstanding
  /\ transfer = "completed" =>
       /\ ~InHand
       /\ \E m \in 1 .. Len(events) :
            /\ IsCompletion(events[m])
            /\ \A i \in 1 .. Len(events) : IsAnswer(events[i]) => m < i

(* The buffer waits for it with enough room.                               *)
Room ==
  /\ pc \in {"submit", "waiting"}
  /\ transfer = "pending" \/ device # <<>> \/ SomeEvent \/ IsAnswer(handling)
  => resp_buf = call /\ resp_len # 0 /\ resp_len >= cmd.len

(* Signal and success stand for the answer in the buffer.                  *)
Answered ==
  /\ handling.type = "signal" => pc # "submit"
  /\ \/ handling.type = "signal" /\ pc = "waiting"
     \/ pc = "woken"
     \/ pc = "idle" /\ ret = "ok"
     => got = call /\ resp_buf = 0

Clean == ~dirty => OneAnswer /\ Behind /\ Room /\ Answered

Current ==
  /\ call > 0 => cmd.type = "answer" /\ cmd.id = call
  /\ call = 0 => pc = "idle" /\ transfer # "pending" /\ device = <<>>

(* A buffer filled before the wait was filled by the caller itself.        *)
FilledEarly == pc = "submit" /\ resp_buf = 0 => early

IInv ==
  /\ TypeOK
  /\ Current
  /\ Clean
  /\ FilledEarly
  /\ NoLostSignal
  /\ BufferTakenBack
-----------------------------------------------------------------------------
(* The types the queue lemmas are used with.                               *)
Answers == Events({"answer"})
Completed == Events({"done", "failed", "answer", "trap"})

(* Nothing outstanding, in the terms of the invariant.                     *)
LEMMA OutstandingWhere == Outstanding <=> device # <<>> \/ SomeEvent \/ InHand
BY DEF Outstanding, SomeEvent, InHand, IsAnswer

(* What the first of the completed transfers leaves behind.                *)
LEMMA EventPopped ==
  ASSUME TypeOK, events # <<>>, events' = Tail(events)
  PROVE  /\ Head(events) \in Completed /\ Head(events) = events[1]
         /\ events' \in Seq(Completed)
         /\ Len(events) \in Nat \ {0}
         /\ Len(events') = Len(events) - 1
         /\ \A i \in 1 .. Len(events') : events'[i] = events[i + 1]
<1>1. events \in Seq(Completed)
  BY DEF TypeOK, Completed
<1> QED
  BY <1>1, Popped

(* What one more completed transfer leaves as it was.                      *)
LEMMA EventPushed ==
  ASSUME TypeOK, NEW e \in Completed, events' = Append(events, e)
  PROVE  /\ events' \in Seq(Completed)
         /\ Len(events) \in Nat
         /\ Len(events') = Len(events) + 1
         /\ \A i \in 1 .. Len(events) : events'[i] = events[i]
         /\ events'[Len(events) + 1] = e
<1>1. events \in Seq(Completed)
  BY DEF TypeOK, Completed
<1> QED
  BY <1>1, Pushed

(* Nothing is called, sent or answered at first.                           *)
LEMMA InitIInv == Init => IInv
<1> SUFFICES ASSUME Init PROVE IInv
  OBVIOUS
<1>1. Len(device) = 0 /\ Len(events) = 0
  BY EmptySeq DEF Init
<1>2. TypeOK
  <2>1. device \in Seq(Events({"answer"}))
    BY EmptySeq DEF Init
  <2>2. events \in Seq(Events({"done", "failed", "answer", "trap"}))
    BY EmptySeq DEF Init
  <2>3. cmd \in Events({"none", "answer"}) /\ handling \in Events({"none", "answer", "signal", "trap"})
    BY HostCmdAssumption DEF Init, None, Event, Events
  <2>4. /\ pc = "idle" /\ ret = "none" /\ transfer = "done"
        /\ reaping = FALSE /\ dirty = FALSE /\ early = FALSE
    BY DEF Init
  <2>5. /\ call \in 0 .. MaxCalls /\ resp_buf \in 0 .. MaxCalls /\ got \in 0 .. MaxCalls
        /\ resp_len \in Nat /\ traps \in 0 .. MaxTraps
    BY HostCmdAssumption DEF Init
  <2> QED
    BY <2>1, <2>2, <2>3, <2>4, <2>5 DEF TypeOK
<1>3. Current /\ FilledEarly /\ NoLostSignal /\ BufferTakenBack
  BY DEF Init, Current, FilledEarly, NoLostSignal, BufferTakenBack
<1>4. ~SomeEvent /\ ~InHand
  BY <1>1 DEF Init, SomeEvent, InHand, None, Event
<1>5. Clean
  BY <1>1, <1>4
     DEF Init, Clean, OneAnswer, Behind, Room, Answered, IsAnswer, None, Event
<1> QED
  BY <1>2, <1>3, <1>5 DEF IInv

(* A call begins: it is clean only if nothing is outstanding.              *)
LEMMA CallStep ==
  ASSUME IInv, NEW k \in Kinds, Call(k)
  PROVE  IInv'
<1>1. call \in Nat /\ call + 1 \in 1 .. MaxCalls /\ k.rlen \in Nat \ {0} /\ k.alen \in Nat /\ k.alen <= k.rlen
  BY HostCmdAssumption DEF IInv, TypeOK, Call
<1>2. cmd' \in Events({"none", "answer"})
  BY <1>1 DEF Call, Event, Events
<1>3. TypeOK'
  <2>1. dirty' \in BOOLEAN
    BY Zenon DEF Call, Outstanding
  <2>2. /\ pc' = "submit" /\ call' = call + 1 /\ resp_buf' = call + 1 /\ resp_len' = k.rlen
        /\ got' = 0 /\ transfer' = "pending" /\ early' = FALSE
        /\ UNCHANGED <<ret, reaping, device, events, traps, handling>>
    BY DEF Call, usb
  <2>3. call' \in 0 .. MaxCalls /\ resp_buf' \in 0 .. MaxCalls /\ got' \in 0 .. MaxCalls /\ resp_len' \in Nat
    BY <1>1, <2>2, HostCmdAssumption
  <2>4. TypeOK
    BY DEF IInv
  <2>5. pc' = "submit" /\ transfer' = "pending" /\ early' = FALSE
    BY <2>2
  <2>6. UNCHANGED <<ret, reaping, device, events, traps, handling>>
    BY <2>2
  <2> QED
    BY <1>2, <2>1, <2>3, <2>4, <2>5, <2>6 DEF TypeOK
<1>4. Current' /\ FilledEarly' /\ NoLostSignal' /\ BufferTakenBack'
  <2>1. call' # 0 /\ resp_buf' # 0 /\ pc' = "submit"
    BY <1>1 DEF Call
  <2>2. cmd'.type = "answer" /\ cmd'.id = call'
    BY DEF Call, Event
  <2> QED
    BY <2>1, <2>2 DEF Current, FilledEarly, NoLostSignal, BufferTakenBack
<1>5. Clean'
  <2> SUFFICES ASSUME ~dirty' PROVE (OneAnswer /\ Behind /\ Room /\ Answered)'
    BY DEF Clean
  <2>1. ~Outstanding /\ device = <<>> /\ ~SomeEvent /\ ~InHand
    BY OutstandingWhere DEF Call
  <2>2. UNCHANGED <<device, events, handling>>
    BY DEF Call, usb
  <2>3. (~Outstanding)' /\ (device = <<>>)' /\ (~SomeEvent)' /\ (~InHand)'
    BY <2>1, <2>2 DEF Outstanding, SomeEvent, InHand, IsAnswer
  <2>4. Len(device') = 0
    BY <2>3, EmptySeq
  <2>5. OneAnswer'
    BY <2>3, <2>4 DEF OneAnswer, SomeEvent, InHand, IsAnswer
  <2>6. Behind' /\ Answered'
    BY <2>3 DEF Behind, Answered, Call, InHand
  <2>7. Room'
    BY <1>1 DEF Room, Call, Event
  <2> QED
    BY <2>5, <2>6, <2>7
<1> QED
  BY <1>3, <1>4, <1>5 DEF IInv

(* Where the answer is does not depend on the caller.                      *)
LEMMA SamePlace ==
  ASSUME UNCHANGED <<cmd, device, events, handling, transfer>>
  PROVE  /\ SomeEvent' <=> SomeEvent
         /\ OneAnswer => OneAnswer'
         /\ Behind => Behind'
BY DEF OneAnswer, Behind, SomeEvent, InHand, IsAnswer, IsCompletion, Outstanding

(* The transfer is over, the wait is over, or the call returns.            *)
LEMMA CallerStep ==
  ASSUME IInv, Caller
  PROVE  IInv'
<1>1. UNCHANGED <<call, cmd, dirty, got, device, events, traps, transfer, handling, early>>
  BY DEF Caller, SubmitFailed, Submitted, TimedOut, Succeed, TimeOut, usb, buffer
<1>2. TypeOK'
  <2>1. TypeOK
    BY DEF IInv
  <2>2. pc' \in {"idle", "submit", "waiting", "woken", "timedout"}
    BY DEF Caller, SubmitFailed, Submitted, TimedOut, Succeed, TimeOut
  <2>3. ret' \in {"none", "ok", "failed", "timeout"}
    BY <2>1 DEF TypeOK, Caller, SubmitFailed, Submitted, TimedOut, Succeed, TimeOut
  <2>4. resp_buf' \in 0 .. MaxCalls /\ resp_len' \in Nat
    BY <2>1, HostCmdAssumption
       DEF TypeOK, Caller, SubmitFailed, Submitted, TimedOut, Succeed, TimeOut, buffer
  <2>5. reaping' \in BOOLEAN
    BY <2>1, Zenon DEF TypeOK, Caller, SubmitFailed, Submitted, TimedOut, Succeed, TimeOut
  <2> QED
    BY <1>1, <2>1, <2>2, <2>3, <2>4, <2>5 DEF TypeOK
<1>3. Current'
  BY <1>1 DEF IInv, Current, Caller, SubmitFailed, Submitted, TimedOut, Succeed, TimeOut
<1>4. FilledEarly' /\ NoLostSignal'
  BY <1>1 DEF IInv, FilledEarly, NoLostSignal, buffer,
              Caller, SubmitFailed, Submitted, TimedOut, Succeed, TimeOut
<1>5. Clean'
  <2> SUFFICES ASSUME ~dirty PROVE (OneAnswer /\ Behind /\ Room /\ Answered)'
    BY <1>1 DEF Clean
  <2>1. OneAnswer /\ Behind /\ Room /\ Answered
    BY DEF IInv, Clean
  <2>2. OneAnswer' /\ Behind' /\ (SomeEvent' <=> SomeEvent)
    BY <1>1, <2>1, SamePlace
  <2>3. Room'
    BY <1>1, <2>1, <2>2
       DEF Room, IsAnswer, buffer, Caller, SubmitFailed, Submitted, TimedOut, Succeed, TimeOut
  <2>4. Answered'
    BY <1>1, <2>1
       DEF Answered, buffer, Caller, SubmitFailed, Submitted, TimedOut, Succeed, TimeOut
  <2> QED
    BY <2>2, <2>3, <2>4
<1>6. BufferTakenBack'
  BY <1>1 DEF IInv, Clean, Answered, BufferTakenBack, buffer,
              Caller, SubmitFailed, Submitted, TimedOut, Succeed, TimeOut
<1> QED
  BY <1>2, <1>3, <1>4, <1>5, <1>6 DEF IInv

(* The event thread signals, or is done with a message nobody asked for.   *)
LEMMA CallbackEndStep ==
  ASSUME IInv, CondSignal \/ HandleTrap
  PROVE  IInv'
<1>1. UNCHANGED <<call, cmd, ret, dirty, resp_buf, resp_len, got,
                  device, events, traps, transfer, reaping, early>>
  BY DEF CondSignal, HandleTrap, caller, usb, buffer
<1>2. /\ handling' = None /\ ~InHand' /\ ~IsAnswer(handling) /\ ~IsAnswer(handling')
      /\ handling'.type = "none"
  BY DEF CondSignal, HandleTrap, InHand, IsAnswer, None, Event
<1>3. \/ pc' = pc /\ (pc # "waiting" \/ handling.type = "trap")
      \/ pc = "waiting" /\ pc' = "woken" /\ handling.type = "signal"
  BY DEF CondSignal, HandleTrap, caller
<1>4. TypeOK'
  <2>1. TypeOK
    BY DEF IInv
  <2>2. handling' \in Events({"none", "answer", "signal", "trap"})
    BY <1>2, HostCmdAssumption DEF None, Event, Events
  <2> QED
    BY <1>1, <1>3, <2>1, <2>2 DEF TypeOK
<1>5. Current'
  BY <1>1, <1>3 DEF IInv, Current
<1>6. FilledEarly' /\ NoLostSignal' /\ BufferTakenBack'
  BY <1>1, <1>3 DEF IInv, FilledEarly, NoLostSignal, BufferTakenBack
<1>7. Clean'
  <2> SUFFICES ASSUME ~dirty PROVE (OneAnswer /\ Behind /\ Room /\ Answered)'
    BY <1>1 DEF Clean
  <2>1. OneAnswer /\ Behind /\ Room /\ Answered
    BY DEF IInv, Clean
  <2>2. SomeEvent' <=> SomeEvent
    BY <1>1 DEF SomeEvent, IsAnswer
  <2>3. OneAnswer'
    BY <1>1, <1>2, <2>1, <2>2 DEF OneAnswer, IsAnswer
  <2>4. Behind'
    <3>1. transfer' = "pending" => ~Outstanding'
      BY <1>1, <1>2, <2>1 DEF Behind, Outstanding, InHand
    <3> QED
      BY <1>1, <1>2, <2>1, <3>1 DEF Behind, IsAnswer, IsCompletion
  <2>5. Room'
    BY <1>1, <1>2, <1>3, <2>1, <2>2 DEF Room
  <2>6. Answered'
    BY <1>1, <1>2, <1>3, <2>1 DEF Answered
  <2> QED
    BY <2>3, <2>4, <2>5, <2>6
<1> QED
  BY <1>4, <1>5, <1>6, <1>7 DEF IInv

(* The event thread stores the answer: the caller does not hold the lock.  *)
LEMMA HandleCommandStep ==
  ASSUME IInv, HandleCommand
  PROVE  IInv'
<1>1. UNCHANGED <<pc, call, cmd, ret, dirty, device, events, traps, transfer, reaping, early, resp_len>>
  BY DEF HandleCommand, Store, caller, usb, buffer
<1>2. /\ handling.type = "answer" /\ pc # "submit"
      /\ handling' = Event("signal", 0, 0) /\ handling'.type = "signal" /\ InHand' /\ InHand
  BY DEF HandleCommand, IsAnswer, Locked, InHand, Event
<1>3. IF Fits(handling)
      THEN resp_buf' = 0 /\ got' = handling.id
      ELSE resp_buf' = resp_buf /\ got' = got
  BY DEF HandleCommand, Store, buffer
<1>4. TypeOK'
  <2>1. TypeOK
    BY DEF IInv
  <2>2. handling' \in Events({"none", "answer", "signal", "trap"})
    BY <1>2, HostCmdAssumption DEF Event, Events
  <2>3. handling.id \in 0 .. MaxCalls
    BY <2>1 DEF TypeOK, Events
  <2>4. resp_buf' \in 0 .. MaxCalls /\ got' \in 0 .. MaxCalls
    BY <1>3, <2>1, <2>3, HostCmdAssumption DEF TypeOK
  <2> QED
    BY <1>1, <2>1, <2>2, <2>4 DEF TypeOK
<1>5. Current'
  BY <1>1 DEF IInv, Current
<1>6. FilledEarly' /\ NoLostSignal' /\ BufferTakenBack'
  BY <1>1, <1>2, <1>3 DEF IInv, FilledEarly, NoLostSignal, BufferTakenBack
<1>7. Clean'
  <2> SUFFICES ASSUME ~dirty PROVE (OneAnswer /\ Behind /\ Room /\ Answered)'
    BY <1>1 DEF Clean
  <2>1. OneAnswer /\ Behind /\ Room /\ Answered
    BY DEF IInv, Clean
  <2>2. handling = cmd /\ device = <<>> /\ ~SomeEvent /\ ~SomeEvent'
    BY <1>1, <1>2, <2>1 DEF OneAnswer, SomeEvent, IsAnswer
  <2>3. OneAnswer'
    BY <1>1, <1>2, <2>1, <2>2 DEF OneAnswer, IsAnswer
  <2>4. transfer \notin {"pending", "completed"}
    BY <1>2, <2>1, OutstandingWhere DEF Behind
  <2>5. Behind'
    BY <1>1, <2>4 DEF Behind
  <2>6. Room'
    BY <1>1, <1>2, <2>2, <2>4 DEF Room, IsAnswer
  <2>7. Answered'
    <3>1. CASE pc = "waiting"
      <4>1. resp_buf = call /\ resp_len # 0 /\ resp_len >= handling.len
        BY <1>2, <2>1, <2>2, <3>1 DEF Room, IsAnswer
      <4>2. call # 0 /\ cmd.id = call
        BY <3>1 DEF IInv, TypeOK, Current
      <4> QED
        BY <1>1, <1>2, <1>3, <2>2, <3>1, <4>1, <4>2 DEF Answered, Fits
    <3>2. CASE pc # "waiting"
      BY <1>1, <1>2, <1>3, <2>1, <3>2 DEF Answered, Fits
    <3> QED
      BY <3>1, <3>2
  <2> QED
    BY <2>3, <2>5, <2>6, <2>7
<1> QED
  BY <1>4, <1>5, <1>6, <1>7 DEF IInv
-----------------------------------------------------------------------------
(* The events as the invariant sees them.                                  *)
OwnEvents == \A i \in 1 .. Len(events) : IsAnswer(events[i]) => events[i] = cmd
SingleEvent ==
  \A m, i \in 1 .. Len(events) : IsAnswer(events[m]) /\ IsAnswer(events[i]) => m = i
Ahead ==
  \E m \in 1 .. Len(events) :
    /\ IsCompletion(events[m])
    /\ \A i \in 1 .. Len(events) : IsAnswer(events[i]) => m < i

(* A completed transfer that is no answer changes nothing for the answer.  *)
LEMMA OtherPushed ==
  ASSUME TypeOK, NEW e \in Completed, ~IsAnswer(e), events' = Append(events, e), cmd' = cmd
  PROVE  /\ SomeEvent' <=> SomeEvent
         /\ OwnEvents => OwnEvents'
         /\ SingleEvent => SingleEvent'
         /\ Ahead => Ahead'
         /\ IsCompletion(e) /\ ~SomeEvent => Ahead'
<1>1. /\ Len(events) \in Nat
      /\ Len(events') = Len(events) + 1
      /\ \A i \in 1 .. Len(events) : events'[i] = events[i]
      /\ events'[Len(events) + 1] = e
  BY EventPushed
<1>2. \A i \in 1 .. Len(events') :
        IsAnswer(events'[i]) => i \in 1 .. Len(events) /\ IsAnswer(events[i]) /\ events'[i] = events[i]
  BY <1>1
<1>3. \A i \in 1 .. Len(events) : i \in 1 .. Len(events') /\ events'[i] = events[i]
  BY <1>1
<1>4. Len(events) + 1 \in 1 .. Len(events') /\ events'[Len(events) + 1] = e
  BY <1>1
<1>5. SomeEvent' <=> SomeEvent
  BY <1>2, <1>3 DEF SomeEvent, IsAnswer
<1>6. (OwnEvents => OwnEvents') /\ (SingleEvent => SingleEvent')
  BY <1>2 DEF OwnEvents, SingleEvent, IsAnswer
<1>7. Ahead => Ahead'
  BY <1>2, <1>3 DEF Ahead, IsAnswer, IsCompletion
<1>8. IsCompletion(e) /\ ~SomeEvent => Ahead'
  BY <1>4, <1>5 DEF Ahead, SomeEvent, IsAnswer, IsCompletion
<1> QED
  BY <1>5, <1>6, <1>7, <1>8

(* The first answer pushed is the only one, and behind what was there.     *)
LEMMA AnswerPushed ==
  ASSUME TypeOK, NEW e \in Completed, e = cmd, IsAnswer(e), ~SomeEvent,
         events' = Append(events, e), cmd' = cmd
  PROVE  SomeEvent' /\ OwnEvents' /\ SingleEvent' /\ (Ahead => Ahead')
<1>1. /\ Len(events) \in Nat
      /\ Len(events') = Len(events) + 1
      /\ \A i \in 1 .. Len(events) : events'[i] = events[i]
      /\ events'[Len(events) + 1] = e
  BY EventPushed
<1>2. \A i \in 1 .. Len(events') : IsAnswer(events'[i]) => i = Len(events) + 1
  BY <1>1 DEF SomeEvent
<1>3. Len(events) + 1 \in 1 .. Len(events')
  BY <1>1
<1>4. SomeEvent' /\ OwnEvents' /\ SingleEvent'
  BY <1>1, <1>2, <1>3 DEF SomeEvent, OwnEvents, SingleEvent, IsAnswer
<1>5. ASSUME Ahead PROVE Ahead'
  <2>1. PICK m \in 1 .. Len(events) : IsCompletion(events[m])
    BY <1>5 DEF Ahead
  <2>2. m \in 1 .. Len(events') /\ IsCompletion(events'[m]) /\ m < Len(events) + 1
    BY <1>1, <2>1
  <2> QED
    BY <1>2, <2>2 DEF Ahead, IsAnswer, IsCompletion
<1> QED
  BY <1>4, <1>5

(* Taking the first event leaves the others in order.                      *)
LEMMA AnyPopped ==
  ASSUME TypeOK, events # <<>>, events' = Tail(events), cmd' = cmd
  PROVE  /\ OwnEvents => OwnEvents'
         /\ SingleEvent => SingleEvent'
         /\ IsAnswer(Head(events)) => SomeEvent
         /\ ~IsAnswer(Head(events)) => (SomeEvent' <=> SomeEvent)
         /\ IsAnswer(Head(events)) /\ SingleEvent => ~SomeEvent'
         /\ Ahead => ~IsAnswer(Head(events))
         /\ Ahead /\ ~IsCompletion(Head(events)) => Ahead'
         /\ OwnEvents /\ IsAnswer(Head(events)) => Head(events) = cmd
<1>1. /\ Head(events) = events[1]
      /\ Len(events) \in Nat \ {0}
      /\ Len(events') = Len(events) - 1
      /\ \A i \in 1 .. Len(events') : events'[i] = events[i + 1]
  BY EventPopped
<1>2. \A i \in 1 .. Len(events') : i + 1 \in 1 .. Len(events) /\ events'[i] = events[i + 1]
  BY <1>1
<1>3. \A i \in 1 .. Len(events) :
        i # 1 => i - 1 \in 1 .. Len(events') /\ events'[i - 1] = events[i]
  BY <1>1
<1>4. 1 \in 1 .. Len(events) /\ Head(events) = events[1]
  BY <1>1
<1>5. (OwnEvents => OwnEvents') /\ (IsAnswer(Head(events)) => SomeEvent)
  BY <1>2, <1>4 DEF OwnEvents, SomeEvent, IsAnswer
<1>6. SingleEvent => SingleEvent'
  <2> SUFFICES ASSUME SingleEvent, NEW m \in 1 .. Len(events'), NEW i \in 1 .. Len(events'),
                      IsAnswer(events'[m]), IsAnswer(events'[i])
               PROVE  m = i
    BY DEF SingleEvent, IsAnswer
  <2>1. m + 1 = i + 1
    BY <1>2 DEF SingleEvent
  <2> QED
    BY <2>1, <1>1
<1>7. ~IsAnswer(Head(events)) => (SomeEvent' <=> SomeEvent)
  <2>1. SomeEvent' => SomeEvent
    BY <1>2 DEF SomeEvent, IsAnswer
  <2>2. ASSUME ~IsAnswer(Head(events)), SomeEvent PROVE SomeEvent'
    <3>1. PICK i \in 1 .. Len(events) : IsAnswer(events[i])
      BY <2>2 DEF SomeEvent
    <3>2. i # 1
      BY <1>4, <2>2, <3>1
    <3>3. i - 1 \in 1 .. Len(events') /\ IsAnswer(events'[i - 1])
      BY <1>3, <3>1, <3>2
    <3> QED
      BY <3>3 DEF SomeEvent, IsAnswer
  <2> QED
    BY <2>1, <2>2
<1>8. IsAnswer(Head(events)) /\ SingleEvent => ~SomeEvent'
  <2> SUFFICES ASSUME IsAnswer(Head(events)), SingleEvent,
                      NEW i \in 1 .. Len(events'), IsAnswer(events'[i])
               PROVE  FALSE
    BY DEF SomeEvent, IsAnswer
  <2>1. i + 1 = 1
    BY <1>2, <1>4 DEF SingleEvent
  <2> QED
    BY <2>1, <1>1
<1>9. Ahead => ~IsAnswer(Head(events))
  BY <1>1, <1>4 DEF Ahead
<1>10. ASSUME Ahead, ~IsCompletion(Head(events)) PROVE Ahead'
  <2>1. PICK m \in 1 .. Len(events) :
          /\ IsCompletion(events[m])
          /\ \A i \in 1 .. Len(events) : IsAnswer(events[i]) => m < i
    BY <1>10 DEF Ahead
  <2>2. m - 1 \in 1 .. Len(events') /\ IsCompletion(events'[m - 1])
    BY <1>3, <1>4, <1>10, <2>1
  <2>3. \A i \in 1 .. Len(events') : IsAnswer(events'[i]) => m - 1 < i
    BY <1>1, <1>2, <2>1
  <2> QED
    BY <2>2, <2>3 DEF Ahead, IsAnswer, IsCompletion
<1>11. OwnEvents /\ IsAnswer(Head(events)) => Head(events) = cmd
  BY <1>4 DEF OwnEvents
<1> QED
  BY <1>5, <1>6, <1>7, <1>8, <1>9, <1>10, <1>11

(* The invariant of the answer in these terms.                             *)
LEMMA InTerms ==
  /\ OneAnswer <=>
       /\ \A i \in 1 .. Len(device) : device[i] = cmd
       /\ OwnEvents
       /\ IsAnswer(handling) => handling = cmd
       /\ Len(device) <= 1
       /\ SingleEvent
       /\ device # <<>> => ~SomeEvent
       /\ device # <<>> \/ SomeEvent => ~InHand
  /\ Behind <=>
       /\ transfer = "pending" => device = <<>> /\ ~SomeEvent /\ ~InHand
       /\ transfer = "completed" => ~InHand /\ Ahead
BY OutstandingWhere DEF OneAnswer, OwnEvents, SingleEvent, Behind, Ahead

LEMMA InTermsNext ==
  /\ OneAnswer' <=>
       /\ \A i \in 1 .. Len(device') : device'[i] = cmd'
       /\ OwnEvents'
       /\ IsAnswer(handling') => handling' = cmd'
       /\ Len(device') <= 1
       /\ SingleEvent'
       /\ device' # <<>> => ~SomeEvent'
       /\ device' # <<>> \/ SomeEvent' => ~InHand'
  /\ Behind' <=>
       /\ transfer' = "pending" => device' = <<>> /\ ~SomeEvent' /\ ~InHand'
       /\ transfer' = "completed" => ~InHand' /\ Ahead'
BY DEF OneAnswer, OwnEvents, SingleEvent, Behind, Ahead, Outstanding, SomeEvent, InHand, IsAnswer

(* The caller's part of the invariant in a step that moves events only.    *)
LEMMA CallerKept ==
  ASSUME IInv, UNCHANGED <<caller, buffer, early>>, IsAnswer(handling) => IsAnswer(handling'),
         handling'.type = "signal" <=> handling.type = "signal",
         call = 0 => transfer' # "pending" /\ device' = <<>>
  PROVE  /\ Current' /\ FilledEarly' /\ NoLostSignal' /\ BufferTakenBack'
         /\ dirty' <=> dirty
         /\ Answered => Answered'
BY DEF IInv, caller, buffer, Current, FilledEarly, NoLostSignal, BufferTakenBack, Answered

(* The device takes the command or the transfer fails.                     *)
LEMMA TransferStep ==
  ASSUME IInv, Deliver \/ Fail
  PROVE  IInv'
<1>1. PICK e \in {Event("done", 0, 0), Event("failed", 0, 0)} :
        /\ events' = Append(events, e)
        /\ device' \in {device, Append(device, cmd)}
  BY DEF Deliver, Fail
<1>2. /\ UNCHANGED <<caller, buffer, traps, reaping, handling, early>>
      /\ transfer = "pending" /\ transfer' = "completed" /\ cmd' = cmd
  BY DEF Deliver, Fail, caller
<1>3. e \in Completed /\ ~IsAnswer(e) /\ IsCompletion(e)
  BY HostCmdAssumption DEF Event, Events, Completed, IsAnswer, IsCompletion
<1>4. call # 0 /\ cmd \in Answers
  BY <1>2 DEF IInv, Current, TypeOK, Events, Answers
<1>5. /\ Append(device, cmd) \in Seq(Answers) /\ Append(device, cmd) # <<>>
      /\ Len(Append(device, cmd)) = Len(device) + 1
      /\ Append(device, cmd)[Len(device) + 1] = cmd
  <2>1. device \in Seq(Answers)
    BY DEF IInv, TypeOK, Answers
  <2> QED
    BY <1>4, <2>1, Pushed
<1>6. TypeOK'
  <2>1. TypeOK
    BY DEF IInv
  <2>2. events' \in Seq(Completed)
    BY <1>1, <1>3, <2>1, EventPushed
  <2>3. device' \in Seq(Answers)
    BY <1>1, <1>5, <2>1 DEF TypeOK, Answers
  <2> QED
    BY <1>2, <2>1, <2>2, <2>3 DEF TypeOK, Completed, Answers, caller, buffer
<1>7. /\ Current' /\ FilledEarly' /\ NoLostSignal' /\ BufferTakenBack'
      /\ dirty' <=> dirty
      /\ Answered => Answered'
  BY <1>2, <1>4, CallerKept DEF caller
<1>8. Clean'
  <2> SUFFICES ASSUME ~dirty PROVE (OneAnswer /\ Behind /\ Room /\ Answered)'
    BY <1>7 DEF Clean
  <2>1. OneAnswer /\ Behind /\ Room /\ Answered
    BY DEF IInv, Clean
  <2>2. device = <<>> /\ ~SomeEvent /\ ~InHand /\ OwnEvents /\ SingleEvent
    BY <1>2, <2>1, InTerms
  <2>3. ~SomeEvent' /\ OwnEvents' /\ SingleEvent' /\ Ahead'
    BY <1>1, <1>2, <1>3, <2>2, OtherPushed DEF IInv
  <2>4. Len(device') <= 1 /\ \A i \in 1 .. Len(device') : device'[i] = cmd
    <3>1. Len(device) = 0
      BY <2>2, EmptySeq
    <3>2. CASE device' = device
      BY <3>1, <3>2
    <3>3. CASE device' = Append(device, cmd)
      <4>1. Len(device') = 1 /\ device'[1] = cmd
        BY <1>5, <3>1, <3>3
      <4> QED
        BY <4>1
    <3> QED
      BY <1>1, <3>2, <3>3
  <2>5. ~InHand' /\ ~IsAnswer(handling')
    BY <1>2, <2>2 DEF InHand, IsAnswer
  <2>6. OneAnswer' /\ Behind'
    BY <1>2, <2>3, <2>4, <2>5, InTermsNext
  <2>7. Room'
    BY <1>2, <2>1 DEF Room, caller, buffer
  <2> QED
    BY <1>7, <2>1, <2>6, <2>7
<1> QED
  BY <1>6, <1>7, <1>8 DEF IInv

(* The firmware sends a message nobody asked for.                          *)
LEMMA SendTrapStep ==
  ASSUME IInv, SendTrap
  PROVE  IInv'
<1>1. /\ UNCHANGED <<caller, buffer, device, transfer, reaping, handling, early>>
      /\ events' = Append(events, Trap) /\ cmd' = cmd
  BY DEF SendTrap, caller
<1>2. Trap \in Completed /\ ~IsAnswer(Trap)
  BY HostCmdAssumption DEF Trap, Event, Events, Completed, IsAnswer
<1>3. TypeOK'
  <2>1. TypeOK
    BY DEF IInv
  <2>2. events' \in Seq(Completed)
    BY <1>1, <1>2, <2>1, EventPushed
  <2>3. traps' \in 0 .. MaxTraps
    BY <2>1, HostCmdAssumption DEF TypeOK, SendTrap
  <2> QED
    BY <1>1, <2>1, <2>2, <2>3 DEF TypeOK, Completed, caller, buffer
<1>4. /\ Current' /\ FilledEarly' /\ NoLostSignal' /\ BufferTakenBack'
      /\ dirty' <=> dirty
      /\ Answered => Answered'
  <2>1. call = 0 => transfer' # "pending" /\ device' = <<>>
    BY <1>1 DEF IInv, Current
  <2> QED
    BY <1>1, <2>1, CallerKept DEF IsAnswer
<1>5. Clean'
  <2> SUFFICES ASSUME ~dirty PROVE (OneAnswer /\ Behind /\ Room /\ Answered)'
    BY <1>4 DEF Clean
  <2>1. OneAnswer /\ Behind /\ Room /\ Answered
    BY DEF IInv, Clean
  <2>2. /\ SomeEvent' <=> SomeEvent
        /\ OwnEvents => OwnEvents'
        /\ SingleEvent => SingleEvent'
        /\ Ahead => Ahead'
    BY <1>1, <1>2, OtherPushed DEF IInv
  <2>3. InHand' <=> InHand
    BY <1>1 DEF InHand
  <2>4. OneAnswer' /\ Behind'
    BY <1>1, <2>1, <2>2, <2>3, InTerms, InTermsNext DEF IsAnswer
  <2>5. Room'
    BY <1>1, <2>1, <2>2 DEF Room, caller, buffer, IsAnswer
  <2> QED
    BY <1>4, <2>1, <2>4, <2>5
<1> QED
  BY <1>3, <1>4, <1>5 DEF IInv

(* The firmware answers the first command, or the answer is lost.          *)
LEMMA AnswerStep ==
  ASSUME IInv, Answer
  PROVE  IInv'
<1>1. /\ UNCHANGED <<caller, buffer, traps, transfer, reaping, handling, early>>
      /\ device # <<>> /\ device' = Tail(device) /\ cmd' = cmd
  BY DEF Answer, caller
<1>2. /\ Head(device) \in Answers /\ Head(device) = device[1]
      /\ device' \in Seq(Answers)
      /\ Len(device) \in Nat \ {0}
      /\ Len(device') = Len(device) - 1
      /\ device' = <<>> <=> Len(device) = 1
  <2>1. device \in Seq(Answers)
    BY DEF IInv, TypeOK, Answers
  <2> QED
    BY <1>1, <2>1, Popped
<1>3. Head(device) \in Completed /\ IsAnswer(Head(device))
  BY <1>2 DEF Answers, Completed, Events, IsAnswer
<1>4. TypeOK'
  <2>1. TypeOK
    BY DEF IInv
  <2>2. events' \in Seq(Completed)
    <3>1. CASE events' = events
      BY <2>1, <3>1 DEF TypeOK, Completed
    <3>2. CASE events' = Append(events, Head(device))
      BY <1>3, <2>1, <3>2, EventPushed
    <3> QED
      BY <3>1, <3>2 DEF Answer
  <2> QED
    BY <1>1, <1>2, <2>1, <2>2 DEF TypeOK, Completed, Answers, caller, buffer
<1>5. /\ Current' /\ FilledEarly' /\ NoLostSignal' /\ BufferTakenBack'
      /\ dirty' <=> dirty
      /\ Answered => Answered'
  <2>1. call # 0
    BY <1>1 DEF IInv, Current
  <2> QED
    BY <1>1, <2>1, CallerKept DEF IsAnswer
<1>6. Clean'
  <2> SUFFICES ASSUME ~dirty PROVE (OneAnswer /\ Behind /\ Room /\ Answered)'
    BY <1>5 DEF Clean
  <2>1. OneAnswer /\ Behind /\ Room /\ Answered
    BY DEF IInv, Clean
  <2>2. ~SomeEvent /\ ~InHand /\ OwnEvents /\ SingleEvent /\ transfer # "pending"
        /\ (transfer = "completed" => Ahead)
    BY <1>1, <2>1, InTerms
  <2>3. Head(device) = cmd /\ device' = <<>> /\ Len(device') = 0
    <3>1. Len(device) = 1
      BY <1>2, <2>1 DEF OneAnswer
    <3> QED
      BY <1>2, <2>1, <3>1 DEF OneAnswer
  <2>4. OwnEvents' /\ SingleEvent' /\ (transfer = "completed" => Ahead')
    <3>1. CASE events' = events
      BY <1>1, <2>2, <3>1 DEF OwnEvents, SingleEvent, Ahead, IsAnswer, IsCompletion
    <3>2. CASE events' = Append(events, Head(device))
      BY <1>1, <1>3, <2>2, <2>3, <3>2, AnswerPushed DEF IInv
    <3> QED
      BY <3>1, <3>2 DEF Answer
  <2>5. ~InHand' /\ ~IsAnswer(handling')
    BY <1>1, <2>2 DEF InHand, IsAnswer
  <2>6. OneAnswer' /\ Behind'
    <3>1. /\ device' = <<>> /\ ~InHand' /\ ~IsAnswer(handling') /\ OwnEvents' /\ SingleEvent'
          /\ (transfer' = "completed" => Ahead') /\ transfer' # "pending"
      BY <1>1, <2>2, <2>3, <2>4, <2>5
    <3>2. Len(device') <= 1 /\ \A i \in 1 .. Len(device') : device'[i] = cmd'
      BY <2>3
    <3>3. OneAnswer'
      BY <3>1, <3>2, InTermsNext
    <3> QED
      BY <3>1, <3>3, InTermsNext
  <2>7. Room'
    BY <1>1, <2>1 DEF Room, caller, buffer
  <2> QED
    BY <1>5, <2>1, <2>6, <2>7
<1> QED
  BY <1>4, <1>5, <1>6 DEF IInv

(* The event thread takes an event.                                        *)
LEMMA PollStep ==
  ASSUME IInv, Poll
  PROVE  IInv'
<1> DEFINE e == Head(events)
<1>1. /\ UNCHANGED <<caller, buffer, device, traps, reaping, early>> /\ cmd' = cmd
      /\ events # <<>> /\ events' = Tail(events)
      /\ handling = None /\ ~IsAnswer(handling) /\ ~InHand /\ handling.type = "none"
  BY DEF Poll, caller, None, Event, IsAnswer, InHand
<1>2. IF IsCompletion(e)
      THEN transfer' = e.type /\ handling' = handling
      ELSE handling' = e /\ transfer' = transfer
  BY DEF Poll
<1>3. e \in Completed /\ events' \in Seq(Completed)
  BY <1>1, EventPopped DEF IInv
<1>4. /\ IsCompletion(e) => transfer' \in {"done", "failed"} /\ ~IsAnswer(e)
      /\ e.type \in {"done", "failed", "answer", "trap"}
      /\ ~IsCompletion(e) => handling' \in Events({"none", "answer", "signal", "trap"})
  BY <1>2, <1>3 DEF IsCompletion, IsAnswer, Completed, Events
<1>5. /\ handling'.type # "signal"
      /\ InHand' <=> IsAnswer(e)
      /\ IsAnswer(handling') <=> IsAnswer(e)
      /\ IsAnswer(e) => handling' = e
  BY <1>1, <1>2, <1>4 DEF InHand, IsAnswer, IsCompletion
<1> HIDE DEF e
<1>6. TypeOK'
  <2>1. TypeOK
    BY DEF IInv
  <2>2. transfer' \in {"pending", "completed", "done", "failed"}
    BY <1>2, <1>4, <2>1 DEF TypeOK
  <2>3. handling' \in Events({"none", "answer", "signal", "trap"})
    BY <1>2, <1>4, <2>1 DEF TypeOK
  <2> QED
    BY <1>1, <1>3, <2>1, <2>2, <2>3 DEF TypeOK, Completed, caller, buffer
<1>7. FilledEarly' /\ NoLostSignal' /\ BufferTakenBack' /\ (dirty' <=> dirty)
  BY <1>1 DEF IInv, FilledEarly, NoLostSignal, BufferTakenBack, caller, buffer
<1>8. Current'
  BY <1>1, <1>2, <1>4 DEF IInv, Current, caller
<1>9. Clean'
  <2> SUFFICES ASSUME ~dirty PROVE (OneAnswer /\ Behind /\ Room /\ Answered)'
    BY <1>7 DEF Clean
  <2>1. OneAnswer /\ Behind /\ Room /\ Answered
    BY DEF IInv, Clean
  <2>2. /\ OwnEvents' /\ SingleEvent'
        /\ IsAnswer(e) => SomeEvent /\ ~SomeEvent' /\ ~Ahead /\ e = cmd
        /\ ~IsAnswer(e) => (SomeEvent' <=> SomeEvent)
        /\ Ahead /\ ~IsCompletion(e) => Ahead'
    BY <1>1, <2>1, AnyPopped, InTerms DEF IInv, e
  <2>3. /\ \A i \in 1 .. Len(device') : device'[i] = cmd'
        /\ Len(device') <= 1
        /\ device' = device
    BY <1>1, <2>1 DEF OneAnswer
  <2>4. IsAnswer(e) => device = <<>> /\ transfer \notin {"pending", "completed"}
    BY <2>1, <2>2, InTerms
  <2>5. OneAnswer'
    BY <1>1, <1>5, <2>1, <2>2, <2>3, <2>4, InTerms, InTermsNext
  <2>6. Behind'
    BY <1>1, <1>2, <1>4, <1>5, <2>1, <2>2, <2>3, <2>4, InTerms, InTermsNext
  <2>7. Room'
    BY <1>1, <1>2, <1>4, <1>5, <2>1, <2>2, <2>3 DEF Room, caller, buffer
  <2>8. Answered'
    BY <1>1, <1>5, <2>1 DEF Answered, caller, buffer
  <2> QED
    BY <2>5, <2>6, <2>7, <2>8
<1> QED
  BY <1>6, <1>7, <1>8, <1>9 DEF IInv

(* The caller handles an event in its own transfer.                        *)
LEMMA CallerPollsStep ==
  ASSUME IInv, CallerPolls
  PROVE  IInv'
<1> DEFINE e == Head(events)
<1>1. /\ UNCHANGED <<caller, device, traps, handling>> /\ cmd' = cmd
      /\ events # <<>> /\ events' = Tail(events)
      /\ handling = None /\ ~IsAnswer(handling) /\ ~InHand /\ handling.type = "none"
      /\ pc = "submit"
  BY DEF CallerPolls, caller, None, Event, IsAnswer, InHand
<1>2. /\ IsCompletion(e) => transfer' = e.type /\ reaping' = TRUE /\ UNCHANGED <<buffer, early>>
      /\ ~IsCompletion(e) => UNCHANGED <<transfer, reaping>>
      /\ ~IsCompletion(e) /\ IsAnswer(e) => Store(e) /\ early' = TRUE
      /\ ~IsCompletion(e) /\ ~IsAnswer(e) => UNCHANGED <<buffer, early>>
  BY DEF CallerPolls
<1>3. e \in Completed /\ events' \in Seq(Completed)
  BY <1>1, EventPopped DEF IInv
<1>4. /\ IsCompletion(e) => transfer' \in {"done", "failed"} /\ ~IsAnswer(e)
      /\ e.id \in 0 .. MaxCalls
  BY <1>2, <1>3 DEF IsCompletion, IsAnswer, Completed, Events
<1>5. /\ ~InHand' /\ ~IsAnswer(handling') /\ handling'.type = "none"
  BY <1>1 DEF InHand, IsAnswer
<1> HIDE DEF e
<1>6. \/ UNCHANGED <<buffer, early>>
      \/ /\ IsAnswer(e) /\ early' = TRUE /\ resp_len' = resp_len
         /\ \/ resp_buf' = 0 /\ got' = e.id
            \/ resp_buf' = resp_buf /\ got' = got
  BY <1>2 DEF Store, buffer
<1>7. TypeOK'
  <2>1. TypeOK
    BY DEF IInv
  <2>2. transfer' \in {"pending", "completed", "done", "failed"}
    BY <1>2, <1>4, <2>1 DEF TypeOK
  <2>3. resp_buf' \in 0 .. MaxCalls /\ got' \in 0 .. MaxCalls /\ resp_len' \in Nat
    BY <1>4, <1>6, <2>1, HostCmdAssumption DEF TypeOK, buffer
  <2>4. reaping' \in BOOLEAN
    BY <1>2, <2>1, Zenon DEF TypeOK
  <2>5. early' \in BOOLEAN
    BY <1>6, <2>1, Zenon DEF TypeOK
  <2> QED
    BY <1>1, <1>3, <2>1, <2>2, <2>3, <2>4, <2>5 DEF TypeOK, Completed, caller
<1>8. FilledEarly' /\ NoLostSignal' /\ BufferTakenBack' /\ (dirty' <=> dirty)
  BY <1>1, <1>6 DEF IInv, FilledEarly, NoLostSignal, BufferTakenBack, caller, buffer
<1>9. Current'
  BY <1>1, <1>2, <1>4 DEF IInv, Current, caller
<1>10. Clean'
  <2> SUFFICES ASSUME ~dirty PROVE (OneAnswer /\ Behind /\ Room /\ Answered)'
    BY <1>8 DEF Clean
  <2>1. OneAnswer /\ Behind /\ Room /\ Answered
    BY DEF IInv, Clean
  <2>2. /\ OwnEvents' /\ SingleEvent'
        /\ IsAnswer(e) => SomeEvent /\ ~SomeEvent' /\ ~Ahead
        /\ ~IsAnswer(e) => (SomeEvent' <=> SomeEvent)
        /\ Ahead /\ ~IsCompletion(e) => Ahead'
    BY <1>1, <2>1, AnyPopped, InTerms DEF IInv, e
  <2>3. /\ \A i \in 1 .. Len(device') : device'[i] = cmd'
        /\ Len(device') <= 1
        /\ device' = device
    BY <1>1, <2>1 DEF OneAnswer
  <2>4. IsAnswer(e) => device = <<>> /\ transfer \notin {"pending", "completed"}
    BY <2>1, <2>2, InTerms
  <2>5. OneAnswer'
    BY <1>5, <2>1, <2>2, <2>3, <2>4, InTerms, InTermsNext
  <2>6. Behind'
    BY <1>2, <1>4, <1>5, <2>1, <2>2, <2>3, <2>4, InTerms, InTermsNext
  <2>7. Room'
    <3>1. CASE IsAnswer(e)
      BY <1>2, <1>4, <1>5, <2>2, <2>3, <2>4, <3>1 DEF Room
    <3>2. CASE ~IsAnswer(e)
      BY <1>1, <1>2, <1>4, <1>5, <1>6, <2>1, <2>2, <2>3, <3>2 DEF Room, caller, buffer
    <3> QED
      BY <3>1, <3>2
  <2>8. Answered'
    BY <1>1, <1>5 DEF Answered, caller
  <2> QED
    BY <2>5, <2>6, <2>7, <2>8
<1> QED
  BY <1>7, <1>8, <1>9, <1>10 DEF IInv

(* Every step of the two threads, of USB and of the firmware.              *)
LEMMA StepIInv == IInv /\ [Next]_vars => IInv'
<1> SUFFICES ASSUME IInv, [Next]_vars PROVE IInv'
  OBVIOUS
<1>1. CASE UNCHANGED vars
  <2>1. UNCHANGED <<caller, buffer, usb, transfer, reaping, handling, early>>
    BY <1>1 DEF vars
  <2>2. TypeOK' /\ Current' /\ FilledEarly' /\ NoLostSignal' /\ BufferTakenBack'
    BY <2>1 DEF IInv, TypeOK, Current, FilledEarly, NoLostSignal, BufferTakenBack,
                caller, buffer, usb
  <2>3. UNCHANGED <<cmd, device, events, handling, transfer>>
    BY <2>1 DEF caller, usb
  <2>4. Clean'
    BY <2>1, <2>3, SamePlace DEF IInv, Clean, Room, Answered, caller, buffer
  <2> QED
    BY <2>2, <2>4 DEF IInv
<1> QED
  BY <1>1, CallStep, CallerStep, CallbackEndStep, HandleCommandStep, TransferStep,
     SendTrapStep, AnswerStep, PollStep, CallerPollsStep
     DEF Next, Caller
-----------------------------------------------------------------------------
(* The inductive invariant holds in every behaviour.                       *)
LEMMA HostCmdCorrect == Spec => []IInv
<1>1. Init => IInv
  BY InitIInv
<1>2. IInv /\ [Next]_vars => IInv'
  BY StepIInv
<1> QED
  BY <1>1, <1>2, PTL DEF Spec

(* The state of carlusb_cmd and of the transfers stays in its types, for   *)
(* any commands and any number of calls.                                   *)
THEOREM HostCmdTypeCorrect == Spec => []TypeOK
<1>1. IInv => TypeOK
  BY DEF IInv
<1> QED
  BY <1>1, HostCmdCorrect, PTL

(* carlusb_cmd returns success only with the answer to its own command, if *)
(* it began with no answer outstanding.                                    *)
THEOREM OwnAnswerCorrect == Spec => []OwnAnswer
<1>1. IInv => OwnAnswer
  BY DEF IInv, Clean, Answered, OwnAnswer
<1> QED
  BY <1>1, HostCmdCorrect, PTL

(* The two threads wait for each other (usb.c:653-669, rx.c:64) only       *)
(* behind an answer that came too late.                                    *)
THEOREM StuckCorrect == Spec => []StuckBehindLateAnswer
<1>1. IInv => StuckBehindLateAnswer
  BY OutstandingWhere
     DEF IInv, Clean, Behind, StuckBehindLateAnswer, Stuck, IsAnswer, InHand
<1> QED
  BY <1>1, HostCmdCorrect, PTL

(* A call that is over has taken its buffer back (usb.c:680, rx.c:67), but *)
(* for a failed transfer or a foreign answer.                              *)
THEOREM BufferCorrect == Spec => []BufferTakenBack
<1>1. IInv => BufferTakenBack
  BY DEF IInv
<1> QED
  BY <1>1, HostCmdCorrect, PTL

(* No signal falls between the transfer and the wait of carlusb_cmd, which *)
(* holds the lock meanwhile.                                               *)
THEOREM SignalCorrect == Spec => []NoLostSignal
<1>1. IInv => NoLostSignal
  BY DEF IInv
<1> QED
  BY <1>1, HostCmdCorrect, PTL
-----------------------------------------------------------------------------
(* HostLife: where the main thread is.                                     *)
ProbeSteps == {"info", "load", "pipe", "thread", "upload", "boot", "drop", "reget", "irq",
               "rx", "echo"}
CloseSteps == {"kill", "cancel", "wait", "free"}
Step == life_pc[1]
Probing == Step \in ProbeSteps
Closing == Step \in CloseSteps

(* The contexts up to n were reported; apart from them only the one that   *)
(* main works on is in use.                                                *)
InUse(c) == c <= n \/ (c = cur /\ (Probing \/ Closing))
Counted ==
  /\ \A c \in Life!Ctx : (ctx[c].told <=> c <= n) /\ (ctx[c].st = "used" <=> InUse(c))
  /\ Step = "open" \/ Probing => n = cur - 1
  /\ Step \in {"test", "close"} => n = cur
  /\ Closing => n \in {cur - 1, cur}
  /\ Step \in {"exit", "end"} => n = 0
  /\ Cmd # "all" => cur = 1

(* Contexts that are still to be opened.                                   *)
Unopened ==
  /\ Step = "open" \/ Probing => \A c \in Life!Ctx : c > cur => ctx[c] = Life!Fresh
  /\ Step = "open" => ctx[cur] = Life!Fresh

(* active_dev_list: a context is on it at most once, and as long as it has *)
(* a device; freed ones stay only after a failure before the thread.       *)
On(c) == \E k \in 1 .. Len(active) : active[k] = c
EarlyFailure == \E f \in {"info", "load", "pipe"} : f \in failed
Listed ==
  /\ \A j, k \in 1 .. Len(active) : active[j] = active[k] => j = k
  /\ \A c \in Life!Ctx : On(c) => ctx[c].st # "none"
  /\ \A c \in Life!Ctx : ctx[c].dev # Life!NoDev => ctx[c].st = "used" /\ On(c)
  /\ \A c \in Life!Ctx : On(c) /\ ctx[c].st = "freed" => EarlyFailure

(* Who has which device, and which are not away.                           *)
Owned ==
  /\ Life!OwnsOne
  /\ \A c \in Life!Ctx : c <= n => ctx[c].dev # Life!NoDev
  /\ Probing /\ Step \notin {"reget", "irq"} => ctx[cur].dev # Life!NoDev
  /\ Step = "reget" =>
       /\ ctx[cur].dev = Life!NoDev /\ ~On(cur)
       /\ \E d \in Devs : \A c \in Life!Ctx : ctx[c].dev # d
  /\ Step \in {"irq", "rx", "echo"} /\ ctx[cur].dev # Life!NoDev => fw[ctx[cur].dev] # "away"
  /\ Step = "irq" /\ ctx[cur].dev = Life!NoDev => CanBeLate \/ "reget" \in failed

(* The transfers of the context main works on.                             *)
Running(c, i) == \/ ctx[c].tr[i] \in {"live", "cb"}
                 \/ ctx[c].tr[i] = "lost" /\ "resubmit" \in failed
Filled ==
  /\ \A i \in 1 .. NRx : life_pc = <<"rx", i>> => \A j \in 0 .. i - 1 : Running(cur, j)
  /\ Step = "echo" => \A i \in Life!Transfers : Running(cur, i)
  /\ Step \in {"kill", "cancel"} /\ (ctx[cur].told \/ failed = {}) =>
       \A i \in Life!Transfers : ctx[cur].tr[i] # "null"

(* What was reported runs; the thread of the first context serves all.     *)
Served ==
  /\ \A c \in Life!Ctx : c <= n /\ ~(c = cur /\ Closing) =>
       fw[ctx[c].dev] = "fw" /\ \A i \in Life!Transfers : Running(c, i)
  /\ n >= 1 /\ ~(cur = 1 /\ Closing) => ctx[1].thread \in {"check", "poll"} /\ ~ctx[1].stop
  /\ Probing => ~ctx[cur].stop

LifeInv ==
  /\ Life!TypeOK /\ Counted /\ Unopened /\ Listed /\ Owned /\ Filled /\ Served
  /\ Life!CrashNeedsFailure

-----------------------------------------------------------------------------
LEMMA PlacesAre ==
  /\ \A p \in {"open", "info", "load", "pipe", "thread", "upload", "boot", "drop", "reget", "irq",
               "echo", "test", "close", "kill", "wait", "free", "exit", "end"} :
       <<p, 0>> \in Life!Places
  /\ \A i \in 1 .. NRx : <<"rx", i>> \in Life!Places
  /\ \A i \in 0 .. NRx : <<"cancel", i>> \in Life!Places
BY DEF Life!Places, Life!At, Life!Transfers

LEMMA LifeFacts ==
  ASSUME Life!TypeOK
  PROVE  /\ MaxCtx \in Nat \ {0} /\ NRx \in Nat \ {0} /\ Life!NoDev \notin Devs
         /\ cur \in 1 .. MaxCtx /\ Life!Ctx = 1 .. MaxCtx /\ n \in 0 .. MaxCtx
         /\ Life!Transfers = 0 .. NRx
         /\ ctx \in [Life!Ctx -> Life!Contexts]
         /\ active \in Seq(Life!Ctx) /\ Len(active) \in Nat
         /\ \A k \in 1 .. Len(active) : active[k] \in Life!Ctx
<1>1. active \in Seq(Life!Ctx)
  BY DEF Life!TypeOK
<1>2. Len(active) \in Nat /\ \A k \in 1 .. Len(active) : active[k] \in Life!Ctx
  BY <1>1, LenProperties
<1>3. QED
  BY <1>1, <1>2, LifeAssumption DEF Life!TypeOK, Life!Sizes, Life!Ctx, Life!Transfers

(* A context of which one field is changed.                                *)
LEMMA Fields ==
  ASSUME NEW r \in Life!Contexts
  PROVE  /\ \A t \in {"none", "check", "poll", "ended"} : [r EXCEPT !.thread = t] \in Life!Contexts
         /\ \A i \in Life!Transfers, t \in Life!TrStates : [r EXCEPT !.tr[i] = t] \in Life!Contexts
         /\ \A d \in Devs \cup {Life!NoDev} : [r EXCEPT !.dev = d] \in Life!Contexts
         /\ [r EXCEPT !.stop = TRUE] \in Life!Contexts /\ [r EXCEPT !.told = TRUE] \in Life!Contexts
<1>1. ASSUME NEW t \in {"none", "check", "poll", "ended"}
      PROVE  [r EXCEPT !.thread = t] \in Life!Contexts
  BY DEF Life!Contexts
<1>2. ASSUME NEW i \in Life!Transfers, NEW t \in Life!TrStates
      PROVE  [r EXCEPT !.tr[i] = t] \in Life!Contexts
  <2>1. r.tr \in [Life!Transfers -> Life!TrStates]
    BY DEF Life!Contexts
  <2>2. [r.tr EXCEPT ![i] = t] \in [Life!Transfers -> Life!TrStates]
    BY <2>1
  <2> DEFINE v == [r.tr EXCEPT ![i] = t]
  <2> HIDE DEF v
  <2>3. v \in [Life!Transfers -> Life!TrStates]
    BY <2>2 DEF v
  <2>4. [r EXCEPT !.tr = v] \in Life!Contexts
    BY <2>3 DEF Life!Contexts
  <2>5. QED
    BY <2>4 DEF v
<1>3. /\ \A d \in Devs \cup {Life!NoDev} : [r EXCEPT !.dev = d] \in Life!Contexts
      /\ [r EXCEPT !.stop = TRUE] \in Life!Contexts /\ [r EXCEPT !.told = TRUE] \in Life!Contexts
  BY DEF Life!Contexts
<1>4. QED
  BY <1>1, <1>2, <1>3

(* A call that fails is remembered.                                        *)
LEMMA Failing ==
  ASSUME NEW what, Life!Fails(what)
  PROVE  failed' # {} /\ what \in failed' /\ \A f \in failed : f \in failed'
<1>1. failed' = failed \cup {what}
  BY DEF Life!Fails
<1>2. QED
  BY <1>1

Hop(p, q) == life_pc = <<p, 0>> /\ life_pc' = <<q, 0>>
Remembers == failed' # {} /\ \A f \in failed : f \in failed'

(* Steps of main that only lead on, or to the end of a probe or a close.   *)
Advances ==
  \/ /\ \/ Hop("info", "load") \/ Hop("load", "pipe") \/ Hop("pipe", "thread")
        \/ Hop("upload", "boot") \/ Hop("test", "close") \/ Hop("wait", "free")
        \/ Hop("exit", "end")
     /\ failed' = failed
  \/ /\ Hop("thread", "upload") \/ Hop("upload", "kill") \/ Hop("boot", "kill")
        \/ Hop("close", "kill")
     /\ Remembers

LEMMA AdvanceKeeps ==
  ASSUME LifeInv, Advances, UNCHANGED <<cur, n, ctx, active, fw, booting, bad>>
  PROVE  LifeInv'
<1>0. /\ cur' = cur /\ n' = n /\ ctx' = ctx /\ active' = active
      /\ fw' = fw /\ booting' = booting /\ bad' = bad
      /\ \A f \in failed : f \in failed'
  BY DEF Advances, Remembers
<1>1. Life!TypeOK'
  <2>1. life_pc' \in Life!Places
    BY PlacesAre DEF Advances, Hop
  <2>2. QED
    BY <1>0, <2>1 DEF LifeInv, Life!TypeOK
<1>2. Counted'
  <2>1. cur \in 1 .. MaxCtx /\ n \in 0 .. MaxCtx /\ MaxCtx \in Nat
    BY LifeFacts DEF LifeInv
  <2>2. QED
    BY <1>0, <2>1 DEF Advances, Hop, LifeInv, Counted, InUse, Step, Probing, Closing, ProbeSteps, CloseSteps
<1>3. Unopened'
  BY <1>0 DEF Advances, Hop, LifeInv, Unopened, Step, Probing, Closing, ProbeSteps, CloseSteps
<1>4. Listed'
  BY <1>0 DEF LifeInv, Listed, On, EarlyFailure
<1>5. Owned'
  BY <1>0 DEF Advances, Hop, LifeInv, Owned, Step, Probing, Closing, ProbeSteps, CloseSteps, Life!OwnsOne
<1>6. Filled'
  <2>1. CASE Hop("close", "kill")
    <3>1. \A i \in Life!Transfers : ctx[cur].tr[i] \in {"live", "cb", "lost"}
      BY <2>1, LifeFacts DEF LifeInv, Counted, Served, Running, Hop, Step, Closing, CloseSteps
    <3>2. QED
      BY <1>0, <2>1, <3>1 DEF Filled, Step, Hop
  <2>2. CASE ~Hop("close", "kill")
    <3>1. Step = "boot" \/ Step = "upload" => ~ctx[cur].told
      BY LifeFacts DEF LifeInv, Counted, Step, Probing, ProbeSteps
    <3>2. QED
      BY <1>0, <2>2, <3>1 DEF Advances, Remembers, Hop, LifeInv, Filled, Step
  <2>3. QED
    BY <2>1, <2>2
<1>7. Served'
  BY <1>0 DEF Advances, Hop, LifeInv, Served, Running, Step, Probing, Closing, ProbeSteps, CloseSteps
<1>8. Life!CrashNeedsFailure'
  BY <1>0 DEF Advances, Remembers, LifeInv, Life!CrashNeedsFailure
<1>9. QED
  BY <1>1, <1>2, <1>3, <1>4, <1>5, <1>6, <1>7, <1>8 DEF LifeInv

(* A run that ends in undefined behaviour.                                 *)
LEMMA CrashKeeps ==
  ASSUME LifeInv, NEW what, Life!Crash(what),
         what \in {"freed context", "no device", "no transfer", "live transfer"},
         what = "freed context" => EarlyFailure,
         what = "no transfer" => failed # {},
         what = "no device" => CanBeLate \/ "reget" \in failed
  PROVE  LifeInv'
<1>0. /\ life_pc' = life_pc /\ cur' = cur /\ n' = n /\ ctx' = ctx /\ active' = active
      /\ fw' = fw /\ booting' = booting /\ bad' = what /\ failed' = failed
  BY DEF Life!Crash
<1>1. Life!TypeOK'
  BY <1>0 DEF LifeInv, Life!TypeOK
<1>2. Counted' /\ Unopened'
  BY <1>0 DEF LifeInv, Counted, Unopened, InUse, Step, Probing, Closing
<1>3. Listed'
  BY <1>0 DEF LifeInv, Listed, On, EarlyFailure
<1>4. Owned'
  <2>1. Life!OwnsOne'
    BY <1>0 DEF LifeInv, Owned, Life!OwnsOne
  <2>2. Step' = Step /\ (Probing' <=> Probing) /\ (On(cur)' <=> On(cur))
    BY <1>0 DEF Step, Probing, On
  <2>3. QED
    BY <1>0, <2>1, <2>2 DEF LifeInv, Owned
<1>5. Filled' /\ Served'
  BY <1>0 DEF LifeInv, Filled, Served, Running, Step, Probing, Closing
<1>6. Life!CrashNeedsFailure'
  BY <1>0 DEF Life!CrashNeedsFailure, EarlyFailure
<1>7. QED
  BY <1>1, <1>2, <1>3, <1>4, <1>5, <1>6 DEF LifeInv

(* A device comes back to the bus.                                         *)
LEMMA BackKeeps ==
  ASSUME LifeInv, NEW d \in Devs, Life!Back(d)
  PROVE  LifeInv'
<1>0. /\ life_pc' = life_pc /\ cur' = cur /\ n' = n /\ ctx' = ctx /\ active' = active
      /\ fw[d] = "away" /\ fw' = [fw EXCEPT ![d] = booting[d]] /\ booting' = booting
      /\ bad' = bad /\ failed' = failed
  BY DEF Life!Back
<1>1. Life!TypeOK'
  BY <1>0 DEF LifeInv, Life!TypeOK
<1>2. \A e \in Devs : (fw[e] # "away" => fw'[e] = fw[e]) /\ fw'[d] # "away"
  BY <1>0 DEF LifeInv, Life!TypeOK
<1>3. Counted' /\ Unopened'
  BY <1>0 DEF LifeInv, Counted, Unopened, InUse, Step, Probing, Closing
<1>4. Listed'
  BY <1>0 DEF LifeInv, Listed, On, EarlyFailure
<1>a. \A c \in Life!Ctx : ctx[c].dev # Life!NoDev => ctx[c].dev \in Devs
  BY DEF LifeInv, Life!TypeOK, Life!Contexts
<1>5. Owned'
  <2>1. cur \in Life!Ctx
    BY DEF LifeInv, Life!TypeOK
  <2>2. QED
    BY <1>0, <1>2, <1>a, <2>1 DEF LifeInv, Owned, On, Life!OwnsOne, Step, Probing
<1>6. Filled'
  BY <1>0 DEF LifeInv, Filled, Running, Step
<1>7. Served'
  BY <1>0, <1>2, <1>a DEF LifeInv, Served, Owned, Running, Step, Probing, Closing
<1>8. Life!CrashNeedsFailure'
  BY <1>0 DEF LifeInv, Life!CrashNeedsFailure
<1>9. QED
  BY <1>1, <1>3, <1>4, <1>5, <1>6, <1>7, <1>8 DEF LifeInv


(* The threads change transfers and themselves only, and note what fails.  *)
Serves ==
  /\ ctx' \in [Life!Ctx -> Life!Contexts]
  /\ \A c \in Life!Ctx :
       /\ ctx'[c].st = ctx[c].st /\ ctx'[c].dev = ctx[c].dev
       /\ ctx'[c].stop = ctx[c].stop /\ ctx'[c].told = ctx[c].told
       /\ ctx[c] = Life!Fresh => ctx'[c] = ctx[c]
       /\ ctx[c].thread \in {"check", "poll"} /\ ~ctx[c].stop => ctx'[c].thread \in {"check", "poll"}
       /\ \A i \in Life!Transfers :
            /\ ctx[c].tr[i] # "null" => ctx'[c].tr[i] # "null"
            /\ Running(c, i) /\ fw[ctx[c].dev] # "away" => Running(c, i)'

LEMMA RunsOn ==
  ASSUME NEW c, ctx'[c] = ctx[c], \A f \in failed : f \in failed'
  PROVE  \A i \in Life!Transfers : Running(c, i) => Running(c, i)'
  BY DEF Running

LEMMA ServeKeeps ==
  ASSUME LifeInv, Serves, UNCHANGED <<life_pc, cur, n, active, fw, booting, bad>>,
         \A f \in failed : f \in failed'
  PROVE  LifeInv'
<1>0. /\ life_pc' = life_pc /\ cur' = cur /\ n' = n /\ active' = active
      /\ fw' = fw /\ booting' = booting /\ bad' = bad
      /\ \A f \in failed : f \in failed'
  OBVIOUS
<1>a. cur \in 1 .. MaxCtx /\ MaxCtx \in Nat \ {0} /\ Life!Ctx = 1 .. MaxCtx /\ NRx \in Nat \ {0}
      /\ Life!Transfers = 0 .. NRx
  BY LifeFacts DEF LifeInv
<1>1. Life!TypeOK'
  BY <1>0 DEF LifeInv, Life!TypeOK, Serves
<1>2. Counted'
  BY <1>0 DEF LifeInv, Serves, Counted, InUse, Step, Probing, Closing
<1>3. Unopened'
  BY <1>0, <1>a DEF LifeInv, Serves, Unopened, Step, Probing, Closing
<1>4. Listed'
  BY <1>0 DEF LifeInv, Serves, Listed, On, EarlyFailure
<1>5. Owned'
  <2>1. (\A c \in Life!Ctx : ctx'[c].dev = ctx[c].dev) /\ cur \in Life!Ctx /\ 1 \in Life!Ctx
    BY <1>a DEF Serves
  <2>2. (On(cur)' <=> On(cur)) /\ Step' = Step /\ (Probing' <=> Probing)
    BY <1>0 DEF On, Step, Probing
  <2>3. Life!OwnsOne'
    BY <2>1 DEF LifeInv, Owned, Life!OwnsOne
  <2>4. ctx'[cur].dev = ctx[cur].dev
    BY <2>1
  <2>5. \A c \in Life!Ctx : c <= n => ctx'[c].dev # Life!NoDev
    BY <2>1 DEF LifeInv, Owned
  <2>6. Step = "reget" => \E d \in Devs : \A c \in Life!Ctx : ctx'[c].dev # d
    BY <2>1 DEF LifeInv, Owned
  <2>7. Step = "irq" /\ ctx[cur].dev = Life!NoDev => CanBeLate \/ "reget" \in failed'
    BY <1>0 DEF LifeInv, Owned
  <2>8. QED
    BY <1>0, <2>2, <2>3, <2>4, <2>5, <2>6, <2>7 DEF LifeInv, Owned
<1>6. Filled'
  <2>1. Step \in {"rx", "echo"} => fw[ctx[cur].dev] # "away"
    BY DEF LifeInv, Owned, Probing, ProbeSteps
  <2>2. ASSUME Step \in {"rx", "echo"}, NEW j \in Life!Transfers, Running(cur, j) PROVE Running(cur, j)'
    BY <1>a, <2>1, <2>2 DEF Serves
  <2>3. \A i \in 1 .. NRx : life_pc = <<"rx", i>> => Step = "rx" /\ \A j \in 0 .. i - 1 : j \in Life!Transfers
    BY <1>a DEF Step
  <2>4. ASSUME NEW i \in 1 .. NRx, life_pc' = <<"rx", i>>, NEW j \in 0 .. i - 1 PROVE Running(cur, j)'
    BY <1>0, <2>2, <2>3, <2>4 DEF LifeInv, Filled
  <2>5. (Step = "echo")' => \A i \in Life!Transfers : Running(cur, i)'
    BY <1>0, <2>2 DEF LifeInv, Filled, Step
  <2>6. QED
    BY <1>0, <1>a, <2>4, <2>5 DEF LifeInv, Serves, Filled, Step, Running
<1>7. Served'
  <2>1. ASSUME NEW c \in Life!Ctx, c <= n, ~(c = cur /\ Closing)
        PROVE  fw[ctx'[c].dev] = "fw" /\ \A i \in Life!Transfers : Running(c, i)'
    BY <2>1 DEF LifeInv, Served, Serves
  <2>2. n >= 1 /\ ~(cur = 1 /\ Closing) => ctx'[1].thread \in {"check", "poll"} /\ ~ctx'[1].stop
    BY <1>a DEF LifeInv, Served, Serves
  <2>3. Probing => ~ctx'[cur].stop
    BY <1>a DEF LifeInv, Served, Serves
  <2>4. QED
    BY <1>0, <2>1, <2>2, <2>3 DEF Served, Step, Probing, Closing, Running
<1>8. Life!CrashNeedsFailure'
  BY <1>0 DEF LifeInv, Life!CrashNeedsFailure
<1>9. QED
  BY <1>1, <1>2, <1>3, <1>4, <1>5, <1>6, <1>7, <1>8 DEF LifeInv

(* A thread looks whether it shall stop, or waits for events in vain.      *)
LEMMA LookKeeps ==
  ASSUME LifeInv, NEW c \in Life!Ctx, Life!Look(c) \/ Life!Quiet(c)
  PROVE  LifeInv'
<1>0. ctx \in [Life!Ctx -> Life!Contexts]
  BY DEF LifeInv, Life!TypeOK
<1>1. /\ ctx[c].thread \in {"check", "poll"}
      /\ UNCHANGED <<life_pc, cur, n, active, fw, booting, failed, bad>>
      /\ \E t \in {"check", "poll", "ended"} :
           ctx' = [ctx EXCEPT ![c].thread = t] /\ (t = "ended" => ctx[c].stop)
  BY <1>0 DEF Life!Look, Life!Quiet, Life!Same
<1>2. Serves
  <2>1. PICK t \in {"check", "poll", "ended"} :
          ctx' = [ctx EXCEPT ![c].thread = t] /\ (t = "ended" => ctx[c].stop)
    BY <1>1
  <2>2. ctx' \in [Life!Ctx -> Life!Contexts]
    <3>1. [ctx[c] EXCEPT !.thread = t] \in Life!Contexts
      BY <1>0, Fields
    <3>2. QED
      BY <1>0, <2>1, <3>1
  <2>3. ASSUME NEW b \in Life!Ctx
        PROVE  /\ ctx'[b].st = ctx[b].st /\ ctx'[b].dev = ctx[b].dev
               /\ ctx'[b].stop = ctx[b].stop /\ ctx'[b].told = ctx[b].told
               /\ ctx'[b].tr = ctx[b].tr
               /\ b # c => ctx'[b] = ctx[b]
               /\ b = c => ctx'[b].thread = t
    BY <1>0, <2>1 DEF Life!Contexts
  <2>4. ctx[c] # Life!Fresh
    BY <1>1 DEF Life!Fresh
  <2>5. QED
    BY <1>1, <2>1, <2>2, <2>3, <2>4 DEF Serves, Running
<1>3. QED
  BY <1>1, <1>2, ServeKeeps

(* A thread handles an event of a transfer, of its own context or another. *)
LEMMA HandleKeeps ==
  ASSUME LifeInv, NEW c \in Life!Ctx, NEW b \in Life!Ctx, NEW i \in Life!Transfers,
         Life!Handle(c, b, i) \/ Life!Resubmit(c, b, i) \/ Life!Reap(c, b, i)
  PROVE  LifeInv'
<1>0. ctx \in [Life!Ctx -> Life!Contexts]
  BY DEF LifeInv, Life!TypeOK
<1>a. /\ ctx[c].thread = "poll" /\ UNCHANGED <<life_pc, cur, n, active, fw, booting, bad>>
      /\ ctx[b].tr[i] \in {"live", "cb", "cancel"}
      /\ \E t \in {"live", "cb", "done", "lost"}, u \in {"check", "poll"} :
           /\ \/ ctx' = [ctx EXCEPT ![c].thread = u, ![b].tr[i] = t]
              \/ ctx' = [ctx EXCEPT ![b].tr[i] = t]
           /\ t = "done" => ctx[b].tr[i] = "cancel" \/ fw[ctx[b].dev] = "away"
           /\ IF t = "lost" THEN Life!FailsAgain("resubmit") ELSE failed' = failed
  BY DEF Life!Handle, Life!Resubmit, Life!Reap, Life!Same
<1>b. Life!FailsAgain("resubmit") => "resubmit" \in failed' /\ \A f \in failed : f \in failed'
  BY Failing DEF Life!FailsAgain
<1>1. /\ ctx[c].thread = "poll" /\ UNCHANGED <<life_pc, cur, n, active, fw, booting, bad>>
      /\ ctx[b].tr[i] \in {"live", "cb", "cancel"} /\ \A f \in failed : f \in failed'
  BY <1>a, <1>b
<1>2. PICK t \in {"live", "cb", "done", "lost"}, u \in {"check", "poll"} :
        /\ \/ ctx' = [ctx EXCEPT ![c].thread = u, ![b].tr[i] = t]
           \/ ctx' = [ctx EXCEPT ![b].tr[i] = t]
        /\ t = "done" => ctx[b].tr[i] = "cancel" \/ fw[ctx[b].dev] = "away"
        /\ t = "lost" => "resubmit" \in failed'
  BY <1>a, <1>b
<1>3. ctx' \in [Life!Ctx -> Life!Contexts]
  <2>1. t \in Life!TrStates
    BY DEF Life!TrStates
  <2>2. \A r \in Life!Contexts : [r EXCEPT !.tr[i] = t] \in Life!Contexts
    BY <2>1, Fields
  <2> DEFINE e == [ctx EXCEPT ![c].thread = u]
  <2>3. e \in [Life!Ctx -> Life!Contexts]
    <3>1. [ctx[c] EXCEPT !.thread = u] \in Life!Contexts
      BY <1>0, Fields
    <3>2. QED
      BY <1>0, <3>1
  <2>4. \A f \in [Life!Ctx -> Life!Contexts] : [f EXCEPT ![b].tr[i] = t] \in [Life!Ctx -> Life!Contexts]
    <3> SUFFICES ASSUME NEW f \in [Life!Ctx -> Life!Contexts]
                 PROVE  [f EXCEPT ![b].tr[i] = t] \in [Life!Ctx -> Life!Contexts]
      OBVIOUS
    <3>1. [f[b] EXCEPT !.tr[i] = t] \in Life!Contexts
      BY <2>2
    <3>2. QED
      BY <3>1
  <2>5. ctx' = [e EXCEPT ![b].tr[i] = t] \/ ctx' = [ctx EXCEPT ![b].tr[i] = t]
    BY <1>2
  <2>6. QED
    BY <1>0, <2>3, <2>4, <2>5
<1>4. ASSUME NEW a \in Life!Ctx
      PROVE  /\ ctx'[a].st = ctx[a].st /\ ctx'[a].dev = ctx[a].dev
             /\ ctx'[a].stop = ctx[a].stop /\ ctx'[a].told = ctx[a].told
             /\ ctx'[a].thread = ctx[a].thread \/ (a = c /\ ctx'[a].thread = u)
             /\ \A j \in Life!Transfers :
                  ctx'[a].tr[j] = IF a = b /\ j = i THEN t ELSE ctx[a].tr[j]
             /\ a \notin {b, c} => ctx'[a] = ctx[a]
  BY <1>0, <1>2 DEF Life!Contexts
<1>5. Life!Fresh.thread = "none" /\ Life!Fresh.tr[i] = "null"
  BY DEF Life!Fresh
<1>6. Serves
  BY <1>1, <1>2, <1>3, <1>4, <1>5 DEF Serves, Running
<1>7. QED
  BY <1>1, <1>6, ServeKeeps


(* What the record of a context that is freed, or was just opened, says.   *)
Freed == [Life!Fresh EXCEPT !.st = "freed"]
Opened(d) == [Life!Fresh EXCEPT !.st = "used", !.dev = d]

LEMMA FreshFields ==
  /\ Life!Fresh \in Life!Contexts
  /\ Life!Fresh.st = "none" /\ Life!Fresh.dev = Life!NoDev /\ Life!Fresh.told = FALSE
  /\ Life!Fresh.stop = FALSE /\ Life!Fresh.thread = "none"
  /\ Freed \in Life!Contexts /\ Freed.st = "freed" /\ Freed.dev = Life!NoDev /\ Freed.told = FALSE
  /\ \A d \in Devs : /\ Opened(d) \in Life!Contexts /\ Opened(d).st = "used" /\ Opened(d).dev = d
                     /\ Opened(d).told = FALSE /\ Opened(d).stop = FALSE
<1>1. /\ Life!Fresh.st = "none" /\ Life!Fresh.dev = Life!NoDev /\ Life!Fresh.told = FALSE
      /\ Life!Fresh.stop = FALSE /\ Life!Fresh.thread = "none"
      /\ Life!Fresh = [st |-> "none", dev |-> Life!NoDev, thread |-> "none", stop |-> FALSE,
                       told |-> FALSE, tr |-> [i \in Life!Transfers |-> "null"]]
  BY DEF Life!Fresh
<1> DEFINE t == [i \in Life!Transfers |-> "null"]
<1>2. t \in [Life!Transfers -> Life!TrStates]
  BY DEF Life!TrStates
<1>3. Life!Fresh = [st |-> "none", dev |-> Life!NoDev, thread |-> "none", stop |-> FALSE,
                    told |-> FALSE, tr |-> t]
  BY <1>1
<1> HIDE DEF t
<1>4. Life!Fresh \in Life!Contexts
  BY <1>2, <1>3 DEF Life!Contexts
<1>5. Freed \in Life!Contexts /\ Freed.st = "freed" /\ Freed.dev = Life!NoDev /\ Freed.told = FALSE
  BY <1>2, <1>3 DEF Life!Contexts, Freed
<1>6. ASSUME NEW d \in Devs
      PROVE  /\ Opened(d) \in Life!Contexts /\ Opened(d).st = "used" /\ Opened(d).dev = d
             /\ Opened(d).told = FALSE /\ Opened(d).stop = FALSE
  BY <1>2, <1>3 DEF Life!Contexts, Opened
<1>7. QED
  BY <1>1, <1>4, <1>5, <1>6

(* The walk of carlusb_get_dev, and where main is after a probe failed.    *)
LEMMA WalkFindsFreed ==
  ASSUME LifeInv, Life!WalkTouchesFreed
  PROVE  EarlyFailure
<1>1. PICK k \in DOMAIN active : ctx[active[k]].st = "freed"
  BY DEF Life!WalkTouchesFreed
<1>2. k \in 1 .. Len(active) /\ active[k] \in Life!Ctx
  BY LifeFacts, LenProperties DEF LifeInv
<1>3. QED
  BY <1>1, <1>2 DEF LifeInv, Listed, On

LEMMA ProbeFailed ==
  ASSUME LifeInv, Step \in {"open", "info", "load", "pipe"},
         ctx' = [ctx EXCEPT ![cur] = Freed],
         cur' = IF n > 0 THEN n ELSE cur, life_pc' = Life!AfterFailure,
         \A f \in failed : f \in failed',
         Step # "open" => EarlyFailure',
         UNCHANGED <<n, active, fw, booting, bad>>
  PROVE  LifeInv'
<1>0. n' = n /\ active' = active /\ fw' = fw /\ booting' = booting /\ bad' = bad
  OBVIOUS
<1>a. /\ cur \in 1 .. MaxCtx /\ n \in 0 .. MaxCtx /\ MaxCtx \in Nat \ {0} /\ Life!Ctx = 1 .. MaxCtx
      /\ NRx \in Nat \ {0} /\ ctx \in [Life!Ctx -> Life!Contexts] /\ n = cur - 1
      /\ Cmd # "all" => cur = 1
  BY LifeFacts DEF LifeInv, Counted, Probing, ProbeSteps
<1>b. \/ n > 0 /\ cur' = n /\ life_pc' = <<"close", 0>>
      \/ n = 0 /\ cur' = cur /\ life_pc' = <<"exit", 0>>
  BY <1>a DEF Life!AfterFailure, Life!At
<1>c. /\ \A c \in Life!Ctx : c # cur => ctx'[c] = ctx[c]
      /\ ctx'[cur].st = "freed" /\ ctx'[cur].dev = Life!NoDev /\ ctx'[cur].told = FALSE
      /\ ctx' \in [Life!Ctx -> Life!Contexts]
  BY <1>a, FreshFields
<1>d. Step = "open" => ~On(cur)
  <2>1. Step = "open" => ctx[cur].st = "none"
    BY FreshFields DEF LifeInv, Unopened
  <2>2. QED
    BY <1>a, <2>1 DEF LifeInv, Listed
<1>1. Life!TypeOK'
  <2>1. life_pc' \in Life!Places
    BY <1>b, PlacesAre
  <2>2. cur' \in Life!Ctx
    BY <1>a, <1>b
  <2>3. QED
    BY <1>0, <1>c, <2>1, <2>2 DEF LifeInv, Life!TypeOK
<1>2. Counted'
  <2>1. ASSUME NEW c \in Life!Ctx
        PROVE  (ctx'[c].told <=> c <= n) /\ (ctx'[c].st = "used" <=> c <= n)
    <3>1. CASE c = cur
      BY <1>a, <1>c, <3>1
    <3>2. CASE c # cur
      BY <1>a, <1>c, <3>2 DEF LifeInv, Counted, InUse
    <3>3. QED
      BY <3>1, <3>2
  <2>2. QED
    BY <1>0, <1>a, <1>b, <2>1 DEF Counted, InUse, Step, Probing, Closing, ProbeSteps, CloseSteps
<1>3. Unopened'
  BY <1>b DEF Unopened, Step, Probing, ProbeSteps
<1>4. Listed'
  <2>1. \A c \in Life!Ctx : On(c)' <=> On(c)
    BY <1>0 DEF On
  <2>2. EarlyFailure => EarlyFailure'
    BY DEF EarlyFailure
  <2>3. QED
    BY <1>0, <1>a, <1>c, <1>d, <2>1, <2>2 DEF LifeInv, Listed
<1>5. Owned'
  <2>1. Life!OwnsOne'
    BY <1>c DEF LifeInv, Owned, Life!OwnsOne
  <2>2. \A c \in Life!Ctx : c <= n => ctx'[c].dev # Life!NoDev
    BY <1>a, <1>c DEF LifeInv, Owned
  <2>3. QED
    BY <1>0, <1>b, <2>1, <2>2 DEF Owned, Step, Probing, ProbeSteps
<1>6. Filled'
  BY <1>b DEF Filled, Step
<1>7. Served'
  <2>1. ASSUME NEW c \in Life!Ctx, c <= n
        PROVE  fw[ctx'[c].dev] = "fw" /\ \A i \in Life!Transfers : Running(c, i)'
    <3>1. c # cur /\ ctx'[c] = ctx[c]
      BY <1>a, <1>c, <2>1
    <3>2. QED
      BY <2>1, <3>1 DEF LifeInv, Served, Running
  <2>2. n >= 1 => ctx'[1].thread \in {"check", "poll"} /\ ~ctx'[1].stop
    <3>1. n >= 1 => cur # 1 /\ 1 \in Life!Ctx
      BY <1>a
    <3>2. QED
      BY <1>c, <3>1 DEF LifeInv, Served
  <2>3. QED
    BY <1>0, <1>b, <2>1, <2>2 DEF Served, Step, Probing, Closing, ProbeSteps, CloseSteps
<1>8. Life!CrashNeedsFailure'
  BY <1>0 DEF LifeInv, Life!CrashNeedsFailure
<1>9. QED
  BY <1>1, <1>2, <1>3, <1>4, <1>5, <1>6, <1>7, <1>8 DEF LifeInv


(* carlusb_open: a context with a device that none has.                    *)
LEMMA Unowned ==
  ASSUME LifeInv, NEW d \in Life!Found
  PROVE  d \in Devs /\ fw[d] # "away" /\ \A c \in Life!Ctx : ctx[c].dev # d
<1>1. d \in Devs /\ fw[d] # "away" /\ ~Life!Taken(d) /\ d # Life!NoDev
  BY LifeAssumption DEF Life!Found, Life!Sizes
<1>2. DOMAIN active = 1 .. Len(active)
  BY LifeFacts, LenProperties DEF LifeInv
<1>3. ASSUME NEW c \in Life!Ctx, ctx[c].dev = d PROVE FALSE
  <2>1. On(c)
    BY <1>1, <1>3 DEF LifeInv, Listed
  <2>2. QED
    BY <1>1, <1>2, <1>3, <2>1 DEF On, Life!Taken
<1>4. QED
  BY <1>1, <1>3

(* A context joins the list.                                               *)
LEMMA Joins ==
  ASSUME LifeInv, active' = Append(active, cur), ~On(cur)
  PROVE  /\ active' \in Seq(Life!Ctx)
         /\ \A c : On(c)' <=> On(c) \/ c = cur
         /\ \A j, k \in 1 .. Len(active') : active'[j] = active'[k] => j = k
<1>1. active \in Seq(Life!Ctx) /\ cur \in Life!Ctx
  BY LifeFacts DEF LifeInv
<1>2. /\ active' \in Seq(Life!Ctx) /\ Len(active) \in Nat /\ Len(active') = Len(active) + 1
      /\ \A k \in 1 .. Len(active) : active'[k] = active[k]
      /\ active'[Len(active) + 1] = cur
  BY <1>1, Pushed
<1>3. \A k \in 1 .. Len(active) : active[k] # cur
  BY DEF On
<1>4. \A k \in 1 .. Len(active') : k \in 1 .. Len(active) \/ k = Len(active) + 1
  BY <1>2
<1>5. \A c : On(c)' <=> On(c) \/ c = cur
  <2>1. Len(active) + 1 \in 1 .. Len(active') /\ \A k \in 1 .. Len(active) : k \in 1 .. Len(active')
    BY <1>2
  <2>2. QED
    BY <1>2, <1>4, <2>1 DEF On
<1>6. \A j, k \in 1 .. Len(active) : active[j] = active[k] => j = k
  BY DEF LifeInv, Listed
<1>7. ASSUME NEW j \in 1 .. Len(active'), NEW k \in 1 .. Len(active'), active'[j] = active'[k]
      PROVE  j = k
  BY <1>2, <1>3, <1>4, <1>6, <1>7
<1>8. QED
  BY <1>2, <1>5, <1>7

LEMMA OpenKeeps ==
  ASSUME LifeInv, Life!Open
  PROVE  LifeInv'
<1>a. /\ cur \in 1 .. MaxCtx /\ n \in 0 .. MaxCtx /\ MaxCtx \in Nat \ {0} /\ Life!Ctx = 1 .. MaxCtx
      /\ ctx \in [Life!Ctx -> Life!Contexts]
  BY LifeFacts DEF LifeInv
<1>1. CASE Life!WalkTouchesFreed
  <2>1. Life!Crash("freed context") /\ EarlyFailure
    BY <1>1, WalkFindsFreed DEF Life!Open
  <2>2. QED
    BY <2>1, CrashKeeps
<1>2. CASE /\ ~Life!WalkTouchesFreed
           /\ (IF Life!Found = {} THEN UNCHANGED failed ELSE Life!Fails("open"))
           /\ ctx' = [ctx EXCEPT ![cur] = [Life!Fresh EXCEPT !.st = "freed"]]
           /\ cur' = IF n > 0 THEN n ELSE cur
           /\ life_pc' = Life!AfterFailure /\ UNCHANGED <<active, n, fw, booting, bad>>
  <2>1. Step = "open"
    BY DEF Life!Open, Life!At, Step
  <2>2. \A f \in failed : f \in failed'
    BY <1>2, Failing
  <2>3. ctx' = [ctx EXCEPT ![cur] = Freed]
    BY <1>2 DEF Freed
  <2>4. QED
    BY <1>2, <2>1, <2>2, <2>3, ProbeFailed
<1>3. CASE \E d \in Life!Found :
             /\ ctx' = [ctx EXCEPT ![cur] = [Life!Fresh EXCEPT !.st = "used", !.dev = d]]
             /\ active' = Append(active, cur) /\ life_pc' = <<"info", 0>>
             /\ UNCHANGED <<failed, n, cur, fw, booting, bad>>
  <2>0. PICK d \in Life!Found :
          /\ ctx' = [ctx EXCEPT ![cur] = [Life!Fresh EXCEPT !.st = "used", !.dev = d]]
          /\ active' = Append(active, cur) /\ life_pc' = <<"info", 0>>
          /\ UNCHANGED <<failed, n, cur, fw, booting, bad>>
    BY <1>3
  <2>a. /\ life_pc = <<"open", 0>> /\ cur' = cur /\ n' = n /\ fw' = fw /\ booting' = booting
        /\ bad' = bad /\ failed' = failed /\ life_pc' = <<"info", 0>>
    BY <2>0 DEF Life!Open, Life!At
  <2>b. /\ d \in Devs /\ d # Life!NoDev /\ fw[d] # "away" /\ \A c \in Life!Ctx : ctx[c].dev # d
    BY Unowned, LifeAssumption DEF Life!Sizes
  <2>c. /\ \A c \in Life!Ctx : c # cur => ctx'[c] = ctx[c]
        /\ ctx'[cur].st = "used" /\ ctx'[cur].dev = d /\ ctx'[cur].told = FALSE
        /\ ctx'[cur].stop = FALSE
        /\ ctx' \in [Life!Ctx -> Life!Contexts]
    <3>1. ctx' = [ctx EXCEPT ![cur] = Opened(d)]
      BY <2>0 DEF Opened
    <3>2. QED
      BY <1>a, <2>b, <3>1, FreshFields
  <2>d. n = cur - 1 /\ ctx[cur] = Life!Fresh /\ \A c \in Life!Ctx : c > cur => ctx[c] = Life!Fresh
    BY <2>a DEF LifeInv, Counted, Unopened, Step
  <2>e. ~On(cur)
    <3>1. ctx[cur].st = "none"
      BY <2>d, FreshFields
    <3>2. QED
      BY <1>a, <3>1 DEF LifeInv, Listed
  <2>f. /\ active' \in Seq(Life!Ctx) /\ \A c : On(c)' <=> On(c) \/ c = cur
        /\ \A j, k \in 1 .. Len(active') : active'[j] = active'[k] => j = k
    BY <2>0, <2>e, Joins
  <2>1. Life!TypeOK'
    <3>1. life_pc' \in Life!Places
      BY <2>a, PlacesAre
    <3>2. QED
      BY <2>a, <2>c, <2>f, <3>1 DEF LifeInv, Life!TypeOK
  <2>2. Counted'
    <3>1. ASSUME NEW c \in Life!Ctx
          PROVE  (ctx'[c].told <=> c <= n) /\ (ctx'[c].st = "used" <=> c <= n \/ c = cur)
      <4>1. CASE c = cur
        BY <1>a, <2>c, <2>d, <4>1
      <4>2. CASE c # cur
        BY <1>a, <2>a, <2>c, <4>2
           DEF LifeInv, Counted, InUse, Step, Probing, Closing, ProbeSteps, CloseSteps
      <4>3. QED
        BY <4>1, <4>2
    <3>2. Cmd # "all" => cur = 1
      BY DEF LifeInv, Counted
    <3>3. QED
      BY <2>a, <2>d, <3>1, <3>2 DEF Counted, InUse, Step, Probing, Closing, ProbeSteps, CloseSteps
  <2>3. Unopened'
    <3>1. \A c \in Life!Ctx : c > cur => c # cur
      BY <1>a
    <3>2. QED
      BY <2>a, <2>c, <2>d, <3>1 DEF Unopened, Step
  <2>4. Listed'
    <3>1. EarlyFailure' <=> EarlyFailure
      BY <2>a DEF EarlyFailure
    <3>2. QED
      BY <2>c, <2>f, <3>1 DEF LifeInv, Listed
  <2>5. Owned'
    <3>1. Life!OwnsOne'
      BY <2>b, <2>c DEF LifeInv, Owned, Life!OwnsOne
    <3>2. \A c \in Life!Ctx : c <= n => ctx'[c].dev # Life!NoDev
      BY <1>a, <2>b, <2>c DEF LifeInv, Owned
    <3>3. QED
      BY <2>a, <2>b, <2>c, <3>1, <3>2 DEF Owned, Step, Probing
  <2>6. Filled'
    BY <2>a DEF Filled, Step
  <2>7. Served'
    <3>1. ASSUME NEW c \in Life!Ctx, c <= n
          PROVE  fw[ctx'[c].dev] = "fw" /\ \A i \in Life!Transfers : Running(c, i)'
      <4>1. c # cur
        BY <1>a, <2>d, <3>1
      <4>2. QED
        BY <2>a, <2>c, <3>1, <4>1
           DEF LifeInv, Served, Running, Step, Closing, CloseSteps
    <3>2. n >= 1 => ctx'[1].thread \in {"check", "poll"} /\ ~ctx'[1].stop
      <4>1. n >= 1 => cur # 1 /\ 1 \in Life!Ctx
        BY <1>a, <2>d
      <4>2. QED
        BY <2>a, <2>c, <4>1 DEF LifeInv, Served, Step, Closing, CloseSteps
    <3>3. QED
      BY <2>a, <2>c, <3>1, <3>2 DEF Served, Step
  <2>8. Life!CrashNeedsFailure'
    BY <2>a DEF LifeInv, Life!CrashNeedsFailure
  <2>9. QED
    BY <2>1, <2>2, <2>3, <2>4, <2>5, <2>6, <2>7, <2>8 DEF LifeInv
<1>4. QED
  BY <1>1, <1>2, <1>3 DEF Life!Open, Life!Goto, Life!At

(* carlusb_show_devinfo, carlusb_load_firmware, pipe.                      *)
LEMMA EarlyKeeps ==
  ASSUME LifeInv, NEW p \in {"info", "load", "pipe"}, NEW q,
         <<p, q>> \in {<<"info", "load">>, <<"load", "pipe">>, <<"pipe", "thread">>},
         Life!Early(Life!At(p), Life!At(q))
  PROVE  LifeInv'
<1>1. /\ life_pc = <<p, 0>> /\ UNCHANGED <<n, active, fw, booting, bad>>
      /\ \/ life_pc' = <<q, 0>> /\ UNCHANGED <<failed, ctx, cur>>
         \/ /\ Life!Fails(p) /\ ctx' = [ctx EXCEPT ![cur] = Freed]
            /\ life_pc' = Life!AfterFailure /\ cur' = IF n > 0 THEN n ELSE cur
  BY DEF Life!Early, Life!At, Life!Goto, Life!FreeDriver, Freed
<1>2. CASE life_pc' = <<q, 0>> /\ UNCHANGED <<failed, ctx, cur>>
  <2>1. Advances
    BY <1>1, <1>2 DEF Advances, Hop
  <2>2. QED
    BY <1>1, <1>2, <2>1, AdvanceKeeps
<1>3. CASE /\ Life!Fails(p) /\ ctx' = [ctx EXCEPT ![cur] = Freed]
           /\ life_pc' = Life!AfterFailure /\ cur' = IF n > 0 THEN n ELSE cur
  <2>1. p \in failed' /\ \A f \in failed : f \in failed'
    BY <1>3, Failing
  <2>2. Step \in {"open", "info", "load", "pipe"} /\ EarlyFailure'
    BY <1>1, <2>1 DEF Step, EarlyFailure
  <2>3. QED
    BY <1>1, <1>3, <2>1, <2>2, ProbeFailed
<1>4. QED
  BY <1>1, <1>2, <1>3


(* A step of main that changes the record of its context to r but leaves   *)
(* whose it is, which device it has and what was reported.                 *)
Touches(r) ==
  /\ r \in Life!Contexts /\ ctx' = [ctx EXCEPT ![cur] = r]
  /\ r.st = ctx[cur].st /\ r.dev = ctx[cur].dev /\ r.told = ctx[cur].told
  /\ \A f \in failed : f \in failed'
  /\ UNCHANGED <<cur, n, active, fw, booting, bad>>

Moves ==
  /\ life_pc' \in Life!Places
  /\ \/ Probing /\ life_pc'[1] \in (ProbeSteps \ {"reget", "irq"}) \cup CloseSteps
     \/ Closing /\ life_pc'[1] \in CloseSteps

LEMMA TouchKeeps ==
  ASSUME LifeInv, NEW r, Touches(r), Moves,
         life_pc'[1] \in ProbeSteps => r.dev # Life!NoDev /\ ~r.stop,
         life_pc'[1] \in {"rx", "echo"} => fw[r.dev] # "away",
         Filled'
  PROVE  LifeInv'
<1>0. /\ cur' = cur /\ n' = n /\ active' = active /\ fw' = fw /\ booting' = booting
      /\ bad' = bad /\ ctx' = [ctx EXCEPT ![cur] = r] /\ \A f \in failed : f \in failed'
  BY DEF Touches
<1>a. /\ cur \in 1 .. MaxCtx /\ n \in 0 .. MaxCtx /\ MaxCtx \in Nat \ {0} /\ Life!Ctx = 1 .. MaxCtx
      /\ ctx \in [Life!Ctx -> Life!Contexts]
  BY LifeFacts DEF LifeInv
<1>b. \/ n = cur - 1 /\ Step' \in (ProbeSteps \ {"reget", "irq"}) \cup CloseSteps
      \/ n \in {cur - 1, cur} /\ Closing /\ Step' \in CloseSteps
  BY DEF Moves, Step, LifeInv, Counted
<1>s. Step' # "open" /\ Step' \notin {"reget", "irq", "test", "close", "exit", "end"}
  BY <1>b DEF ProbeSteps, CloseSteps
<1>t. Step' \in ProbeSteps => n = cur - 1
  BY <1>b DEF ProbeSteps, CloseSteps
<1>c. /\ \A c \in Life!Ctx : c # cur => ctx'[c] = ctx[c]
      /\ ctx'[cur] = r /\ r.st = ctx[cur].st /\ r.dev = ctx[cur].dev /\ r.told = ctx[cur].told
      /\ ctx' \in [Life!Ctx -> Life!Contexts]
  BY <1>a DEF Touches
<1>d. \A c \in Life!Ctx : /\ ctx'[c].st = ctx[c].st /\ ctx'[c].dev = ctx[c].dev
                          /\ ctx'[c].told = ctx[c].told
  BY <1>c
<1>1. Life!TypeOK'
  BY <1>0, <1>c DEF LifeInv, Life!TypeOK, Moves
<1>2. Counted'
  <2>1. (Probing \/ Closing) /\ (Probing \/ Closing)'
    BY <1>b DEF Moves, Probing, Closing
  <2>2. \A c \in Life!Ctx : InUse(c)' <=> InUse(c)
    BY <1>0, <2>1 DEF InUse
  <2>3. \A c \in Life!Ctx : (ctx'[c].told <=> c <= n) /\ (ctx'[c].st = "used" <=> InUse(c)')
    BY <1>d, <2>2 DEF LifeInv, Counted
  <2>4. Cmd # "all" => cur = 1
    BY DEF LifeInv, Counted
  <2>5. Closing' => n \in {cur - 1, cur}
    BY <1>b
  <2>6. QED
    BY <1>0, <1>s, <1>t, <2>3, <2>4, <2>5 DEF Counted, Probing
<1>3. Unopened'
  <2>1. ASSUME Step' \in ProbeSteps PROVE \A c \in Life!Ctx : c > cur => ctx'[c] = Life!Fresh
    <3>1. Probing
      BY <1>b, <2>1 DEF Moves, Step, ProbeSteps, CloseSteps
    <3>2. \A c \in Life!Ctx : c > cur => c # cur
      BY <1>a
    <3>3. QED
      BY <1>c, <3>1, <3>2 DEF LifeInv, Unopened
  <2>2. QED
    BY <1>0, <1>s, <2>1 DEF Unopened, Probing
<1>4. Listed'
  BY <1>0, <1>d DEF LifeInv, Listed, On, EarlyFailure
<1>5. Owned'
  <2>1. Life!OwnsOne'
    BY <1>d DEF LifeInv, Owned, Life!OwnsOne
  <2>2. \A c \in Life!Ctx : c <= n => ctx'[c].dev # Life!NoDev
    BY <1>d DEF LifeInv, Owned
  <2>3. QED
    BY <1>0, <1>s, <1>c, <2>1, <2>2 DEF Owned, Step, Probing
<1>7. Served'
  <2>1. ASSUME NEW c \in Life!Ctx, c <= n, ~(c = cur /\ Closing')
        PROVE  fw[ctx'[c].dev] = "fw" /\ \A i \in Life!Transfers : Running(c, i)'
    <3>1. c # cur
      BY <1>a, <1>b, <2>1 DEF Closing, ProbeSteps, CloseSteps
    <3>2. ctx'[c] = ctx[c] /\ fw[ctx[c].dev] = "fw" /\ \A i \in Life!Transfers : Running(c, i)
      BY <1>c, <2>1, <3>1 DEF LifeInv, Served
    <3>3. QED
      BY <1>0, <3>2, RunsOn
  <2>2. ASSUME n >= 1, ~(cur = 1 /\ Closing')
        PROVE  ctx'[1].thread \in {"check", "poll"} /\ ~ctx'[1].stop
    <3>1. cur # 1 /\ 1 \in Life!Ctx
      BY <1>a, <1>b, <2>2 DEF Closing, ProbeSteps, CloseSteps
    <3>2. QED
      BY <1>c, <2>2, <3>1 DEF LifeInv, Served
  <2>3. QED
    BY <1>0, <1>c, <2>1, <2>2 DEF Served, Probing, Step
<1>8. Life!CrashNeedsFailure'
  BY <1>0 DEF LifeInv, Life!CrashNeedsFailure
<1>9. QED
  BY <1>1, <1>2, <1>3, <1>4, <1>5, <1>7, <1>8 DEF LifeInv

(* SDL_CreateThread.                                                       *)
LEMMA StartThreadKeeps ==
  ASSUME LifeInv, Life!StartThread
  PROVE  LifeInv'
<1>1. /\ Hop("thread", "upload") /\ UNCHANGED <<cur, n, active, fw, booting, bad>>
      /\ \/ ctx' = [ctx EXCEPT ![cur].thread = "check"] /\ failed' = failed
         \/ Life!Fails("thread") /\ ctx' = ctx
  BY DEF Life!StartThread, Life!At, Life!Goto, Hop
<1>a. cur \in Life!Ctx /\ ctx \in [Life!Ctx -> Life!Contexts] /\ ctx[cur] \in Life!Contexts
  BY LifeFacts DEF LifeInv
<1>2. CASE ctx' = [ctx EXCEPT ![cur].thread = "check"] /\ failed' = failed
  <2> DEFINE r == [ctx[cur] EXCEPT !.thread = "check"]
  <2>1. /\ r.st = ctx[cur].st /\ r.dev = ctx[cur].dev /\ r.told = ctx[cur].told
        /\ r.stop = ctx[cur].stop /\ r \in Life!Contexts
    <3>1. r \in Life!Contexts
      BY <1>a, Fields
    <3>2. /\ r.st = ctx[cur].st /\ r.dev = ctx[cur].dev /\ r.told = ctx[cur].told
          /\ r.stop = ctx[cur].stop
      BY <1>a DEF Life!Contexts
    <3>3. QED
      BY <3>1, <3>2
  <2>2. ctx' = [ctx EXCEPT ![cur] = r]
    BY <1>2
  <2> HIDE DEF r
  <2>3. Touches(r)
    BY <1>1, <1>2, <2>1, <2>2 DEF Touches
  <2>4. Step = "thread" /\ life_pc'[1] = "upload" /\ life_pc' \in Life!Places
    BY <1>1, PlacesAre DEF Hop, Step
  <2>5. Moves
    BY <2>4 DEF Moves, Probing, ProbeSteps
  <2>6. r.dev # Life!NoDev /\ ~r.stop
    BY <2>1, <2>4 DEF LifeInv, Owned, Served, Probing, ProbeSteps
  <2>7. Filled'
    BY <1>1 DEF Filled, Step, Hop
  <2>8. QED
    BY <2>3, <2>4, <2>5, <2>6, <2>7, TouchKeeps
<1>3. CASE Life!Fails("thread") /\ ctx' = ctx
  <2>1. Remembers
    BY <1>3, Failing DEF Remembers
  <2>2. Advances
    BY <1>1, <2>1 DEF Advances
  <2>3. QED
    BY <1>1, <1>3, <2>2, AdvanceKeeps
<1>4. QED
  BY <1>1, <1>2, <1>3

(* Steps that look at nothing of their context.                            *)
LEMMA PlainKeeps ==
  ASSUME LifeInv, Life!Upload \/ Life!Test \/ Life!Wait \/ Life!Exit
  PROVE  LifeInv'
<1>1. UNCHANGED <<cur, n, ctx, active, fw, booting, bad>>
  BY DEF Life!Upload, Life!Test, Life!Wait, Life!Exit
<1>2. Advances
  <2>1. CASE Life!Upload
    <3>1. \/ Hop("upload", "boot") /\ failed' = failed
          \/ Hop("upload", "kill") /\ Life!Fails("upload")
      BY <2>1 DEF Life!Upload, Life!At, Life!Goto, Hop
    <3>2. Life!Fails("upload") => Remembers
      BY Failing DEF Remembers
    <3>3. QED
      BY <3>1, <3>2 DEF Advances
  <2>2. CASE Life!Test \/ Life!Wait \/ Life!Exit
    BY <2>2 DEF Life!Test, Life!Wait, Life!Exit, Life!At, Life!Goto, Advances, Hop
  <2>3. QED
    BY <2>1, <2>2
<1>3. QED
  BY <1>1, <1>2, AdvanceKeeps

(* list_del: the context leaves the list, the others stay as they are.     *)
LEMMA Leaves ==
  ASSUME LifeInv, active' = Life!Without
  PROVE  /\ active' \in Seq(Life!Ctx)
         /\ \A c : On(c)' <=> On(c) /\ c # cur
         /\ \A j, k \in 1 .. Len(active') : active'[j] = active'[k] => j = k
<1>a. /\ active \in Seq(Life!Ctx) /\ DOMAIN active = 1 .. Len(active) /\ Len(active) \in Nat
  BY LifeFacts, LenProperties DEF LifeInv
<1>b. \A j, k \in 1 .. Len(active) : active[j] = active[k] => j = k
  BY DEF LifeInv, Listed
<1>1. CASE Life!Positions = {}
  <2>1. active' = active /\ \A k \in 1 .. Len(active) : active[k] # cur
    BY <1>1, <1>a DEF Life!Without, Life!Positions
  <2>2. QED
    BY <2>1, <1>a, <1>b DEF On
<1>2. CASE Life!Positions # {}
  <2> DEFINE p == CHOOSE k \in Life!Positions : TRUE
  <2>1. p \in 1 .. Len(active) /\ active[p] = cur /\ active' = Life!RemoveAt(active, p)
    BY <1>2, <1>a DEF Life!Without, Life!Positions
  <2> HIDE DEF p
  <2> DEFINE m == Len(active)
  <2>2. m \in Nat /\ p \in 1 .. m /\ m - 1 \in Nat
    BY <2>1, <1>a
  <2>7. /\ active' \in Seq(Life!Ctx) /\ Len(active') = m - 1
        /\ \A k \in 1 .. p - 1 : active'[k] = active[k]
        /\ \A k \in p .. m - 1 : active'[k] = active[k + 1]
    <3>1. active' = Gone(active, p)
      BY <2>1 DEF Life!RemoveAt, Gone
    <3>2. QED
      BY <1>a, <2>1, <3>1, Spliced
  <2>8. /\ \A k \in 1 .. p - 1 : active'[k] = active[k]
        /\ \A k \in p .. m - 1 : active'[k] = active[k + 1]
    BY <2>7
  <2> HIDE DEF m
  <2>9. \A c : On(c)' <=> On(c) /\ c # cur
    <3>1. ASSUME NEW c, NEW k \in 1 .. m - 1, active'[k] = c
          PROVE  c # cur /\ \E j \in 1 .. m : active[j] = c
      <4>1. CASE k \in 1 .. p - 1
        BY <4>1, <3>1, <2>1, <2>2, <2>8, <1>b DEF m
      <4>2. CASE k \in p .. m - 1
        <5>1. k + 1 \in 1 .. m /\ k + 1 # p /\ active[k + 1] = c
          BY <4>2, <3>1, <2>2, <2>8
        <5>2. QED
          BY <5>1, <2>1, <1>b DEF m
      <4>3. QED
        BY <4>1, <4>2, <2>2
    <3>2. ASSUME NEW c, c # cur, NEW j \in 1 .. m, active[j] = c
          PROVE  \E k \in 1 .. m - 1 : active'[k] = c
      <4>1. j # p
        BY <3>2, <2>1
      <4>2. CASE j < p
        BY <4>2, <3>2, <2>2, <2>8
      <4>3. CASE j > p
        <5>1. j - 1 \in p .. m - 1 /\ (j - 1) + 1 = j /\ j - 1 \in 1 .. m - 1
          BY <4>3, <2>2
        <5>2. QED
          BY <5>1, <3>2, <2>8
      <4>4. QED
        BY <4>1, <4>2, <4>3, <2>2
    <3>3. QED
      BY <3>1, <3>2, <2>7 DEF On, m
  <2>10. ASSUME NEW j \in 1 .. m - 1, NEW k \in 1 .. m - 1, active'[j] = active'[k]
         PROVE  j = k
    <3>1. \A i \in 1 .. m - 1 : \/ i \in 1 .. p - 1 /\ i \in 1 .. m /\ active'[i] = active[i]
                                \/ i \in p .. m - 1 /\ i + 1 \in 1 .. m /\ active'[i] = active[i + 1]
      BY <2>2, <2>8
    <3>2. \A i, l \in 1 .. m : active[i] = active[l] => i = l
      BY <1>b DEF m
    <3>3. QED
      BY <3>1, <3>2, <2>10, <2>2
  <2>11. QED
    BY <2>7, <2>9, <2>10
<1>3. QED
  BY <1>1, <1>2

LEMMA DelFindsFreed ==
  ASSUME LifeInv, Life!DelTouchesFreed
  PROVE  EarlyFailure
<1>1. PICK k \in DOMAIN active : ctx[active[k]].st = "freed"
  BY DEF Life!DelTouchesFreed
<1>2. k \in 1 .. Len(active) /\ active[k] \in Life!Ctx
  BY <1>1, LifeFacts, LenProperties DEF LifeInv
<1>3. QED
  BY <1>1, <1>2 DEF LifeInv, Listed, On

(* The reset between the upload and the receive transfers: the context     *)
(* loses its device and gets what the walk finds, perhaps none.            *)
Redevices(e) ==
  /\ ctx' = [ctx EXCEPT ![cur].dev = e] /\ e \in Devs \cup {Life!NoDev}
  /\ \/ Hop("drop", "reget")
     \/ Hop("reget", "irq")
  /\ UNCHANGED <<cur, n, fw, booting, bad>> /\ \A f \in failed : f \in failed'

LEMMA RedeviceFacts ==
  ASSUME LifeInv, NEW e, Redevices(e)
  PROVE  /\ cur \in 1 .. MaxCtx /\ n \in 0 .. MaxCtx /\ MaxCtx \in Nat \ {0}
         /\ Life!Ctx = 1 .. MaxCtx /\ n = cur - 1
         /\ ctx' \in [Life!Ctx -> Life!Contexts]
         /\ \A c \in Life!Ctx : c # cur => ctx'[c] = ctx[c]
         /\ ctx'[cur].dev = e
         /\ ctx'[cur].st = ctx[cur].st /\ ctx'[cur].told = ctx[cur].told
         /\ ctx'[cur].stop = ctx[cur].stop
         /\ cur' = cur /\ n' = n /\ fw' = fw /\ booting' = booting
         /\ \A f \in failed : f \in failed'
         /\ bad' = bad
         /\ Step \in {"drop", "reget"} /\ Step' \in {"reget", "irq"}
<1>1. /\ cur \in 1 .. MaxCtx /\ n \in 0 .. MaxCtx /\ MaxCtx \in Nat \ {0}
      /\ Life!Ctx = 1 .. MaxCtx /\ ctx \in [Life!Ctx -> Life!Contexts]
  BY LifeFacts DEF LifeInv
<1>2. /\ cur' = cur /\ n' = n /\ fw' = fw /\ booting' = booting
      /\ \A f \in failed : f \in failed'
      /\ bad' = bad
      /\ Step \in {"drop", "reget"} /\ Step' \in {"reget", "irq"}
  <2>1. /\ cur' = cur /\ n' = n /\ fw' = fw /\ booting' = booting /\ bad' = bad
        /\ \A f \in failed : f \in failed'
    BY DEF Redevices
  <2>2. Step \in {"drop", "reget"} /\ Step' \in {"reget", "irq"}
    BY DEF Redevices, Hop, Step
  <2>3. QED
    BY <2>1, <2>2
<1>3. n = cur - 1
  BY <1>2 DEF LifeInv, Counted, Probing, ProbeSteps
<1> DEFINE r == [ctx[cur] EXCEPT !.dev = e]
<1>4. r \in Life!Contexts
  <2>1. ctx[cur] \in Life!Contexts /\ e \in Devs \cup {Life!NoDev}
    BY <1>1 DEF Redevices
  <2>2. QED
    BY <2>1, Fields
<1>5. /\ r.dev = e /\ r.st = ctx[cur].st /\ r.told = ctx[cur].told /\ r.stop = ctx[cur].stop
  BY <1>1 DEF Life!Contexts
<1>6. ctx' = [ctx EXCEPT ![cur] = r]
  BY DEF Redevices
<1> HIDE DEF r
<1>7. QED
  BY <1>1, <1>2, <1>3, <1>4, <1>5, <1>6

LEMMA RedeviceKeeps ==
  ASSUME LifeInv, NEW e, Redevices(e), active' \in Seq(Life!Ctx), Listed', Owned'
  PROVE  LifeInv'
<1>a. /\ cur \in 1 .. MaxCtx /\ n \in 0 .. MaxCtx /\ MaxCtx \in Nat \ {0}
      /\ Life!Ctx = 1 .. MaxCtx /\ n = cur - 1
      /\ ctx' \in [Life!Ctx -> Life!Contexts]
      /\ \A c \in Life!Ctx : c # cur => ctx'[c] = ctx[c]
      /\ ctx'[cur].st = ctx[cur].st /\ ctx'[cur].told = ctx[cur].told
      /\ ctx'[cur].stop = ctx[cur].stop
      /\ cur' = cur /\ n' = n /\ fw' = fw /\ booting' = booting
      /\ \A f \in failed : f \in failed'
      /\ bad' = bad
      /\ Step \in {"drop", "reget"} /\ Step' \in {"reget", "irq"}
  BY RedeviceFacts
<1>b. Probing /\ Probing' /\ ~Closing'
  BY <1>a DEF Probing, Closing, ProbeSteps, CloseSteps
<1>1. Life!TypeOK'
  <2>1. life_pc' \in Life!Places
    BY PlacesAre DEF Redevices, Hop
  <2>2. QED
    BY <1>a, <2>1 DEF LifeInv, Life!TypeOK
<1>2. Counted'
  <2>1. \A c \in Life!Ctx : InUse(c)' <=> InUse(c)
    BY <1>a, <1>b DEF InUse
  <2>2. \A c \in Life!Ctx : ctx'[c].told = ctx[c].told /\ ctx'[c].st = ctx[c].st
    BY <1>a
  <2>3. \A c \in Life!Ctx : (ctx'[c].told <=> c <= n) /\ (ctx'[c].st = "used" <=> InUse(c)')
    BY <2>1, <2>2 DEF LifeInv, Counted
  <2>4. Cmd # "all" => cur = 1
    BY DEF LifeInv, Counted
  <2>5. QED
    BY <1>a, <1>b, <2>3, <2>4 DEF Counted
<1>3. Unopened'
  <2>1. \A c \in Life!Ctx : c > cur => c # cur
    BY <1>a
  <2>2. QED
    BY <1>a, <1>b, <2>1 DEF LifeInv, Unopened
<1>4. Filled'
  BY <1>a DEF Filled, Redevices, Hop, Step
<1>5. Served'
  <2>1. ASSUME NEW c \in Life!Ctx, c <= n
        PROVE  fw[ctx'[c].dev] = "fw" /\ \A i \in Life!Transfers : Running(c, i)'
    <3>1. c # cur /\ ~Closing
      BY <1>a, <2>1 DEF Closing, CloseSteps
    <3>2. ctx'[c] = ctx[c] /\ fw[ctx[c].dev] = "fw" /\ \A i \in Life!Transfers : Running(c, i)
      BY <1>a, <2>1, <3>1 DEF LifeInv, Served
    <3>3. QED
      BY <1>a, <3>2, RunsOn
  <2>2. n >= 1 => ctx'[1].thread \in {"check", "poll"} /\ ~ctx'[1].stop
    <3>1. (n >= 1 => cur # 1 /\ 1 \in Life!Ctx) /\ ~Closing
      BY <1>a DEF Closing, CloseSteps
    <3>2. QED
      BY <1>a, <3>1 DEF LifeInv, Served
  <2>3. ~ctx'[cur].stop
    BY <1>a, <1>b DEF LifeInv, Served
  <2>4. QED
    BY <1>a, <2>1, <2>2, <2>3 DEF Served
<1>6. Life!CrashNeedsFailure'
  BY <1>a DEF LifeInv, Life!CrashNeedsFailure
<1>7. QED
  BY <1>1, <1>2, <1>3, <1>4, <1>5, <1>6 DEF LifeInv

LEMMA DropKeeps ==
  ASSUME LifeInv, Life!Drop
  PROVE  LifeInv'
<1>1. CASE Life!DelTouchesFreed
  <2>1. Life!Crash("freed context") /\ EarlyFailure
    BY <1>1, DelFindsFreed DEF Life!Drop
  <2>2. QED
    BY <2>1, CrashKeeps
<1>2. CASE ~Life!DelTouchesFreed
  <2>1. Redevices(Life!NoDev) /\ active' = Life!Without /\ Hop("drop", "reget")
    BY <1>2 DEF Life!Drop, Redevices, Hop, Life!At, Life!Goto
  <2>a. /\ cur \in 1 .. MaxCtx /\ n = cur - 1 /\ Life!Ctx = 1 .. MaxCtx
        /\ \A c \in Life!Ctx : c # cur => ctx'[c] = ctx[c]
        /\ ctx'[cur].dev = Life!NoDev /\ ctx'[cur].st = ctx[cur].st
        /\ cur' = cur /\ n' = n /\ fw' = fw /\ \A f \in failed : f \in failed'
    BY <2>1, RedeviceFacts
  <2>b. Step = "drop" /\ Step' = "reget"
    BY <2>1 DEF Hop, Step
  <2>c. /\ active' \in Seq(Life!Ctx) /\ \A c : On(c)' <=> On(c) /\ c # cur
        /\ \A j, k \in 1 .. Len(active') : active'[j] = active'[k] => j = k
    BY <2>1, Leaves
  <2>2. Listed'
    <3>1. EarlyFailure => EarlyFailure'
      BY <2>a DEF EarlyFailure
    <3>2. \A c \in Life!Ctx : ctx'[c].st = ctx[c].st
      BY <2>a
    <3>3. \A c \in Life!Ctx : ctx'[c].dev # Life!NoDev => c # cur
      BY <2>a
    <3>4. QED
      BY <2>a, <2>c, <3>1, <3>2, <3>3 DEF LifeInv, Listed
  <2>3. Owned'
    <3>1. ctx[cur].dev \in Devs
      <4>1. ctx[cur].dev # Life!NoDev
        BY <2>b DEF LifeInv, Owned, Probing, ProbeSteps
      <4>2. QED
        BY <4>1 DEF LifeInv, Life!TypeOK, Life!Contexts
    <3>2. ctx[cur].dev # Life!NoDev
      BY <3>1, LifeAssumption DEF Life!Sizes
    <3>3. \A c \in Life!Ctx : ctx'[c].dev # ctx[cur].dev
      BY <2>a, <3>2 DEF LifeInv, Owned, Life!OwnsOne
    <3>4. Life!OwnsOne'
      BY <2>a DEF LifeInv, Owned, Life!OwnsOne
    <3>5. \A c \in Life!Ctx : c <= n => ctx'[c].dev # Life!NoDev
      <4>1. \A c \in Life!Ctx : c <= n => c # cur
        BY <2>a
      <4>2. QED
        BY <2>a, <4>1 DEF LifeInv, Owned
    <3>6. QED
      BY <2>a, <2>b, <2>c, <3>1, <3>3, <3>4, <3>5 DEF Owned
  <2>4. QED
    BY <2>1, <2>2, <2>3, <2>c, RedeviceKeeps
<1>3. QED
  BY <1>1, <1>2

LEMMA RegetKeeps ==
  ASSUME LifeInv, Life!Reget
  PROVE  LifeInv'
<1>1. CASE Life!WalkTouchesFreed
  <2>1. Life!Crash("freed context") /\ EarlyFailure
    BY <1>1, WalkFindsFreed DEF Life!Reget
  <2>2. QED
    BY <2>1, CrashKeeps
<1>a. Step = "reget"
  BY DEF Life!Reget, Life!At, Step
<1>b. ctx[cur].dev = Life!NoDev /\ ~On(cur) /\ \E d \in Devs : \A c \in Life!Ctx : ctx[c].dev # d
  BY <1>a DEF LifeInv, Owned
<1>2. CASE /\ ~Life!WalkTouchesFreed /\ UNCHANGED <<ctx, active>>
           /\ IF Life!Found = {} THEN UNCHANGED failed ELSE Life!Fails("reget")
  <2>0. (\A f \in failed : f \in failed') /\ (Life!Found # {} => "reget" \in failed')
    BY <1>2, Failing
  <2>1. /\ ctx' = ctx /\ active' = active /\ Hop("reget", "irq")
        /\ UNCHANGED <<cur, n, fw, booting, bad>> /\ \A f \in failed : f \in failed'
    BY <1>2, <2>0 DEF Life!Reget, Hop, Life!At, Life!Goto
  <2>2. ctx' = [ctx EXCEPT ![cur].dev = Life!NoDev]
    <3>1. ctx[cur] \in Life!Contexts /\ ctx \in [Life!Ctx -> Life!Contexts] /\ cur \in Life!Ctx
      BY LifeFacts DEF LifeInv
    <3>2. [ctx[cur] EXCEPT !.dev = Life!NoDev] = ctx[cur]
      BY <1>b, <3>1 DEF Life!Contexts
    <3>3. QED
      BY <2>1, <3>1, <3>2
  <2>3. Redevices(Life!NoDev)
    BY <2>1, <2>2 DEF Redevices
  <2>4. CanBeLate \/ "reget" \in failed'
    <3>1. PICK d \in Devs : \A c \in Life!Ctx : ctx[c].dev # d
      BY <1>b
    <3>2. ~Life!Taken(d)
      <4>1. \A k \in DOMAIN active : active[k] \in Life!Ctx
        BY LifeFacts, LenProperties DEF LifeInv
      <4>2. QED
        BY <3>1, <4>1 DEF Life!Taken
    <3>3. QED
      BY <2>0, <3>2 DEF Life!Found, Life!Reget
  <2>5. Listed'
    BY <2>1 DEF LifeInv, Listed, On, EarlyFailure
  <2>6. Owned'
    <3>1. Step' = "irq"
      BY <2>1 DEF Hop, Step
    <3>2. Life!OwnsOne'
      BY <2>1 DEF LifeInv, Owned, Life!OwnsOne
    <3>3. QED
      BY <1>b, <2>1, <2>4, <3>1, <3>2 DEF LifeInv, Owned
  <2>7. active' \in Seq(Life!Ctx)
    BY <2>1, LifeFacts DEF LifeInv
  <2>8. QED
    BY <2>3, <2>5, <2>6, <2>7, RedeviceKeeps
<1>3. CASE /\ ~Life!WalkTouchesFreed
           /\ \E d \in Life!Found : /\ ctx' = [ctx EXCEPT ![cur].dev = d]
                                    /\ active' = Append(active, cur) /\ failed' = failed
  <2>0. PICK d \in Life!Found : ctx' = [ctx EXCEPT ![cur].dev = d] /\ active' = Append(active, cur)
    BY <1>3
  <2>b. d \in Devs /\ d # Life!NoDev /\ fw[d] # "away" /\ \A c \in Life!Ctx : ctx[c].dev # d
    BY Unowned, LifeAssumption DEF Life!Sizes
  <2>1. Redevices(d) /\ Hop("reget", "irq")
    BY <1>3, <2>0, <2>b DEF Life!Reget, Redevices, Hop, Life!At, Life!Goto
  <2>a. /\ cur \in 1 .. MaxCtx /\ n = cur - 1 /\ Life!Ctx = 1 .. MaxCtx
        /\ \A c \in Life!Ctx : c # cur => ctx'[c] = ctx[c]
        /\ ctx'[cur].dev = d /\ ctx'[cur].st = ctx[cur].st
        /\ cur' = cur /\ n' = n /\ fw' = fw /\ \A f \in failed : f \in failed'
    BY <2>1, RedeviceFacts
  <2>c. /\ active' \in Seq(Life!Ctx) /\ \A c : On(c)' <=> On(c) \/ c = cur
        /\ \A j, k \in 1 .. Len(active') : active'[j] = active'[k] => j = k
    BY <2>0, <1>b, Joins
  <2>d. ctx[cur].st = "used"
    BY <1>a, LifeFacts DEF LifeInv, Counted, InUse, Probing, ProbeSteps
  <2>2. Listed'
    <3>1. EarlyFailure => EarlyFailure'
      BY <2>a DEF EarlyFailure
    <3>2. \A c \in Life!Ctx : ctx'[c].st = ctx[c].st
      BY <2>a
    <3>3. \A c \in Life!Ctx : c # cur => ctx'[c].dev = ctx[c].dev
      BY <2>a
    <3>4. QED
      BY <2>a, <2>c, <2>d, <3>1, <3>2, <3>3 DEF LifeInv, Listed
  <2>3. Owned'
    <3>1. Step' = "irq"
      BY <2>1 DEF Hop, Step
    <3>2. Life!OwnsOne'
      BY <2>a, <2>b DEF LifeInv, Owned, Life!OwnsOne
    <3>3. \A c \in Life!Ctx : c <= n => ctx'[c].dev # Life!NoDev
      <4>1. \A c \in Life!Ctx : c <= n => c # cur
        BY <2>a
      <4>2. QED
        BY <2>a, <4>1 DEF LifeInv, Owned
    <3>4. QED
      BY <2>a, <2>b, <3>1, <3>2, <3>3 DEF Owned, Probing
  <2>4. QED
    BY <2>1, <2>2, <2>3, <2>c, RedeviceKeeps
<1>4. QED
  BY <1>1, <1>2, <1>3 DEF Life!Reget

(* A device is reset, to boot or to go back to its rom: no other context   *)
(* has it.                                                                 *)
LEMMA AwayKeeps ==
  ASSUME LifeInv, Hop("boot", "drop") \/ Hop("close", "kill"),
         fw' = [fw EXCEPT ![ctx[cur].dev] = "away"], NEW b \in {"rom", "fw"},
         booting' = [booting EXCEPT ![ctx[cur].dev] = b],
         UNCHANGED <<cur, n, ctx, active, failed, bad>>
  PROVE  LifeInv'
<1>0. /\ cur' = cur /\ n' = n /\ ctx' = ctx /\ active' = active /\ failed' = failed /\ bad' = bad
  OBVIOUS
<1>a. cur \in 1 .. MaxCtx /\ n \in 0 .. MaxCtx /\ MaxCtx \in Nat \ {0} /\ Life!Ctx = 1 .. MaxCtx
  BY LifeFacts DEF LifeInv
<1>b. \/ Step = "boot" /\ Step' = "drop" /\ n = cur - 1
      \/ Step = "close" /\ Step' = "kill" /\ n = cur
  BY DEF Hop, Step, LifeInv, Counted, Probing, ProbeSteps
<1>c. ctx[cur].dev # Life!NoDev
  <2>1. CASE Step = "boot"
    BY <2>1 DEF LifeInv, Owned, Probing, ProbeSteps
  <2>2. CASE Step = "close"
    BY <1>a, <1>b, <2>2 DEF LifeInv, Owned
  <2>3. QED
    BY <1>b, <2>1, <2>2
<1>d. \A c \in Life!Ctx : c # cur => ctx[c].dev # ctx[cur].dev
  BY <1>a, <1>c DEF LifeInv, Owned, Life!OwnsOne
<1>e. \A c \in Life!Ctx : ctx[c].dev # Life!NoDev => ctx[c].dev \in Devs
  BY DEF LifeInv, Life!TypeOK, Life!Contexts
<1>f. \A d \in Devs : d # ctx[cur].dev => fw'[d] = fw[d]
  BY DEF LifeInv, Life!TypeOK
<1>1. Life!TypeOK'
  <2>1. life_pc' \in Life!Places
    BY PlacesAre DEF Hop
  <2>2. fw' \in [Devs -> {"rom", "fw", "away"}] /\ booting' \in [Devs -> {"rom", "fw"}]
    BY DEF LifeInv, Life!TypeOK
  <2>3. QED
    BY <1>0, <2>1, <2>2 DEF LifeInv, Life!TypeOK
<1>2. Counted'
  BY <1>0, <1>a, <1>b DEF LifeInv, Counted, InUse, Probing, Closing, ProbeSteps, CloseSteps
<1>3. Unopened'
  BY <1>0, <1>b DEF LifeInv, Unopened, Probing, ProbeSteps
<1>4. Listed'
  BY <1>0 DEF LifeInv, Listed, On, EarlyFailure
<1>5. Owned'
  <2>1. Life!OwnsOne' /\ \A c \in Life!Ctx : c <= n => ctx'[c].dev # Life!NoDev
    BY <1>0 DEF LifeInv, Owned, Life!OwnsOne
  <2>2. QED
    BY <1>0, <1>b, <1>c, <2>1 DEF Owned
<1>6. Filled'
  <2>1. CASE Step' = "drop"
    BY <2>1 DEF Filled, Step
  <2>2. CASE Step' = "kill"
    <3>1. \A i \in Life!Transfers : ctx[cur].tr[i] \in {"live", "cb", "lost"}
      BY <1>a, <1>b, <2>2 DEF LifeInv, Served, Running, Closing, CloseSteps
    <3>2. QED
      BY <1>0, <2>2, <3>1 DEF Filled, Step
  <2>3. QED
    BY <1>b, <2>1, <2>2
<1>7. Served'
  <2>1. ASSUME NEW c \in Life!Ctx, c <= n, ~(c = cur /\ Closing')
        PROVE  fw'[ctx[c].dev] = "fw" /\ \A i \in Life!Transfers : Running(c, i)
    <3>1. c # cur /\ ~Closing
      BY <1>a, <1>b, <2>1 DEF Closing, CloseSteps
    <3>2. ctx[c].dev \in Devs /\ ctx[c].dev # ctx[cur].dev
      BY <1>d, <1>e, <2>1, <3>1 DEF LifeInv, Owned
    <3>3. QED
      BY <1>f, <2>1, <3>1, <3>2 DEF LifeInv, Served
  <2>2. ASSUME n >= 1, ~(cur = 1 /\ Closing')
        PROVE  ctx[1].thread \in {"check", "poll"} /\ ~ctx[1].stop
    <3>1. ~Closing
      BY <1>b DEF Closing, CloseSteps
    <3>2. QED
      BY <2>2, <3>1 DEF LifeInv, Served
  <2>3. Probing' => ~ctx[cur].stop
    BY <1>b DEF LifeInv, Served, Probing, ProbeSteps
  <2>4. QED
    BY <1>0, <2>1, <2>2, <2>3 DEF Served, Running
<1>8. Life!CrashNeedsFailure'
  BY <1>0 DEF LifeInv, Life!CrashNeedsFailure
<1>9. QED
  BY <1>1, <1>2, <1>3, <1>4, <1>5, <1>6, <1>7, <1>8 DEF LifeInv

LEMMA ResetKeeps ==
  ASSUME LifeInv, Life!Boot \/ Life!Close
  PROVE  LifeInv'
<1>1. CASE Life!Boot
  <2>1. CASE Life!Fails("boot") /\ Hop("boot", "kill") /\ UNCHANGED <<cur, n, ctx, active, fw, booting, bad>>
    <3>1. Advances
      BY <2>1, Failing DEF Advances, Remembers
    <3>2. QED
      BY <2>1, <3>1, AdvanceKeeps
  <2>2. CASE /\ Hop("boot", "drop") /\ fw' = [fw EXCEPT ![ctx[cur].dev] = "away"]
             /\ booting' = [booting EXCEPT ![ctx[cur].dev] = "fw"]
             /\ UNCHANGED <<cur, n, ctx, active, failed, bad>>
    BY <2>2, AwayKeeps
  <2>3. QED
    BY <1>1, <2>1, <2>2 DEF Life!Boot, Life!At, Life!Goto, Hop, Life!me
<1>2. CASE Life!Close
  <2>1. CASE Life!Fails("reboot") /\ Hop("close", "kill") /\ UNCHANGED <<cur, n, ctx, active, fw, booting, bad>>
    <3>1. Advances
      BY <2>1, Failing DEF Advances, Remembers
    <3>2. QED
      BY <2>1, <3>1, AdvanceKeeps
  <2>2. CASE /\ Hop("close", "kill") /\ fw' = [fw EXCEPT ![ctx[cur].dev] = "away"]
             /\ booting' = [booting EXCEPT ![ctx[cur].dev] = "rom"]
             /\ UNCHANGED <<cur, n, ctx, active, failed, bad>>
    BY <2>2, AwayKeeps
  <2>3. QED
    BY <1>2, <2>1, <2>2 DEF Life!Close, Life!At, Life!Goto, Hop, Life!me
<1>3. QED
  BY <1>1, <1>2

(* One transfer of a context changes.                                      *)
Changed(q, i, s) == [q EXCEPT !.tr[i] = s]

LEMMA TransferFields ==
  ASSUME NEW q \in Life!Contexts, NEW i \in Life!Transfers, NEW s \in Life!TrStates
  PROVE  LET r == Changed(q, i, s) IN
         /\ r \in Life!Contexts /\ r.st = q.st /\ r.dev = q.dev /\ r.told = q.told
         /\ r.stop = q.stop /\ r.thread = q.thread
         /\ r.tr[i] = s /\ \A j \in Life!Transfers : j # i => r.tr[j] = q.tr[j]
<1> DEFINE r == Changed(q, i, s)
<1>1. r \in Life!Contexts
  BY Fields DEF Changed
<1>2. /\ r.st = q.st /\ r.dev = q.dev /\ r.told = q.told
      /\ r.stop = q.stop /\ r.thread = q.thread
  BY DEF Life!Contexts, Changed
<1>3. q.tr \in [Life!Transfers -> Life!TrStates]
  BY DEF Life!Contexts
<1>4. r.tr = [q.tr EXCEPT ![i] = s]
  BY DEF Life!Contexts, Changed
<1> HIDE DEF r
<1>5. r.tr[i] = s /\ \A j \in Life!Transfers : j # i => r.tr[j] = q.tr[j]
  BY <1>3, <1>4
<1>6. QED
  BY <1>1, <1>2, <1>5 DEF r

(* The same, as a step of main.                                            *)
LEMMA TransferTouches ==
  ASSUME LifeInv, NEW i \in Life!Transfers, NEW s \in Life!TrStates,
         ctx' = [ctx EXCEPT ![cur].tr[i] = s], \A f \in failed : f \in failed',
         UNCHANGED <<cur, n, active, fw, booting, bad>>
  PROVE  /\ \E r : Touches(r) /\ r.dev = ctx[cur].dev /\ r.stop = ctx[cur].stop
         /\ ctx'[cur].tr[i] = s
         /\ \A j \in Life!Transfers : j # i => ctx'[cur].tr[j] = ctx[cur].tr[j]
<1>a. cur \in Life!Ctx /\ ctx \in [Life!Ctx -> Life!Contexts] /\ ctx[cur] \in Life!Contexts
  BY LifeFacts DEF LifeInv
<1> DEFINE r == Changed(ctx[cur], i, s)
<1>1. /\ r \in Life!Contexts /\ r.st = ctx[cur].st /\ r.dev = ctx[cur].dev /\ r.told = ctx[cur].told
      /\ r.stop = ctx[cur].stop
      /\ r.tr[i] = s /\ \A j \in Life!Transfers : j # i => r.tr[j] = ctx[cur].tr[j]
  BY <1>a, TransferFields
<1>2. ctx' = [ctx EXCEPT ![cur] = r]
  BY DEF Changed
<1> HIDE DEF r
<1>3. ctx'[cur] = r
  BY <1>a, <1>2
<1>4. Touches(r)
  BY <1>1, <1>2 DEF Touches
<1>5. QED
  BY <1>1, <1>3, <1>4

(* carlusb_initialize_rxirq and the rounds of carlusb_initialize_rxrings.  *)
Submits(i) == \/ i = 0 /\ Life!Submit(Life!At("irq"), 0, <<"rx", 1>>)
              \/ i \in 1 .. NRx /\ Life!Submit(<<"rx", i>>, i, Life!AfterRx(i))

LEMMA SubmitKeeps ==
  ASSUME LifeInv, NEW i, Submits(i)
  PROVE  LifeInv'
<1> DEFINE p == IF i = 0 THEN <<"irq", 0>> ELSE <<"rx", i>>
           next == IF i = 0 THEN <<"rx", 1>> ELSE IF i = NRx THEN <<"echo", 0>> ELSE <<"rx", i + 1>>
<1>a. NRx \in Nat \ {0} /\ i \in 0 .. NRx /\ Life!Transfers = 0 .. NRx
  BY LifeFacts DEF LifeInv, Submits
<1>b. Life!Submit(p, i, next)
  BY <1>a DEF Submits, Life!At, Life!AfterRx
<1>c. life_pc = p
  BY <1>b DEF Life!Submit
<1>d. \/ i = 0 /\ Step = "irq"
      \/ i \in 1 .. NRx /\ Step = "rx" /\ life_pc = <<"rx", i>>
  BY <1>a, <1>c DEF Step
<1>e. Probing /\ Step \in {"irq", "rx"}
  BY <1>d DEF Probing, ProbeSteps
<1>f. /\ cur \in 1 .. MaxCtx /\ n = cur - 1 /\ cur \in Life!Ctx /\ ~ctx[cur].told
      /\ ctx \in [Life!Ctx -> Life!Contexts] /\ ctx[cur] \in Life!Contexts
  BY <1>e, LifeFacts DEF LifeInv, Counted
<1>g. ~ctx[cur].stop
  BY <1>e DEF LifeInv, Served
<1>h. ctx[cur].dev = Life!NoDev => i = 0 /\ (CanBeLate \/ "reget" \in failed)
  BY <1>d, <1>e DEF LifeInv, Owned
<1>i. ctx[cur].dev # Life!NoDev => fw[ctx[cur].dev] # "away"
  BY <1>e DEF LifeInv, Owned
<1>j. next \in Life!Places /\ <<"kill", 0>> \in Life!Places
      /\ (next[1] \in {"rx", "echo"})
  <2>1. \/ next = <<"rx", 1>> \/ next = <<"echo", 0>>
        \/ next = <<"rx", i + 1>> /\ i + 1 \in 1 .. NRx
    BY <1>a
  <2>2. 1 \in 1 .. NRx
    BY <1>a
  <2>3. QED
    BY <2>1, <2>2, PlacesAre
<1>k. \A what : Life!Fails(what) => failed' # {} /\ \A f \in failed : f \in failed'
  BY Failing
<1> DEFINE ToKill == failed' # {} /\ life_pc' = <<"kill", 0>> /\ \A f \in failed : f \in failed'
<1>l. ASSUME ToKill, cur' = cur, NEW r, Touches(r) PROVE LifeInv'
  <2>1. Moves /\ life_pc'[1] \notin ProbeSteps \cup {"rx", "echo"}
    BY <1>e, <1>j, <1>l DEF Moves, ProbeSteps, CloseSteps
  <2>2. ~ctx'[cur].told
    BY <1>f, <1>l DEF Touches
  <2>3. Filled'
    BY <1>l, <2>2 DEF Filled, Step
  <2>4. QED
    BY <1>l, <2>1, <2>3, TouchKeeps
<1>1. CASE Life!Crash("no device") /\ ctx[cur].dev = Life!NoDev
  BY <1>1, <1>h, CrashKeeps
<1>2. CASE ctx[cur].dev = Life!NoDev /\ ToKill /\ UNCHANGED <<ctx, cur, n, active, fw, booting, bad>>
  <2>1. Touches(ctx[cur])
    BY <1>2, <1>f DEF Touches
  <2>2. QED
    BY <1>2, <1>l, <2>1
<1>3. CASE /\ ctx[cur].dev # Life!NoDev /\ ctx' = [ctx EXCEPT ![cur].tr[i] = "live"]
           /\ life_pc' = next /\ UNCHANGED <<cur, n, active, fw, booting, bad, failed>>
  <2>1. PICK r : Touches(r) /\ r.dev = ctx[cur].dev /\ r.stop = ctx[cur].stop
    BY <1>3, <1>a, TransferTouches DEF Life!TrStates
  <2>2. /\ ctx'[cur].tr[i] = "live"
        /\ \A j \in Life!Transfers : j # i => ctx'[cur].tr[j] = ctx[cur].tr[j]
    BY <1>3, <1>a, TransferTouches DEF Life!TrStates
  <2>3. Moves /\ life_pc'[1] \in {"rx", "echo"}
    BY <1>3, <1>e, <1>j DEF Moves, ProbeSteps
  <2>4. \A j \in 0 .. i : Running(cur, j)'
    <3>1. \A j \in 0 .. i : j \in Life!Transfers /\ (j = i \/ j \in 0 .. i - 1)
      BY <1>a
    <3>2. \A j \in 0 .. i - 1 : Running(cur, j)
      BY <1>a, <1>d DEF LifeInv, Filled
    <3>3. QED
      BY <1>3, <2>2, <3>1, <3>2 DEF Running
  <2>5. Filled'
    <3>1. ASSUME NEW k \in 1 .. NRx, life_pc' = <<"rx", k>>, NEW j \in 0 .. k - 1
          PROVE  Running(cur, j)'
      <4>1. k = i + 1
        BY <1>3, <1>a, <3>1
      <4>2. j \in 0 .. i
        BY <1>a, <4>1
      <4>3. QED
        BY <2>4, <4>2
    <3>2. ASSUME life_pc'[1] = "echo", NEW j \in Life!Transfers
          PROVE  Running(cur, j)'
      <4>1. i = NRx
        BY <1>3, <1>a, <3>2
      <4>2. QED
        BY <1>a, <2>4, <4>1
    <3>3. QED
      BY <1>3, <2>3, <3>1, <3>2 DEF Filled, Step
  <2>6. QED
    BY <1>3, <1>g, <1>i, <2>1, <2>3, <2>5, TouchKeeps
<1>4. ASSUME ctx[cur].dev # Life!NoDev, ToKill, NEW s \in {"null", "done"},
             ctx' = [ctx EXCEPT ![cur].tr[i] = s], UNCHANGED <<cur, n, active, fw, booting, bad>>
      PROVE  LifeInv'
  <2>1. PICK r : Touches(r)
    BY <1>4, <1>a, TransferTouches DEF Life!TrStates
  <2>2. QED
    BY <1>4, <1>l, <2>1
<1>5. QED
  <2> HIDE DEF p, next
  <2>1. CASE ctx[cur].dev = Life!NoDev
    BY <2>1, <1>b, <1>k, <1>1, <1>2 DEF Life!Submit, Life!me, Life!Goto, Life!At
  <2>2. CASE ctx[cur].dev # Life!NoDev
    <3>1. \/ ctx' = [ctx EXCEPT ![cur].tr[i] = "live"] /\ life_pc' = next /\ UNCHANGED failed
          \/ /\ ToKill
             /\ \E s \in {"null", "done"} : ctx' = [ctx EXCEPT ![cur].tr[i] = s]
      BY <2>2, <1>b, <1>k DEF Life!Submit, Life!me, Life!Goto, Life!At
    <3>2. UNCHANGED <<cur, n, active, fw, booting, bad>>
      BY <2>2, <1>b DEF Life!Submit, Life!me
    <3>3. QED
      BY <2>2, <3>1, <3>2, <1>3, <1>4
  <2>3. QED
    BY <2>1, <2>2

(* carlusb_destroy: the thread is told to stop, the transfers are          *)
(* cancelled.                                                              *)
LEMMA KillKeeps ==
  ASSUME LifeInv, Life!Kill
  PROVE  LifeInv'
<1>0. /\ life_pc = <<"kill", 0>> /\ life_pc' = <<"cancel", 1>>
      /\ ctx' = [ctx EXCEPT ![cur].stop = TRUE]
      /\ UNCHANGED <<cur, n, active, fw, booting, failed, bad>>
  BY DEF Life!Kill, Life!At, Life!Goto
<1>a. /\ cur \in Life!Ctx /\ ctx \in [Life!Ctx -> Life!Contexts] /\ ctx[cur] \in Life!Contexts
      /\ NRx \in Nat \ {0}
  BY LifeFacts DEF LifeInv
<1> DEFINE r == [ctx[cur] EXCEPT !.stop = TRUE]
<1>1. r \in Life!Contexts
  BY <1>a, Fields
<1>2. r.st = ctx[cur].st /\ r.dev = ctx[cur].dev /\ r.told = ctx[cur].told /\ r.tr = ctx[cur].tr
  BY <1>a DEF Life!Contexts
<1>3. ctx' = [ctx EXCEPT ![cur] = r]
  BY <1>0
<1> HIDE DEF r
<1>4. Touches(r) /\ ctx'[cur] = r
  BY <1>0, <1>a, <1>1, <1>2, <1>3 DEF Touches
<1>5. Moves /\ life_pc'[1] = "cancel"
  <2>1. <<"cancel", 1>> \in Life!Places
    BY <1>a, PlacesAre
  <2>2. QED
    BY <1>0, <2>1 DEF Moves, Closing, CloseSteps, Step
<1>6. Filled'
  BY <1>0, <1>2, <1>4 DEF LifeInv, Filled, Step
<1>7. QED
  BY <1>4, <1>5, <1>6, TouchKeeps DEF ProbeSteps

LEMMA CancelKeeps ==
  ASSUME LifeInv, NEW i \in Life!Transfers, Life!Cancel(i)
  PROVE  LifeInv'
<1>a. /\ cur \in Life!Ctx /\ ctx \in [Life!Ctx -> Life!Contexts] /\ ctx[cur] \in Life!Contexts
      /\ NRx \in Nat \ {0} /\ Life!Transfers = 0 .. NRx
  BY LifeFacts DEF LifeInv
<1>b. life_pc = <<"cancel", i>> /\ Step = "cancel"
  BY DEF Life!Cancel, Step
<1>1. CASE ctx[cur].tr[i] = "null"
  <2>1. Life!Crash("no transfer")
    BY <1>1 DEF Life!Cancel, Life!me
  <2>2. failed # {}
    BY <1>1, <1>b DEF LifeInv, Filled
  <2>3. QED
    BY <2>1, <2>2, CrashKeeps
<1>2. CASE ctx[cur].tr[i] # "null"
  <2> DEFINE s == IF ctx[cur].tr[i] = "live" THEN "cancel" ELSE ctx[cur].tr[i]
  <2>1. /\ ctx' = [ctx EXCEPT ![cur].tr[i] = s]
        /\ UNCHANGED <<cur, n, active, fw, booting, failed, bad>>
        /\ life_pc' = CASE i = 0 -> <<"wait", 0>> [] i = NRx -> <<"cancel", 0>>
                        [] OTHER -> <<"cancel", i + 1>>
    BY <1>2, <1>a DEF Life!Cancel, Life!me, Life!At, Life!Goto
  <2>2. s \in Life!TrStates /\ s # "null"
    BY <1>2, <1>a DEF Life!TrStates, Life!Contexts
  <2> HIDE DEF s
  <2>3. PICK r : Touches(r)
    BY <2>1, <2>2, TransferTouches
  <2>4. /\ ctx'[cur].tr[i] = s
        /\ \A j \in Life!Transfers : j # i => ctx'[cur].tr[j] = ctx[cur].tr[j]
    BY <2>1, <2>2, TransferTouches
  <2>5. ctx'[cur].told = ctx[cur].told
    BY <1>a, <2>3 DEF Touches
  <2>6. life_pc' \in Life!Places /\ life_pc'[1] \in {"cancel", "wait"}
    <3>1. \/ i = 0 /\ life_pc' = <<"wait", 0>>
          \/ i # 0 /\ i = NRx /\ life_pc' = <<"cancel", 0>>
          \/ i # 0 /\ i # NRx /\ life_pc' = <<"cancel", i + 1>>
      <4>1. ~(i = 0 /\ i = NRx)
        BY <1>a
      <4>2. QED
        BY <2>1, <4>1
    <3>2. 0 \in 0 .. NRx /\ (i # NRx => i + 1 \in 0 .. NRx)
      BY <1>a
    <3>3. QED
      BY <3>1, <3>2, PlacesAre
  <2>7. Moves
    BY <1>b, <2>6 DEF Moves, Closing, CloseSteps
  <2>8. Filled'
    <3>1. ctx'[cur].told \/ failed = {} => \A j \in Life!Transfers : ctx'[cur].tr[j] # "null"
      BY <1>b, <2>2, <2>4, <2>5 DEF LifeInv, Filled
    <3>2. QED
      BY <2>1, <2>6, <3>1 DEF Filled, Step
  <2>9. QED
    BY <2>3, <2>6, <2>7, <2>8, TouchKeeps DEF ProbeSteps
<1>3. QED
  BY <1>1, <1>2

(* carlu_cmd_echo: whoever hears the answer is the only thread there may   *)
(* be that is not told to stop.                                            *)
LEMMA FirstHears ==
  ASSUME LifeInv, Step = "echo", Life!Polling, cur = 1
  PROVE  ctx[1].thread \in {"check", "poll"}
<1>1. PICK c \in Life!Ctx : ctx[c].thread \in {"check", "poll"}
  BY DEF Life!Polling
<1>2. c = cur \/ c > cur
  BY LifeFacts DEF LifeInv
<1>3. ctx[c] # Life!Fresh
  BY <1>1, FreshFields
<1>4. QED
  BY <1>1, <1>2, <1>3 DEF LifeInv, Unopened, Probing, ProbeSteps

LEMMA ToldKeeps ==
  ASSUME LifeInv, life_pc = <<"echo", 0>>, Life!Answers,
         ctx' = [ctx EXCEPT ![cur].told = TRUE], n' = n + 1,
         \/ Cmd = "all" /\ cur < MaxCtx /\ life_pc' = <<"open", 0>> /\ cur' = cur + 1
         \/ ~(Cmd = "all" /\ cur < MaxCtx) /\ life_pc' = <<"test", 0>> /\ cur' = cur,
         UNCHANGED <<active, fw, booting, failed, bad>>
  PROVE  LifeInv'
<1>0. active' = active /\ fw' = fw /\ booting' = booting /\ failed' = failed /\ bad' = bad
  OBVIOUS
<1>s. Step = "echo" /\ Probing
  BY DEF Step, Probing, ProbeSteps
<1>a. /\ cur \in 1 .. MaxCtx /\ n = cur - 1 /\ n' = cur /\ MaxCtx \in Nat \ {0}
      /\ Life!Ctx = 1 .. MaxCtx /\ ctx \in [Life!Ctx -> Life!Contexts]
      /\ cur' \in 1 .. MaxCtx
  BY <1>s, LifeFacts DEF LifeInv, Counted
<1>b. \/ Step' = "open" /\ cur' = cur + 1 /\ Cmd = "all"
      \/ Step' = "test" /\ cur' = cur
  BY DEF Step
<1>i. ~Probing' /\ ~Closing'
  BY <1>b DEF Probing, Closing, ProbeSteps, CloseSteps
<1>c. /\ \A c \in Life!Ctx : c # cur => ctx'[c] = ctx[c]
      /\ ctx'[cur].told = TRUE /\ ctx'[cur].st = ctx[cur].st /\ ctx'[cur].dev = ctx[cur].dev
      /\ ctx'[cur].tr = ctx[cur].tr /\ ctx'[cur].thread = ctx[cur].thread
      /\ ctx'[cur].stop = ctx[cur].stop
      /\ ctx' \in [Life!Ctx -> Life!Contexts]
  <2> DEFINE r == [ctx[cur] EXCEPT !.told = TRUE]
  <2>1. r \in Life!Contexts /\ ctx[cur] \in Life!Contexts
    BY <1>a, Fields
  <2>2. /\ r.told = TRUE /\ r.st = ctx[cur].st /\ r.dev = ctx[cur].dev /\ r.tr = ctx[cur].tr
        /\ r.thread = ctx[cur].thread /\ r.stop = ctx[cur].stop
    BY <2>1 DEF Life!Contexts
  <2>3. ctx' = [ctx EXCEPT ![cur] = r]
    OBVIOUS
  <2> HIDE DEF r
  <2>4. QED
    BY <1>a, <2>1, <2>2, <2>3
<1>d. \A c \in Life!Ctx : ctx'[c].st = ctx[c].st /\ ctx'[c].dev = ctx[c].dev
  BY <1>c
<1>1. Life!TypeOK'
  <2>1. life_pc' \in Life!Places
    BY PlacesAre
  <2>2. cur' \in Life!Ctx /\ n' \in 0 .. MaxCtx
    BY <1>a
  <2>3. QED
    BY <1>0, <1>c, <2>1, <2>2 DEF LifeInv, Life!TypeOK
<1>2. Counted'
  <2>1. ASSUME NEW c \in Life!Ctx
        PROVE  (ctx'[c].told <=> c <= n') /\ (ctx'[c].st = "used" <=> c <= n')
    <3>1. (ctx[c].told <=> c <= n) /\ (ctx[c].st = "used" <=> c <= n \/ c = cur)
      BY <1>s DEF LifeInv, Counted, InUse
    <3>2. CASE c = cur
      BY <1>a, <1>c, <3>1, <3>2
    <3>3. CASE c # cur
      <4>1. c <= n' <=> c <= n
        BY <1>a, <3>3
      <4>2. QED
        BY <1>c, <3>1, <3>3, <4>1
    <3>4. QED
      BY <3>2, <3>3
  <2>2. \A c \in Life!Ctx : InUse(c)' <=> c <= n'
    BY <1>i DEF InUse
  <2>3. Cmd # "all" => cur' = 1
    BY <1>b DEF LifeInv, Counted
  <2>4. (Step' = "open" => n' = cur' - 1) /\ (Step' = "test" => n' = cur')
    BY <1>a, <1>b
  <2>5. QED
    BY <1>b, <1>i, <2>1, <2>2, <2>3, <2>4 DEF Counted
<1>3. Unopened'
  <2>1. \A c \in Life!Ctx : c > cur => ctx'[c] = Life!Fresh
    <3>1. \A c \in Life!Ctx : c > cur => c # cur
      BY <1>a
    <3>2. QED
      BY <1>c, <1>s, <3>1 DEF LifeInv, Unopened
  <2>2. Step' = "open" => cur' \in Life!Ctx /\ cur' > cur /\ \A c \in Life!Ctx : c > cur' => c > cur
    BY <1>a, <1>b
  <2>3. QED
    BY <1>i, <2>1, <2>2 DEF Unopened
<1>4. Listed'
  <2>1. \A c : On(c)' <=> On(c)
    BY <1>0 DEF On
  <2>2. EarlyFailure' <=> EarlyFailure
    BY <1>0 DEF EarlyFailure
  <2>3. QED
    BY <1>0, <1>d, <2>1, <2>2 DEF LifeInv, Listed
<1>e. ctx[cur].dev # Life!NoDev
  BY <1>s DEF LifeInv, Owned
<1>f. \A c \in Life!Ctx : c <= n' => c <= n \/ c = cur
  BY <1>a
<1>5. Owned'
  <2>1. Life!OwnsOne'
    BY <1>d DEF LifeInv, Owned, Life!OwnsOne
  <2>2. \A c \in Life!Ctx : c <= n' => ctx'[c].dev # Life!NoDev
    BY <1>d, <1>e, <1>f DEF LifeInv, Owned
  <2>3. QED
    BY <1>b, <1>i, <2>1, <2>2 DEF Owned
<1>6. Filled'
  BY <1>b DEF Filled, Step
<1>g. ~Closing
  BY <1>s DEF Closing, CloseSteps
<1>7. Served'
  <2>1. ASSUME NEW c \in Life!Ctx, c <= n'
        PROVE  fw[ctx'[c].dev] = "fw" /\ \A i \in Life!Transfers : Running(c, i)'
    <3>1. CASE c = cur
      <4>1. fw[ctx[cur].dev] = "fw"
        BY DEF Life!Answers, Life!me
      <4>2. \A i \in Life!Transfers : Running(cur, i)
        BY <1>s DEF LifeInv, Filled
      <4>3. QED
        BY <1>0, <1>c, <3>1, <4>1, <4>2 DEF Running
    <3>2. CASE c # cur
      <4>1. c <= n /\ ctx'[c] = ctx[c]
        BY <1>c, <1>f, <2>1, <3>2
      <4>2. QED
        BY <1>0, <1>g, <4>1 DEF LifeInv, Served, Running
    <3>3. QED
      BY <3>1, <3>2
  <2>2. ctx'[1].thread \in {"check", "poll"} /\ ~ctx'[1].stop
    <3>1. CASE cur = 1
      <4>1. ctx[1].thread \in {"check", "poll"}
        BY <1>s, <3>1, FirstHears DEF Life!Answers
      <4>2. ~ctx[1].stop
        BY <1>s, <3>1 DEF LifeInv, Served
      <4>3. QED
        BY <1>c, <3>1, <4>1, <4>2
    <3>2. CASE cur # 1
      <4>1. n >= 1 /\ 1 \in Life!Ctx
        BY <1>a, <3>2
      <4>2. QED
        BY <1>c, <1>g, <3>2, <4>1 DEF LifeInv, Served
    <3>3. QED
      BY <3>1, <3>2
  <2>3. QED
    BY <1>0, <1>i, <2>1, <2>2 DEF Served, Running
<1>8. Life!CrashNeedsFailure'
  BY <1>0 DEF LifeInv, Life!CrashNeedsFailure
<1>9. QED
  BY <1>1, <1>2, <1>3, <1>4, <1>5, <1>6, <1>7, <1>8 DEF LifeInv

LEMMA EchoKeeps ==
  ASSUME LifeInv, Life!Echo
  PROVE  LifeInv'
<1>0. life_pc = <<"echo", 0>> /\ UNCHANGED <<active, fw, booting, bad>>
  BY DEF Life!Echo, Life!At
<1>1. CASE /\ Life!Answers /\ ctx' = [ctx EXCEPT ![cur].told = TRUE] /\ n' = n + 1 /\ failed' = failed
           /\ \/ Cmd = "all" /\ cur < MaxCtx /\ life_pc' = <<"open", 0>> /\ cur' = cur + 1
              \/ ~(Cmd = "all" /\ cur < MaxCtx) /\ life_pc' = <<"test", 0>> /\ cur' = cur
  BY <1>0, <1>1, ToldKeeps
<1>2. CASE /\ Life!Fails("echo") \/ failed' = failed
           /\ life_pc' = <<"kill", 0>> /\ UNCHANGED <<ctx, n, cur>>
  <2>1. \A f \in failed : f \in failed'
    BY <1>2, Failing
  <2>2. failed' = {} => failed = {}
    BY <2>1
  <2>3. Touches(ctx[cur])
    <3>1. ctx[cur] \in Life!Contexts /\ ctx' = [ctx EXCEPT ![cur] = ctx[cur]]
      BY <1>2, LifeFacts DEF LifeInv
    <3>2. QED
      BY <1>0, <1>2, <2>1, <3>1 DEF Touches
  <2>4. Step = "echo" /\ life_pc'[1] = "kill"
    BY <1>0, <1>2 DEF Step
  <2>5. Moves
    BY <1>2, <2>4, PlacesAre DEF Moves, Probing, ProbeSteps, CloseSteps
  <2>6. Filled'
    <3>1. \A i \in Life!Transfers : ctx[cur].tr[i] \in {"live", "cb", "lost"}
      BY <2>4 DEF LifeInv, Filled, Running
    <3>2. QED
      BY <1>2, <3>1 DEF Filled, Step
  <2>7. QED
    BY <2>3, <2>4, <2>5, <2>6, TouchKeeps DEF ProbeSteps
<1>3. QED
  BY <1>1, <1>2 DEF Life!Echo, Life!Goto, Life!At

(* carlusb_free_rings, list_del, carlusb_free_driver.                      *)
LEMMA FreeKeeps ==
  ASSUME LifeInv, Life!Free
  PROVE  LifeInv'
<1> DEFINE gone == [Life!Fresh EXCEPT !.st = "freed", !.tr = [i \in Life!Transfers |-> "freed"]]
           left == IF ctx[cur].told THEN n - 1 ELSE n
<1>1. CASE Life!Crash("live transfer")
  BY <1>1, CrashKeeps
<1>2. CASE Life!DelTouchesFreed /\ Life!Crash("freed context")
  BY <1>2, DelFindsFreed, CrashKeeps
<1>3. CASE /\ active' = Life!Without /\ ctx' = [ctx EXCEPT ![cur] = gone] /\ n' = left
           /\ cur' = IF Cmd = "all" /\ left > 0 THEN left ELSE cur
           /\ life_pc' = IF Cmd = "all" /\ left > 0 THEN <<"close", 0>> ELSE <<"exit", 0>>
           /\ UNCHANGED <<fw, booting, failed, bad>>
  <2>0. fw' = fw /\ booting' = booting /\ failed' = failed /\ bad' = bad
    BY <1>3
  <2>s. Step = "free" /\ Closing /\ ~Probing
    BY DEF Life!Free, Life!At, Step, Probing, Closing, ProbeSteps, CloseSteps
  <2>a. /\ cur \in 1 .. MaxCtx /\ n \in {cur - 1, cur} /\ MaxCtx \in Nat \ {0}
        /\ Life!Ctx = 1 .. MaxCtx /\ ctx \in [Life!Ctx -> Life!Contexts]
        /\ (ctx[cur].told <=> cur <= n) /\ (Cmd # "all" => cur = 1)
    BY <2>s, LifeFacts DEF LifeInv, Counted
  <2>b. n' = cur - 1
    <3>1. n = cur - 1 => ~ctx[cur].told
      BY <2>a
    <3>2. n = cur => ctx[cur].told
      BY <2>a
    <3>3. QED
      BY <1>3, <2>a, <3>1, <3>2
  <2>c. \/ life_pc' = <<"close", 0>> /\ cur' = n' /\ n' \in 1 .. MaxCtx
        \/ life_pc' = <<"exit", 0>> /\ cur' = cur /\ n' = 0
    <3>1. Cmd # "all" => n' = 0
      BY <2>a, <2>b
    <3>2. left = n'
      BY <1>3
    <3> HIDE DEF left
    <3>3. n' > 0 \/ n' = 0
      BY <2>a, <2>b
    <3>4. n' > 0 => n' \in 1 .. MaxCtx
      BY <2>a, <2>b
    <3>5. QED
      BY <1>3, <3>1, <3>2, <3>3, <3>4
  <2>d. /\ \A c \in Life!Ctx : c # cur => ctx'[c] = ctx[c]
        /\ ctx'[cur].st = "freed" /\ ctx'[cur].dev = Life!NoDev /\ ctx'[cur].told = FALSE
        /\ ctx' \in [Life!Ctx -> Life!Contexts]
    <3>1. gone.st = "freed" /\ gone.dev = Life!NoDev /\ gone.told = FALSE
      BY DEF Life!Fresh
    <3>2. gone \in Life!Contexts
      <4> DEFINE t == [i \in Life!Transfers |-> "freed"]
      <4>1. t \in [Life!Transfers -> Life!TrStates]
        BY DEF Life!TrStates
      <4> HIDE DEF t
      <4>2. [Life!Fresh EXCEPT !.st = "freed", !.tr = t] \in Life!Contexts
        BY <4>1, FreshFields DEF Life!Contexts
      <4>3. QED
        BY <4>2 DEF t
    <3> HIDE DEF gone
    <3>3. QED
      BY <1>3, <2>a, <3>1, <3>2
  <2>e. /\ active' \in Seq(Life!Ctx) /\ \A c : On(c)' <=> On(c) /\ c # cur
        /\ \A j, k \in 1 .. Len(active') : active'[j] = active'[k] => j = k
    BY <1>3, Leaves
  <2> HIDE DEF gone, left
  <2>f. Step' \in {"close", "exit"} /\ ~Probing' /\ ~Closing'
    BY <2>c DEF Step, Probing, Closing, ProbeSteps, CloseSteps
  <2>g. \A c \in Life!Ctx : c <= n' => c # cur /\ c <= n
    BY <2>a, <2>b
  <2>1. Life!TypeOK'
    <3>1. life_pc' \in Life!Places
      BY <2>c, PlacesAre
    <3>2. cur' \in Life!Ctx /\ n' \in 0 .. MaxCtx
      BY <2>a, <2>c
    <3>3. QED
      BY <2>0, <2>d, <2>e, <3>1, <3>2 DEF LifeInv, Life!TypeOK
  <2>2. Counted'
    <3>1. ASSUME NEW c \in Life!Ctx
          PROVE  (ctx'[c].told <=> c <= n') /\ (ctx'[c].st = "used" <=> c <= n')
      <4>1. CASE c = cur
        <5>1. ~(c <= n')
          BY <2>a, <2>b, <4>1
        <5>2. QED
          BY <2>d, <4>1, <5>1
      <4>2. CASE c # cur
        <5>1. c <= n' <=> c <= n
          BY <2>a, <2>b, <4>2
        <5>2. (ctx[c].told <=> c <= n) /\ (ctx[c].st = "used" <=> c <= n)
          BY <4>2 DEF LifeInv, Counted, InUse
        <5>3. QED
          BY <2>d, <4>2, <5>1, <5>2
      <4>3. QED
        BY <4>1, <4>2
    <3>2. \A c \in Life!Ctx : InUse(c)' <=> c <= n'
      BY <2>f DEF InUse
    <3>3. Cmd # "all" => cur' = 1
      BY <2>a, <2>b, <2>c
    <3>4. (Step' = "close" => n' = cur') /\ (Step' = "exit" => n' = 0)
      BY <2>c DEF Step
    <3>5. QED
      BY <2>f, <3>1, <3>2, <3>3, <3>4 DEF Counted
  <2>3. Unopened'
    BY <2>f DEF Unopened
  <2>4. Listed'
    <3>1. EarlyFailure' <=> EarlyFailure
      BY <2>0 DEF EarlyFailure
    <3>2. ASSUME NEW c \in Life!Ctx
          PROVE  /\ On(c)' => ctx'[c].st # "none"
                 /\ ctx'[c].dev # Life!NoDev => ctx'[c].st = "used" /\ On(c)'
                 /\ On(c)' /\ ctx'[c].st = "freed" => EarlyFailure'
      <4>1. CASE c = cur
        BY <2>d, <2>e, <4>1
      <4>2. CASE c # cur
        BY <2>d, <2>e, <3>1, <4>2 DEF LifeInv, Listed
      <4>3. QED
        BY <4>1, <4>2
    <3>3. QED
      BY <2>e, <3>2 DEF Listed
  <2>5. Owned'
    <3>1. Life!OwnsOne'
      BY <2>d DEF LifeInv, Owned, Life!OwnsOne
    <3>2. \A c \in Life!Ctx : c <= n' => ctx'[c].dev # Life!NoDev
      BY <2>d, <2>g DEF LifeInv, Owned
    <3>3. QED
      BY <2>f, <3>1, <3>2 DEF Owned
  <2>6. Filled'
    BY <2>c DEF Filled, Step
  <2>7. Served'
    <3>1. ASSUME NEW c \in Life!Ctx, c <= n'
          PROVE  fw[ctx'[c].dev] = "fw" /\ \A i \in Life!Transfers : Running(c, i)'
      <4>1. c # cur /\ c <= n /\ ctx'[c] = ctx[c]
        BY <2>d, <2>g, <3>1
      <4>2. fw[ctx[c].dev] = "fw" /\ \A i \in Life!Transfers : Running(c, i)
        BY <4>1 DEF LifeInv, Served
      <4>3. QED
        BY <2>0, <4>1, <4>2, RunsOn
    <3>2. n' >= 1 => ctx'[1].thread \in {"check", "poll"} /\ ~ctx'[1].stop
      <4>1. n' >= 1 => cur # 1 /\ n >= 1 /\ 1 \in Life!Ctx
        BY <2>a, <2>b
      <4>2. QED
        BY <2>d, <4>1 DEF LifeInv, Served
    <3>3. QED
      BY <2>0, <2>f, <3>1, <3>2 DEF Served
  <2>8. Life!CrashNeedsFailure'
    BY <2>0 DEF LifeInv, Life!CrashNeedsFailure
  <2>9. QED
    BY <2>1, <2>2, <2>3, <2>4, <2>5, <2>6, <2>7, <2>8 DEF LifeInv
<1>4. QED
  <2>1. \/ Life!Crash("live transfer")
        \/ Life!DelTouchesFreed /\ Life!Crash("freed context")
        \/ /\ active' = Life!Without /\ ctx' = [ctx EXCEPT ![cur] = gone] /\ n' = left
           /\ cur' = IF Cmd = "all" /\ left > 0 THEN left ELSE cur
           /\ life_pc' = <<IF Cmd = "all" /\ left > 0 THEN "close" ELSE "exit", 0>>
           /\ UNCHANGED <<fw, booting, failed, bad>>
    BY DEF Life!Free, Life!me, Life!More, Life!Goto, Life!At
  <2> HIDE DEF gone, left
  <2>2. QED
    BY <2>1, <1>1, <1>2, <1>3

-----------------------------------------------------------------------------
LEMMA LifeInit ==
  ASSUME Life!Init
  PROVE  LifeInv
<1>a. MaxCtx \in Nat \ {0} /\ Life!Ctx = 1 .. MaxCtx /\ 1 \in Life!Ctx
  BY LifeAssumption DEF Life!Sizes, Life!Ctx
<1>0. /\ life_pc = <<"open", 0>> /\ cur = 1 /\ n = 0 /\ ctx = [c \in Life!Ctx |-> Life!Fresh]
      /\ active = <<>> /\ failed = {} /\ bad = "no"
      /\ fw = [d \in Devs |-> "rom"] /\ booting = [d \in Devs |-> "rom"]
  BY DEF Life!Init, Life!At
<1>b. Step = "open" /\ ~Probing /\ ~Closing
  BY <1>0 DEF Step, Probing, Closing, ProbeSteps, CloseSteps
<1>c. /\ \A c \in Life!Ctx : ctx[c] = Life!Fresh
      /\ ctx \in [Life!Ctx -> Life!Contexts]
  BY <1>0, FreshFields
<1>d. Len(active) = 0 /\ active \in Seq(Life!Ctx)
  BY <1>0
<1>e. \A c \in Life!Ctx : ~(c <= n)
  BY <1>0, <1>a
<1>1. Life!TypeOK
  <2>1. life_pc \in Life!Places
    BY <1>0, PlacesAre
  <2>2. n \in 0 .. MaxCtx
    BY <1>0, <1>a
  <2>3. QED
    BY <1>0, <1>a, <1>c, <1>d, <2>1, <2>2 DEF Life!TypeOK
<1>2. Counted
  <2>1. \A c \in Life!Ctx : ~ctx[c].told /\ ctx[c].st # "used"
    BY <1>c, FreshFields
  <2>2. n = cur - 1
    BY <1>0
  <2>3. QED
    BY <1>0, <1>b, <1>e, <2>1, <2>2 DEF Counted, InUse
<1>3. Unopened
  BY <1>0, <1>a, <1>b, <1>c DEF Unopened
<1>4. Listed
  <2>1. \A k : k \notin 1 .. Len(active)
    BY <1>d
  <2>2. \A c \in Life!Ctx : ctx[c].dev = Life!NoDev
    BY <1>c, FreshFields
  <2>3. QED
    BY <2>1, <2>2 DEF Listed, On
<1>5. Owned
  <2>1. Life!OwnsOne
    BY <1>c, FreshFields DEF Life!OwnsOne
  <2>2. QED
    BY <1>b, <1>e, <2>1 DEF Owned
<1>6. Filled
  BY <1>0 DEF Filled, Step
<1>7. Served
  <2>1. ~(n >= 1)
    BY <1>0
  <2>2. QED
    BY <1>b, <1>e, <2>1 DEF Served
<1>8. Life!CrashNeedsFailure
  BY <1>0 DEF Life!CrashNeedsFailure
<1>9. QED
  BY <1>1, <1>2, <1>3, <1>4, <1>5, <1>6, <1>7, <1>8 DEF LifeInv

LEMMA MainKeeps ==
  ASSUME LifeInv, Life!Main
  PROVE  LifeInv'
<1>1. CASE Life!Open
  BY <1>1, OpenKeeps
<1>2. CASE \/ Life!Early(Life!At("info"), Life!At("load"))
           \/ Life!Early(Life!At("load"), Life!At("pipe"))
           \/ Life!Early(Life!At("pipe"), Life!At("thread"))
  BY <1>2, EarlyKeeps
<1>3. CASE Life!StartThread
  BY <1>3, StartThreadKeeps
<1>4. CASE Life!Upload \/ Life!Test \/ Life!Wait \/ Life!Exit
  BY <1>4, PlainKeeps
<1>5. CASE Life!Boot \/ Life!Close
  BY <1>5, ResetKeeps
<1>6. CASE Life!Drop
  BY <1>6, DropKeeps
<1>7. CASE Life!Reget
  BY <1>7, RegetKeeps
<1>8. CASE \/ Life!Submit(Life!At("irq"), 0, <<"rx", 1>>)
           \/ \E i \in 1 .. NRx : Life!Submit(<<"rx", i>>, i, Life!AfterRx(i))
  <2>1. \E i : Submits(i)
    BY <1>8 DEF Submits
  <2>2. QED
    BY <2>1, SubmitKeeps
<1>9. CASE Life!Echo
  BY <1>9, EchoKeeps
<1>10. CASE Life!Kill
  BY <1>10, KillKeeps
<1>11. CASE \E i \in Life!Transfers : Life!Cancel(i)
  BY <1>11, CancelKeeps
<1>12. CASE Life!Free
  BY <1>12, FreeKeeps
<1>13. QED
  BY <1>1, <1>2, <1>3, <1>4, <1>5, <1>6, <1>7, <1>8, <1>9, <1>10, <1>11, <1>12 DEF Life!Main

LEMMA LifeNext ==
  ASSUME LifeInv, Life!Next
  PROVE  LifeInv'
<1>1. CASE Life!Main
  BY <1>1, MainKeeps
<1>2. ASSUME NEW c \in Life!Ctx, Life!Thread(c)
      PROVE  LifeInv'
  <2>1. CASE Life!Look(c) \/ Life!Quiet(c)
    BY <2>1, LookKeeps
  <2>2. CASE \E b \in Life!Ctx, i \in Life!Transfers :
               Life!Handle(c, b, i) \/ Life!Resubmit(c, b, i) \/ Life!Reap(c, b, i)
    BY <2>2, HandleKeeps
  <2>3. QED
    BY <1>2, <2>1, <2>2 DEF Life!Thread
<1>3. CASE \E d \in Devs : Life!Back(d)
  BY <1>3, BackKeeps
<1>4. QED
  BY <1>1, <1>2, <1>3 DEF Life!Next

(* A step of another part.                                                 *)
LEMMA LifeStays ==
  ASSUME LifeInv, UNCHANGED lifeVars
  PROVE  LifeInv'
<1>0. /\ life_pc' = life_pc /\ cur' = cur /\ n' = n /\ ctx' = ctx /\ active' = active
      /\ fw' = fw /\ booting' = booting /\ failed' = failed /\ bad' = bad
  BY DEF lifeVars
<1>1. Life!TypeOK' /\ Life!CrashNeedsFailure'
  BY <1>0 DEF LifeInv, Life!TypeOK, Life!CrashNeedsFailure
<1>2. Counted' /\ Unopened'
  BY <1>0 DEF LifeInv, Counted, Unopened, InUse, Step, Probing, Closing
<1>3. Listed'
  BY <1>0 DEF LifeInv, Listed, On, EarlyFailure
<1>4. Owned'
  <2>1. Life!OwnsOne'
    BY <1>0 DEF LifeInv, Owned, Life!OwnsOne
  <2>2. Step' = Step /\ (Probing' <=> Probing) /\ (On(cur)' <=> On(cur))
    BY <1>0 DEF Step, Probing, On
  <2>3. QED
    BY <1>0, <2>1, <2>2 DEF LifeInv, Owned
<1>5. Filled' /\ Served'
  BY <1>0 DEF LifeInv, Filled, Served, Running, Step, Probing, Closing
<1>6. QED
  BY <1>1, <1>2, <1>3, <1>4, <1>5 DEF LifeInv

LEMMA LifeServes ==
  ASSUME LifeInv
  PROVE  ContextsServed
<1>a. /\ cur \in 1 .. MaxCtx /\ n \in 0 .. MaxCtx /\ MaxCtx \in Nat \ {0} /\ Life!Ctx = 1 .. MaxCtx
  BY LifeFacts DEF LifeInv
<1>1. Life!ActiveRuns
  <2>1. ASSUME NEW c \in Life!Ctx, ctx[c].told, ctx[c].st = "used",
               ~(cur = c /\ Step \notin {"open", "test", "close"})
        PROVE  /\ fw[ctx[c].dev] = "fw" /\ Life!Polling
               /\ \A i \in Life!Transfers : Running(c, i)
    <3>1. c <= n
      BY <2>1 DEF LifeInv, Counted
    <3>2. ~(c = cur /\ Closing)
      BY <2>1 DEF Closing, CloseSteps
    <3>3. fw[ctx[c].dev] = "fw" /\ \A i \in Life!Transfers : Running(c, i)
      BY <3>1, <3>2 DEF LifeInv, Served
    <3>4. n >= 1 /\ 1 \in Life!Ctx
      BY <1>a, <3>1
    <3>5. ~(cur = 1 /\ Closing)
      <4>1. CASE cur = 1 /\ Closing
        <5>1. c = cur
          BY <1>a, <3>1, <4>1 DEF LifeInv, Counted
        <5>2. QED
          BY <3>2, <4>1, <5>1
      <4>2. QED
        BY <4>1
    <3>6. ctx[1].thread \in {"check", "poll"}
      BY <3>4, <3>5 DEF LifeInv, Served
    <3>7. QED
      BY <3>3, <3>4, <3>6 DEF Life!Polling
  <2>2. QED
    BY <2>1 DEF Life!ActiveRuns, Step, Running
<1>2. Life!OwnsOne /\ Life!CrashNeedsFailure
  BY DEF LifeInv, Owned
<1>3. Life!AllReleased
  <2>1. ASSUME life_pc = Life!At("end"), NEW c \in Life!Ctx
        PROVE  ctx[c].st # "used" /\ ctx[c].dev = Life!NoDev
    <3>1. Step = "end" /\ ~Probing /\ ~Closing
      BY <2>1 DEF Life!At, Step, Probing, Closing, ProbeSteps, CloseSteps
    <3>2. ~(c <= n)
      BY <1>a, <3>1 DEF LifeInv, Counted
    <3>3. ctx[c].st # "used"
      BY <3>1, <3>2 DEF LifeInv, Counted, InUse
    <3>4. QED
      BY <3>3 DEF LifeInv, Listed
  <2>2. QED
    BY <2>1 DEF Life!AllReleased
<1>4. QED
  BY <1>1, <1>2, <1>3 DEF ContextsServed

(* Whatever the number of contexts, devices and receive transfers, and     *)
(* whichever steps of a probe, of carlusb_close and of the callbacks fail: *)
(* until it is closed, a context that carlu_probe_all reported has firmware*)
(* that runs, all its transfers but those a callback could not submit      *)
(* again, and a thread that serves them; no two contexts have the same     *)
(* device; the program ends with every device released; and freed contexts,*)
(* missing transfers and missing devices are touched only after the        *)
(* failures that lead there, for a missing device a boot that takes too    *)
(* long or a search for the device that fails.                             *)
THEOREM ContextsCorrect == AllSpec => []ContextsServed
<1>1. AllInit => LifeInv
  BY LifeInit DEF AllInit
<1>2. LifeInv /\ [AllNext]_<<part, vars, txVars, lifeVars>> => LifeInv'
  <2> SUFFICES ASSUME LifeInv, [AllNext]_<<part, vars, txVars, lifeVars>>
               PROVE  LifeInv'
    OBVIOUS
  <2>1. Life!Next \/ UNCHANGED lifeVars
    BY DEF AllNext, CmdStep, TxStep, LifeStep
  <2>2. QED
    BY <2>1, LifeNext, LifeStays
<1>3. LifeInv => ContextsServed
  BY LifeServes
<1>4. QED
  BY <1>1, <1>2, <1>3, PTL DEF AllSpec
=============================================================================
