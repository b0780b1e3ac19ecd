------------------------------ MODULE HostCmd ------------------------------
(***************************************************************************)
(* How carlu, the host side of carl9170, calls the firmware: the caller's  *)
(* thread is in carlusb_cmd (usb.c), the event thread hands what arrives   *)
(* to carlu_handle_command (rx.c).  They share resp_lock, the condition    *)
(* resp_pend and the buffer resp_buf of the call that waits.               *)
(*                                                                         *)
(* libusb and SDL are the environment: a completed transfer is an event,   *)
(* events are handled in order by one thread at a time, and the caller of  *)
(* a synchronous transfer, which holds resp_lock meanwhile, handles events *)
(* itself when the event thread does not.  resp_lock is recursive.  An     *)
(* answer is the number of its call and its length in words.               *)
(***************************************************************************)
EXTENDS Naturals, Sequences

CONSTANTS
  Kinds,     \* the commands: rlen words expected, alen words answered
  MaxCalls,  \* bound: calls in a behaviour
  MaxTraps   \* bound: messages the firmware sends on its own

(* Every caller in cmd.c has room for the answer.                          *)
ASSUME HostCmdAssumption ==
  /\ MaxCalls \in Nat /\ MaxTraps \in Nat
  /\ \A k \in Kinds : k.rlen \in Nat \ {0} /\ k.alen \in Nat /\ k.alen <= k.rlen

VARIABLES
  pc,        \* the caller in carlusb_cmd
  call,      \* number of the last call
  cmd,       \* ar->cmd: the command as the firmware will answer it
  resp_buf,  \* call whose buffer takes the answer, 0 for NULL
  resp_len,  \* its length
  ret,       \* what the last call returned
  got,       \* call whose answer is in the buffer of the last call
  transfer,  \* the OUT transfer of the command
  reaping,   \* the caller is handling events, behind its own completion
  device,    \* commands the firmware has not answered
  events,    \* completed transfers, not yet handled
  handling,  \* what the callback of the event thread works on
  traps,     \* messages the firmware has sent on its own
  dirty,     \* history: the call began with answers of others outstanding
  early      \* history: the caller handled an answer in its own transfer

caller == <<pc, call, cmd, ret, dirty>>
buffer == <<resp_buf, resp_len, got>>
usb == <<device, events, traps>>
vars == <<caller, buffer, usb, transfer, reaping, handling, early>>

Event(type, id, len) == [type |-> type, id |-> id, len |-> len]
None == Event("none", 0, 0)
Trap == Event("trap", 0, 0)

Init ==
  /\ pc = "idle" /\ call = 0 /\ cmd = None
  /\ resp_buf = 0 /\ resp_len = 0
  /\ ret = "none" /\ got = 0
  /\ transfer = "done" /\ reaping = FALSE
  /\ device = <<>> /\ events = <<>> /\ handling = None /\ traps = 0
  /\ dirty = FALSE /\ early = FALSE

(* resp_lock from SDL_mutexP to SDL_CondWaitTimeout or SDL_mutexV.  All    *)
(* other critical sections are one step.                                   *)
Locked == pc = "submit"

Outstanding ==
  \/ device # <<>>
  \/ handling.type \in {"answer", "signal"}
  \/ \E n \in 1 .. Len(events) : events[n].type = "answer"
-----------------------------------------------------------------------------
(* carlusb_cmd up to the synchronous transfer of carlusb_cmd_async.        *)
Call(k) ==
  /\ pc = "idle"
  /\ call < MaxCalls
  /\ pc' = "submit"
  /\ call' = call + 1
  /\ cmd' = Event("answer", call + 1, k.alen)
  /\ resp_buf' = call + 1
  /\ resp_len' = k.rlen
  /\ got' = 0
  /\ transfer' = "pending"
  /\ dirty' = Outstanding
  /\ early' = FALSE
  /\ UNCHANGED <<ret, reaping, usb, handling>>

(* The transfer failed: the call returns, and resp_buf stays.              *)
SubmitFailed ==
  /\ pc = "submit"
  /\ transfer = "failed"
  /\ pc' = "idle"
  /\ ret' = "failed"
  /\ reaping' = FALSE
  /\ UNCHANGED <<call, cmd, dirty, buffer, usb, transfer, handling, early>>

(* The transfer is done: SDL_CondWaitTimeout gives up the lock.            *)
Submitted ==
  /\ pc = "submit"
  /\ transfer = "done"
  /\ pc' = "waiting"
  /\ reaping' = FALSE
  /\ UNCHANGED <<call, cmd, ret, dirty, buffer, usb, transfer, handling, early>>

(* SDL_CondWaitTimeout gives up waiting, and has yet to take the lock.     *)
TimedOut ==
  /\ pc = "waiting"
  /\ pc' = "timedout"
  /\ UNCHANGED <<call, cmd, ret, dirty, buffer, usb, transfer, reaping, handling, early>>

(* Signalled: success, whatever the signal was for.                        *)
Succeed ==
  /\ pc = "woken"
  /\ pc' = "idle"
  /\ ret' = "ok"
  /\ UNCHANGED <<call, cmd, dirty, buffer, usb, transfer, reaping, handling, early>>

(* Timed out: the buffer is taken back under the lock.                     *)
TimeOut ==
  /\ pc = "timedout"
  /\ pc' = "idle"
  /\ ret' = "timeout"
  /\ resp_buf' = 0
  /\ resp_len' = 0
  /\ UNCHANGED <<call, cmd, dirty, got, usb, transfer, reaping, handling, early>>
-----------------------------------------------------------------------------
(* The device takes the command, or the transfer fails or times out.       *)
Deliver ==
  /\ transfer = "pending"
  /\ transfer' = "completed"
  /\ device' = Append(device, cmd)
  /\ events' = Append(events, Event("done", 0, 0))
  /\ UNCHANGED <<caller, buffer, traps, reaping, handling, early>>

Fail ==
  /\ transfer = "pending"
  /\ transfer' = "completed"
  /\ events' = Append(events, Event("failed", 0, 0))
  /\ UNCHANGED <<caller, buffer, device, traps, reaping, handling, early>>

(* usb_reg_out answers commands in order; the response ring of the         *)
(* firmware may lose an answer (IntRing).                                  *)
Answer ==
  /\ device # <<>>
  /\ device' = Tail(device)
  /\ events' \in {events, Append(events, Head(device))}
  /\ UNCHANGED <<caller, buffer, traps, transfer, reaping, handling, early>>

(* send_cmd_to_host: a message nobody asked for (TXCOMP, PRETBTT...).      *)
SendTrap ==
  /\ traps < MaxTraps
  /\ traps' = traps + 1
  /\ events' = Append(events, Trap)
  /\ UNCHANGED <<caller, buffer, device, transfer, reaping, handling, early>>
-----------------------------------------------------------------------------
(* The answer fits into a buffer that waits for one.                       *)
Fits(a) == resp_buf # 0 /\ resp_len # 0 /\ resp_len >= a.len

(* What carlu_handle_command does under the lock; an answer that does not  *)
(* fit is spurious.                                                        *)
Store(a) ==
  IF Fits(a)
  THEN resp_buf' = 0 /\ got' = a.id /\ UNCHANGED resp_len
  ELSE UNCHANGED buffer

(* The transfer of the caller is over.                                     *)
IsCompletion(e) == e.type \in {"done", "failed"}

(* The event thread handles the next event: the transfer of the caller is  *)
(* over, or a callback begins.                                             *)
Poll ==
  /\ handling = None /\ ~reaping
  /\ events # <<>>
  /\ events' = Tail(events)
  /\ LET e == Head(events) IN
       IF IsCompletion(e)
       THEN transfer' = e.type /\ UNCHANGED handling
       ELSE handling' = e /\ UNCHANGED transfer
  /\ UNCHANGED <<caller, buffer, device, traps, reaping, early>>

(* Slip: the lock and the signal are for every message.                    *)
IsAnswerOrTrap(e) == e.type \in {"answer", "trap"}

(* A message without CARL9170_RSP_FLAG is the answer to a command.         *)
IsAnswer(e) == e.type = "answer"

(* carlu_handle_command of an answer, in the event thread, up to the       *)
(* release of the lock.                                                    *)
HandleCommand ==
  /\ IsAnswer(handling)
  /\ ~Locked
  /\ Store(handling)
  /\ handling' = Event("signal", 0, 0)
  /\ UNCHANGED <<caller, usb, transfer, reaping, early>>

(* SDL_CondSignal, behind the release of the lock.                         *)
CondSignal ==
  /\ handling.type = "signal"
  /\ handling' = None
  /\ pc' = IF pc = "waiting" THEN "woken" ELSE pc
  /\ UNCHANGED <<call, cmd, ret, dirty, buffer, usb, transfer, reaping, early>>

(* The other messages take no part in resp_lock.                           *)
HandleTrap ==
  /\ handling.type = "trap"
  /\ ~IsAnswer(handling)
  /\ handling' = None
  /\ UNCHANGED <<caller, buffer, usb, transfer, reaping, early>>

(* The caller handles an event inside its own transfer.  It holds the lock *)
(* already, and nobody waits for its signal.                               *)
CallerPolls ==
  /\ pc = "submit" /\ handling = None
  /\ transfer \in {"pending", "completed"} \/ reaping
  /\ events # <<>>
  /\ events' = Tail(events)
  /\ LET e == Head(events) IN
       IF IsCompletion(e)
       THEN /\ transfer' = e.type
            /\ reaping' = TRUE
            /\ UNCHANGED <<buffer, early>>
       ELSE /\ IF IsAnswer(e)
               THEN Store(e) /\ early' = TRUE
               ELSE UNCHANGED <<buffer, early>>
            /\ UNCHANGED <<transfer, reaping>>
  /\ UNCHANGED <<caller, device, traps, handling>>
-----------------------------------------------------------------------------
Caller == SubmitFailed \/ Submitted \/ TimedOut \/ Succeed \/ TimeOut
EventThread == Poll \/ HandleCommand \/ CondSignal \/ HandleTrap

Next ==
  \/ \E k \in Kinds : Call(k)
  \/ SubmitFailed \/ Submitted \/ TimedOut \/ Succeed \/ TimeOut
  \/ Deliver \/ Fail \/ Answer \/ SendTrap
  \/ Poll \/ HandleCommand \/ CondSignal \/ HandleTrap \/ CallerPolls

(* Both threads run, and a transfer comes to its end (32 ms).  Nobody has  *)
(* to answer.                                                              *)
Fairness == WF_vars(Caller) /\ WF_vars(EventThread) /\ WF_vars(Deliver \/ Fail)

Spec == Init /\ [][Next]_vars
FairSpec == Spec /\ Fairness
-----------------------------------------------------------------------------
Events(types) == [type : types, id : 0 .. MaxCalls, len : Nat]

(* Types of the two threads, libusb and the device.                        *)
TypeOK ==
  /\ pc \in {"idle", "submit", "waiting", "woken", "timedout"}
  /\ call \in 0 .. MaxCalls
  /\ cmd \in Events({"none", "answer"})
  /\ resp_buf \in 0 .. MaxCalls
  /\ resp_len \in Nat
  /\ ret \in {"none", "ok", "failed", "timeout"}
  /\ got \in 0 .. MaxCalls
  /\ transfer \in {"pending", "completed", "done", "failed"}
  /\ reaping \in BOOLEAN
  /\ device \in Seq(Events({"answer"}))
  /\ events \in Seq(Events({"done", "failed", "answer", "trap"}))
  /\ handling \in Events({"none", "answer", "signal", "trap"})
  /\ traps \in 0 .. MaxTraps
  /\ dirty \in BOOLEAN
  /\ early \in BOOLEAN

(* A call that began with no answer outstanding and returns success has    *)
(* the answer to its own command, whatever the firmware sends meanwhile.   *)
(* carlusb_cmd does not compare the answer with the command; after a       *)
(* timeout it takes the late answer, or its mere signal, for success.      *)
OwnAnswer == pc = "idle" /\ ret = "ok" /\ ~dirty => got = call

Stuck ==
  IsAnswer(handling) /\ pc = "submit" /\ transfer \in {"pending", "completed"}
(* The callback waits for the lock of a caller whose transfer only this    *)
(* thread can complete.  Both are stuck for good (usb.c:653-669, rx.c:64), *)
(* but only behind an answer that came after its call had timed out.       *)
StuckBehindLateAnswer == Stuck => dirty

(* resp_buf points into the frame of the caller: when the call is over, an *)
(* answer cannot go there any more, unless the transfer failed (usb.c:670) *)
(* or the call was ended by the signal for another answer (rx.c:75).       *)
BufferTakenBack == pc = "idle" /\ resp_buf # 0 => ret = "failed" \/ dirty

(* A caller that waits with its answer already in the buffer is about to   *)
(* be signalled: the signal cannot fall between its transfer and its wait, *)
(* unless it handled the answer itself.                                    *)
NoLostSignal ==
  pc = "waiting" /\ resp_buf = 0 => handling.type = "signal" \/ early

(* A call that began with no answer outstanding returns.                   *)
CleanCallReturns == (pc # "idle" /\ ~dirty) ~> (pc = "idle")
=============================================================================
