------------------------------ MODULE HostLife ------------------------------
(***************************************************************************)
(* The life of the contexts of the host driver carlu: main.c runs one      *)
(* command, usb.c probes devices (open, upload, boot, find the device      *)
(* again, submit the receive transfers, echo) and closes them, while each  *)
(* context has a thread that handles the events of libusb.  All contexts   *)
(* share one libusb context, so any thread handles any context's events.   *)
(*                                                                         *)
(* Undefined behaviour ends a run: bad names what happened.                *)
(***************************************************************************)
EXTENDS Integers, SequencesExt

CONSTANTS Devs,      \* the devices plugged in
          MaxCtx,    \* bound: contexts the program may open (the code: 32)
          NRx,       \* bulk receive transfers of a context (AR9170_RX_BULK_BUFS)
          MaxFails,  \* bound: failing calls of a run
          CanBeLate, \* whether a device may take longer than 100 ms to boot
          Cmd        \* "all": probe all; "one": one device; "loop": the test that skips carlu_exit

VARIABLES pc,      \* where the main thread is
          cur,     \* the context it works on
          n,       \* contexts probe_all has got
          ctx,     \* the contexts
          active,  \* active_dev_list
          fw,      \* what each device runs: "rom", "fw", or "away" while it resets
          booting, \* what a device that is away will run
          failed,  \* the calls that failed
          bad      \* the undefined behaviour that ended the run, or "no"

vars == <<pc, cur, n, ctx, active, fw, booting, failed, bad>>

NoDev == "none"
Sizes == MaxCtx \in Nat \ {0} /\ NRx \in Nat \ {0} /\ NoDev \notin Devs
Ctx == 1..MaxCtx
Transfers == 0..NRx      \* 0: rx_interrupt, i: rx_ring[i - 1]

\* null: not allocated; live: submitted; cb: in its callback; cancel: cancelled, not yet
\* reaped; done: neither submitted nor freed; lost: the same, because its callback could
\* not submit it again
TrStates == {"null", "live", "cb", "cancel", "done", "lost", "freed"}

\* carlu_alloc_driver, carlusb_init: all zero, no pipe
Fresh == [st |-> "none", dev |-> NoDev, thread |-> "none", stop |-> FALSE,
          told |-> FALSE, tr |-> [i \in Transfers |-> "null"]]

At(p) == <<p, 0>>

\* Types: main is in one of its steps, every transfer in one of its states, and the list
\* of devices holds contexts.
Places == {At(p) : p \in {"open", "info", "load", "pipe", "thread", "upload", "boot", "drop",
                          "reget", "irq", "echo", "test", "close", "kill", "wait", "free",
                          "exit", "end"}}
          \cup {<<"rx", i>> : i \in 1..NRx} \cup {<<"cancel", i>> : i \in Transfers}
Contexts == [st : {"none", "used", "freed"}, dev : Devs \cup {NoDev},
             thread : {"none", "check", "poll", "ended"}, stop : BOOLEAN,
             told : BOOLEAN, tr : [Transfers -> TrStates]]
TypeOK ==
  /\ pc \in Places /\ cur \in Ctx /\ n \in 0..MaxCtx
  /\ ctx \in [Ctx -> Contexts] /\ active \in Seq(Ctx)
  /\ fw \in [Devs -> {"rom", "fw", "away"}] /\ booting \in [Devs -> {"rom", "fw"}]
  /\ bad \in {"no", "freed context", "no device", "no transfer", "live transfer"}

Init ==
  /\ pc = At("open") /\ cur = 1 /\ n = 0 /\ ctx = [c \in Ctx |-> Fresh] /\ active = <<>>
  /\ fw = [d \in Devs |-> "rom"] /\ booting = [d \in Devs |-> "rom"]
  /\ failed = {} /\ bad = "no"

-----------------------------------------------------------------------------
me == ctx[cur]

\* A call fails for a reason of its own.
Fails(call) == Cardinality(failed) < MaxFails /\ call \notin failed /\ failed' = failed \cup {call}

\* A call made again and again may fail more than once.
FailsAgain(call) == Fails(call) \/ (call \in failed /\ UNCHANGED failed)

Goto(p) == pc' = p
Crash(what) == /\ bad' = what
               /\ UNCHANGED <<pc, cur, n, ctx, active, fw, booting, failed>>

Sane == bad = "no"

\* carlusb_is_dev, asked of every context of the list
Taken(d) == \E k \in DOMAIN active : ctx[active[k]].dev = d

\* carlusb_get_dev looks at the devices in the order of the bus, which is any.
Found == {d \in Devs : fw[d] # "away" /\ ~Taken(d)}

\* The walk reads every context of the list, list_add_tail writes to the last.
WalkTouchesFreed == /\ \E d \in Devs : fw[d] # "away"
                    /\ \E k \in DOMAIN active : ctx[active[k]].st = "freed"

\* list_del writes to the neighbours; a context that is in no list is its own neighbour.
Positions == {k \in DOMAIN active : active[k] = cur}
DelTouchesFreed == \E k \in Positions, j \in DOMAIN active :
                     j \in {k - 1, k + 1} /\ ctx[active[j]].st = "freed"
Without == IF Positions = {} THEN active ELSE RemoveAt(active, CHOOSE k \in Positions : TRUE)

\* What main does with a probe that failed: probe_all closes what it has, the others end.
AfterFailure == At(IF Cmd = "all" /\ n > 0 THEN "close" ELSE "exit")

\* carlusb_free_driver: closes the device; the context stays in whatever list it is in.
FreeDriver == /\ ctx' = [ctx EXCEPT ![cur] = [Fresh EXCEPT !.st = "freed"]]
              /\ Goto(AfterFailure)

\* carlusb_open: a new context and any device that nobody has
Open ==
  /\ Sane /\ pc = At("open")
  /\ IF WalkTouchesFreed THEN Crash("freed context")
     ELSE /\ \/ \E d \in Found :
                  /\ ctx' = [ctx EXCEPT ![cur] = [Fresh EXCEPT !.st = "used", !.dev = d]]
                  /\ active' = Append(active, cur)
                  /\ Goto(At("info")) /\ UNCHANGED <<failed, n, cur>>
             \/ /\ IF Found = {} THEN UNCHANGED failed ELSE Fails("open")
                /\ ctx' = [ctx EXCEPT ![cur] = [Fresh EXCEPT !.st = "freed"]]
                /\ cur' = IF n > 0 THEN n ELSE cur
                /\ Goto(AfterFailure) /\ UNCHANGED <<active, n>>
          /\ UNCHANGED <<fw, booting, bad>>

\* carlusb_show_devinfo, carlusb_load_firmware, pipe: nothing takes the context off the list
\* when one of them fails.
Early(p, next) ==
  /\ Sane /\ pc = p
  /\ \/ Goto(next) /\ UNCHANGED <<failed, ctx, cur>>
     \/ Fails(p[1]) /\ FreeDriver /\ cur' = IF n > 0 THEN n ELSE cur
  /\ UNCHANGED <<n, active, fw, booting, bad>>

\* SDL_CreateThread: its failure is not looked at
StartThread ==
  /\ Sane /\ pc = At("thread") /\ Goto(At("upload"))
  /\ \/ ctx' = [ctx EXCEPT ![cur].thread = "check"] /\ UNCHANGED failed
     \/ Fails("thread") /\ UNCHANGED ctx
  /\ UNCHANGED <<cur, n, active, fw, booting, bad>>

\* The blocks of carlusb_upload_firmware.
Upload ==
  /\ Sane /\ pc = At("upload")
  /\ \/ Goto(At("boot")) /\ UNCHANGED failed
     \/ Fails("upload") /\ Goto(At("kill"))
  /\ UNCHANGED <<cur, n, ctx, active, fw, booting, bad>>

\* The boot request: the device resets and comes back with its firmware.
Boot ==
  /\ Sane /\ pc = At("boot")
  /\ \/ /\ Goto(At("drop")) /\ UNCHANGED failed
        /\ fw' = [fw EXCEPT ![me.dev] = "away"]
        /\ booting' = [booting EXCEPT ![me.dev] = "fw"]
     \/ Fails("boot") /\ Goto(At("kill")) /\ UNCHANGED <<fw, booting>>
  /\ UNCHANGED <<cur, n, ctx, active, bad>>

\* The old handle goes, and the context leaves the list.
Drop ==
  /\ Sane /\ pc = At("drop")
  /\ IF DelTouchesFreed THEN Crash("freed context")
     ELSE /\ ctx' = [ctx EXCEPT ![cur].dev = NoDev] /\ active' = Without /\ Goto(At("reget"))
          /\ UNCHANGED <<cur, n, fw, booting, failed, bad>>

\* carlusb_get_dev once more, 100 ms after the boot: it finds a device, or none is there, or
\* none can be listed, opened or claimed.  What it returns is not looked at.
Reget ==
  /\ Sane /\ pc = At("reget")
  /\ CanBeLate \/ \A d \in Devs : fw[d] # "away"
  /\ IF WalkTouchesFreed THEN Crash("freed context")
     ELSE /\ \/ \E d \in Found : /\ ctx' = [ctx EXCEPT ![cur].dev = d]
                                 /\ active' = Append(active, cur) /\ UNCHANGED failed
             \/ /\ IF Found = {} THEN UNCHANGED failed ELSE Fails("reget")
                /\ UNCHANGED <<ctx, active>>
          /\ Goto(At("irq")) /\ UNCHANGED <<cur, n, fw, booting, bad>>

\* carlusb_initialize_rxirq and each round of carlusb_initialize_rxrings: allocate, submit
Submit(p, i, next) ==
  /\ Sane /\ pc = p
  /\ IF me.dev = NoDev
     THEN Crash("no device") \/ (Fails(p[1]) /\ Goto(At("kill")) /\ UNCHANGED <<ctx, cur, n, active, fw, booting, bad>>)
     ELSE /\ \/ /\ ctx' = [ctx EXCEPT ![cur].tr[i] = "live"] /\ Goto(next) /\ UNCHANGED failed
             \/ /\ Fails(p[1]) /\ Goto(At("kill"))
                /\ \E s \in {"null", "done"} : ctx' = [ctx EXCEPT ![cur].tr[i] = s]
          /\ UNCHANGED <<cur, n, active, fw, booting, bad>>

AfterRx(i) == IF i = NRx THEN At("echo") ELSE <<"rx", i + 1>>

Polling == \E c \in Ctx : ctx[c].thread \in {"check", "poll"}
\* Slip: any answer to the echo will do.
AnswersAny == Polling

Answers == fw[me.dev] = "fw" /\ Polling /\ me.tr[0] = "live"

\* carlu_cmd_echo: only firmware answers, and only a thread that handles events hears it
Echo ==
  /\ Sane /\ pc = At("echo")
  /\ \/ /\ Answers /\ ctx' = [ctx EXCEPT ![cur].told = TRUE] /\ n' = n + 1 /\ UNCHANGED failed
        /\ IF Cmd = "all" /\ cur < MaxCtx THEN Goto(At("open")) /\ cur' = cur + 1
           ELSE Goto(At("test")) /\ UNCHANGED cur
     \/ /\ IF Answers THEN Fails("echo") ELSE UNCHANGED failed
        /\ Goto(At("kill")) /\ UNCHANGED <<ctx, n, cur>>
  /\ UNCHANGED <<active, fw, booting, bad>>

\* The test of the command: whatever it returns, close follows.
Test == /\ Sane /\ pc = At("test") /\ Goto(At("close"))
        /\ UNCHANGED <<cur, n, ctx, active, fw, booting, failed, bad>>

\* carlusb_close: the reboot command; its result is not looked at
Close ==
  /\ Sane /\ pc = At("close") /\ Goto(At("kill"))
  /\ \/ /\ fw' = [fw EXCEPT ![me.dev] = "away"] /\ booting' = [booting EXCEPT ![me.dev] = "rom"]
        /\ UNCHANGED failed
     \/ Fails("reboot") /\ UNCHANGED <<fw, booting>>
  /\ UNCHANGED <<cur, n, ctx, active, bad>>

\* Slip: the thread is not told to stop.
KillNot == /\ Sane /\ pc = At("kill") /\ Goto(<<"cancel", 1>>) /\ UNCHANGED <<ctx, cur, n, active, fw, booting, failed, bad>>

\* carlusb_destroy: stop_event_polling, then cancel every transfer
Kill ==
  /\ Sane /\ pc = At("kill") /\ Goto(<<"cancel", 1>>)
  /\ ctx' = [ctx EXCEPT ![cur].stop = TRUE]
  /\ UNCHANGED <<cur, n, active, fw, booting, failed, bad>>

\* carlusb_cancel_rings: the ring, then rx_interrupt; a transfer that is not submitted at
\* this moment is not cancelled
Cancel(i) ==
  /\ Sane /\ pc = <<"cancel", i>>
  /\ IF me.tr[i] = "null" THEN Crash("no transfer")
     ELSE /\ ctx' = [ctx EXCEPT ![cur].tr[i] = IF @ = "live" THEN "cancel" ELSE @]
          /\ Goto(CASE i = 0 -> At("wait") [] i = NRx -> <<"cancel", 0>> [] OTHER -> <<"cancel", i + 1>>)
          /\ UNCHANGED <<cur, n, active, fw, booting, failed, bad>>

\* SDL_WaitThread; without a thread it returns at once
Wait ==
  /\ Sane /\ pc = At("wait") /\ me.thread \in {"none", "ended"} /\ Goto(At("free"))
  /\ UNCHANGED <<cur, n, ctx, active, fw, booting, failed, bad>>

\* carlu_probe_all goes on closing while it has contexts left.
More(left) == left > 0

\* carlusb_free_rings, list_del, carlusb_free_driver; then main closes the next context
Free ==
  /\ Sane /\ pc = At("free")
  /\ IF \E i \in Transfers : me.tr[i] \in {"live", "cb", "cancel"} THEN Crash("live transfer")
     ELSE IF DelTouchesFreed THEN Crash("freed context")
     ELSE /\ active' = Without
          /\ ctx' = [ctx EXCEPT ![cur] = [Fresh EXCEPT !.st = "freed", !.tr = [i \in Transfers |-> "freed"]]]
          /\ LET left == IF me.told THEN n - 1 ELSE n
             IN  /\ n' = left
                 /\ cur' = IF Cmd = "all" /\ More(left) THEN left ELSE cur
                 /\ Goto(At(IF Cmd = "all" /\ More(left) THEN "close" ELSE "exit"))
          /\ UNCHANGED <<fw, booting, failed, bad>>

\* carlu_exit (not after the loop test); the process ends, and with it its threads
Exit == /\ Sane /\ pc = At("exit") /\ Goto(At("end"))
        /\ UNCHANGED <<cur, n, ctx, active, fw, booting, failed, bad>>

Main ==
  \/ Open \/ Early(At("info"), At("load")) \/ Early(At("load"), At("pipe"))
  \/ Early(At("pipe"), At("thread"))
  \/ StartThread \/ Upload \/ Boot \/ Drop \/ Reget
  \/ Submit(At("irq"), 0, <<"rx", 1>>) \/ \E i \in 1..NRx : Submit(<<"rx", i>>, i, AfterRx(i))
  \/ Echo \/ Test \/ Close \/ Kill \/ (\E i \in Transfers : Cancel(i)) \/ Wait \/ Free \/ Exit

-----------------------------------------------------------------------------
Same == UNCHANGED <<pc, cur, n, active, fw, booting, failed, bad>>

\* carlusb_event_thread of c looks at stop_event_polling
Look(c) ==
  /\ Sane /\ ctx[c].thread = "check"
  /\ ctx' = [ctx EXCEPT ![c].thread = IF ctx[c].stop THEN "ended" ELSE "poll"]
  /\ Same

\* libusb_handle_events in the thread of c: nothing, or events of any context's transfers
Quiet(c) ==
  /\ Sane /\ ctx[c].thread = "poll" /\ ctx' = [ctx EXCEPT ![c].thread = "check"] /\ Same

InCallback == \E b \in Ctx, i \in Transfers : ctx[b].tr[i] = "cb"

\* A transfer completes, or dies because its device is away: its callback runs.
Handle(c, b, i) ==
  /\ Sane /\ ctx[c].thread = "poll" /\ ~InCallback /\ ctx[b].tr[i] = "live"
  /\ ctx' = [ctx EXCEPT ![b].tr[i] = "cb"] /\ Same

\* carlusb_rx_bulk_cb, carlusb_rx_interrupt_cb: whatever came, the transfer is submitted
\* again.  That fails when the device is away, and may fail otherwise; either way the error
\* is printed and nobody submits the transfer any more.
Resubmit(c, b, i) ==
  /\ Sane /\ ctx[c].thread = "poll" /\ ctx[b].tr[i] = "cb"
  /\ \E s \in {"live", "done", "lost"} :
       /\ s = "done" <=> fw[ctx[b].dev] = "away"
       /\ IF s = "lost" THEN FailsAgain("resubmit") ELSE UNCHANGED failed
       /\ ctx' = [ctx EXCEPT ![c].thread = "check", ![b].tr[i] = s]
  /\ UNCHANGED <<pc, cur, n, active, fw, booting, bad>>

\* A cancelled transfer: LIBUSB_TRANSFER_CANCELLED, the callback returns at once.
Reap(c, b, i) ==
  /\ Sane /\ ctx[c].thread = "poll" /\ ~InCallback /\ ctx[b].tr[i] = "cancel"
  /\ ctx' = [ctx EXCEPT ![b].tr[i] = "done"] /\ Same

Thread(c) ==
  \/ Look(c) \/ (Quiet(c) /\ ~InCallback)
  \/ \E b \in Ctx, i \in Transfers : Handle(c, b, i) \/ Resubmit(c, b, i) \/ Reap(c, b, i)

\* A device that was reset is back on the bus.
Back(d) ==
  /\ Sane /\ fw[d] = "away" /\ fw' = [fw EXCEPT ![d] = booting[d]]
  /\ UNCHANGED <<pc, cur, n, ctx, active, booting, failed, bad>>

Next == Main \/ (pc # At("end") /\ ((\E c \in Ctx : Thread(c)) \/ (\E d \in Devs : Back(d))))

\* libusb_handle_events returns.
Returns(c) == ctx[c].thread = "poll" /\ Thread(c) /\ ctx'[c].thread = "check"

\* The operating system runs every thread, and a device comes back.
Fairness == /\ WF_vars(Main) /\ \A d \in Devs : WF_vars(Back(d))
            /\ \A c \in Ctx : WF_vars(Look(c)) /\ WF_vars(Returns(c))

Spec == Init /\ [][Next]_vars /\ Fairness

-----------------------------------------------------------------------------
\* Two contexts never have the same device open, whatever was found again after a boot:
\* carlusb_is_dev keeps them apart.
OwnsOne == \A b, c \in Ctx : b # c /\ ctx[b].dev = ctx[c].dev => ctx[b].dev = NoDev

\* "firmware is active and running.": until it is closed, a context that was reported has a
\* device that runs the firmware, all its receive transfers but those that a callback failed
\* to submit again, and a thread that serves them, which need not be its own.
ActiveRuns ==
  \A c \in Ctx : ctx[c].told /\ ctx[c].st = "used" /\ ~(cur = c /\ pc[1] \notin {"open", "test", "close"}) =>
     /\ fw[ctx[c].dev] = "fw" /\ Polling
     /\ \A i \in Transfers : \/ ctx[c].tr[i] \in {"live", "cb"}
                             \/ ctx[c].tr[i] = "lost" /\ "resubmit" \in failed

\* No context is touched after it was freed unless a probe ended before its thread was
\* started (only those leave a freed context on the list); no missing transfer is cancelled
\* unless the probe stopped before the ring was complete; and no device is used that
\* was not found again unless one may take too long to boot, or the search failed.
CrashNeedsFailure ==
  /\ bad = "freed context" => failed \cap {"info", "load", "pipe"} # {}
  /\ bad = "no transfer" => failed # {}
  /\ bad = "no device" => CanBeLate \/ "reget" \in failed

\* When the program has ended no context still has a device, in particular none that
\* carlu_probe_all got.
AllReleased == pc = At("end") => \A c \in Ctx : ctx[c].st # "used" /\ ctx[c].dev = NoDev

\* Closing ends, or ends the program: the thread that carlusb_destroy waits for stops though
\* its transfers are submitted again while they are cancelled.
CloseEnds == (pc = At("kill")) ~> (pc[1] \in {"close", "exit"} \/ ~Sane)

\* "since the device did a full usb reset, we have to get a new "dev"."
HasDevice == pc = At("irq") => me.dev # NoDev

\* "probe all possible devices.": a probe that no call failed in ends with an active device.
ProbesAll == pc = At("kill") /\ ~me.told => failed # {}
=============================================================================
