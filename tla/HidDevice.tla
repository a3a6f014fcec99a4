----------------------------- MODULE HidDevice ------------------------------
(***************************************************************************)
(* One USB device as the plugin uses it through hidapi: the main thread    *)
(* opens and closes it, FromPanelThread reads it, blocking while the       *)
(* plugin is enabled and with a timeout while it is not.  On Mac OS, and   *)
(* with libusb, a thread of the library receives the reports and keeps     *)
(* them in a list for the reader, which sleeps on a condition; on Linux    *)
(* and Windows the system keeps them, and the reader polls, or starts a    *)
(* read that stays pending when a call times out.                          *)
(***************************************************************************)
EXTENDS Naturals, Sequences

CONSTANTS
  Backends,   \* of mac, libusb, hidraw, windows: which the plugin is built with
  Threshold,  \* 30 in the code: a longer list loses its first report
  KernelRoom, \* how many reports the system keeps
  Sendable    \* bound: how many reports the device sends

ASSUME HidAssumption ==
  /\ Backends \subseteq {"mac", "libusb", "hidraw", "windows"}
  /\ Threshold \in Nat /\ KernelRoom \in Nat /\ KernelRoom >= Threshold + 2
  /\ Sendable \in Nat

VARIABLES
  backend, plugged,
  sent, got,  \* how many reports were sent, and which of them was read last
  list,       \* the reports that arrived: input_reports, or the system's
  main,       \* where in hid_open_path or hid_close the main thread is
  rd, mode,   \* where in hid_read_timeout the reader is, and how it was called
  result,     \* what hid_read_timeout returned: data, zero or error
  rt,         \* where read_thread is
  shutdown,   \* shutdown_thread
  gone,       \* disconnected (Mac OS)
  stop,       \* the run loop of read_thread is to stop (Mac OS)
  hearing,    \* the report callback is registered (Mac OS); the transfer submitted (libusb)
  pending,    \* read_pending (Windows)
  buf         \* read_buf: the report a pending read was completed with

appVars    == <<main, rd, mode, result>>
threadVars == <<rt, shutdown, gone, stop, hearing>>
winVars    == <<pending, buf>>
vars == <<backend, plugged, sent, got, list, appVars, threadVars, winVars>>

Threaded == {"mac", "libusb"}

Init ==
  /\ backend \in Backends /\ plugged = TRUE /\ sent = 0 /\ got = 0 /\ list = <<>>
  /\ main = "unopened" /\ rd = "out" /\ mode = "block" /\ result = "zero"
  /\ rt = "none" /\ shutdown = FALSE /\ gone = FALSE /\ stop = FALSE /\ hearing = FALSE
  /\ pending = FALSE /\ buf = <<>>
----------------------------------------------------------------------------
(* hid_open_path creates the thread and waits for it at a barrier.         *)
OpenMac ==
  /\ backend = "mac" /\ main = "unopened" /\ plugged
  /\ main' = "opening" /\ rt' = "start" /\ hearing' = TRUE
  /\ UNCHANGED <<backend, plugged, sent, got, list, rd, mode, result, shutdown, gone, stop, winVars>>

OpenUsb ==
  /\ backend = "libusb" /\ main = "unopened" /\ plugged
  /\ main' = "opening" /\ rt' = "start"
  /\ UNCHANGED <<backend, plugged, sent, got, list, rd, mode, result, shutdown, gone, stop,
                 hearing, winVars>>

OpenRaw ==
  /\ backend = "hidraw" /\ main = "unopened" /\ plugged
  /\ main' = "open"
  /\ UNCHANGED <<backend, plugged, sent, got, list, rd, mode, result, threadVars, winVars>>

OpenWin ==
  /\ backend = "windows" /\ main = "unopened" /\ plugged
  /\ main' = "open"
  /\ UNCHANGED <<backend, plugged, sent, got, list, rd, mode, result, threadVars, winVars>>

\* read_thread is ready, and both leave the first barrier.
Start ==
  /\ rt = "start" /\ main = "opening"
  /\ rt' = "test" /\ main' = "open" /\ hearing' = TRUE
  /\ UNCHANGED <<backend, plugged, sent, got, list, rd, mode, result, shutdown, gone, stop, winVars>>
----------------------------------------------------------------------------
(* hid_report_callback and read_callback put a report at the end of the    *)
(* list.  What they compare with the threshold is one less than what the   *)
(* list held.  A signal wakes the reader, if it sleeps by then.            *)
Woken == IF rd = "asleep" THEN "woken" ELSE rd

\* Fault: no report is ever popped.
AttachedAll(l, x) == Append(l, x)

Attached(l, x) ==
  IF l # <<>> /\ Len(l) - 1 > Threshold THEN Tail(Append(l, x)) ELSE Append(l, x)

Arrives == plugged /\ sent < Sendable /\ sent' = sent + 1

ReportMac ==
  /\ backend = "mac" /\ rt = "run" /\ hearing /\ Arrives
  /\ list' = Attached(list, sent + 1)
  /\ rd' = Woken
  /\ UNCHANGED <<backend, plugged, got, main, mode, result, threadVars, winVars>>

\* Only a report that finds the list empty wakes the reader.
ReportUsb ==
  /\ backend = "libusb" /\ rt = "run" /\ hearing /\ Arrives
  /\ list' = Attached(list, sent + 1)
  /\ rd' = IF list = <<>> THEN Woken ELSE rd
  /\ rt' = "test"
  /\ UNCHANGED <<backend, plugged, got, main, mode, result, shutdown, gone, stop, hearing, winVars>>

(* Another end of a transfer: a timeout or an error, after which it is     *)
(* submitted again; or cancelled, or its device gone.                      *)
TransferEnds ==
  /\ backend = "libusb" /\ rt = "run" /\ hearing
  /\ \/ UNCHANGED <<shutdown, hearing>>
     \/ (main = "join" \/ ~plugged) /\ shutdown' = TRUE /\ hearing' = FALSE
  /\ rt' = "test"
  /\ UNCHANGED <<backend, plugged, sent, got, list, appVars, gone, stop, winVars>>

\* read_thread looks at its flags before it runs its loop, or handles events.
Test ==
  /\ rt = "test"
  /\ IF shutdown \/ gone
     THEN rt' = "wake" /\ UNCHANGED stop
     ELSE rt' = "run" /\ stop' = (stop /\ main = "barrier")
  /\ UNCHANGED <<backend, plugged, sent, got, list, appVars, shutdown, gone, hearing, winVars>>

(* CFRunLoopRunInMode returns: stopped, which counts as an error and shuts *)
(* down; after 1000 seconds; or finished, with nothing left to wait for.   *)
Returns ==
  /\ backend = "mac" /\ rt = "run"
  /\ \/ stop /\ shutdown' = TRUE /\ rt' = "wake" /\ UNCHANGED gone
     \/ rt' = "test" /\ UNCHANGED <<shutdown, gone>>
     \/ ~plugged /\ gone' = TRUE /\ rt' = "wake" /\ UNCHANGED shutdown
  /\ UNCHANGED <<backend, plugged, sent, got, list, appVars, stop, hearing, winVars>>

\* Faults: the sleeping reader is not woken; the thread ends without the barrier.
WakeNone ==
  /\ rt = "wake" /\ rt' = IF backend = "mac" THEN "barrier" ELSE "ended"
  /\ UNCHANGED <<backend, plugged, sent, got, list, appVars, shutdown, gone, stop, hearing, winVars>>
WakeEnds ==
  /\ rt = "wake" /\ rd' = Woken /\ rt' = "ended"
  /\ UNCHANGED <<backend, plugged, sent, got, list, main, mode, result, shutdown, gone, stop,
                 hearing, winVars>>

(* With libusb the thread ends, too, when events cannot be handled: it     *)
(* wakes the reader and does not tell it why.                              *)
HandleFails ==
  /\ backend = "libusb" /\ rt = "run"
  /\ rt' = "failed" /\ rd' = Woken /\ hearing' = FALSE
  /\ UNCHANGED <<backend, plugged, sent, got, list, main, mode, result, shutdown, gone, stop, winVars>>

(* The thread cancels the transfer (libusb), wakes whoever waits for data, *)
(* and waits for hid_close at a second barrier (Mac OS).                   *)
Wake ==
  /\ rt = "wake"
  /\ rd' = Woken
  /\ rt' = IF backend = "mac" THEN "barrier" ELSE "ended"
  /\ hearing' = (hearing /\ backend = "mac")
  /\ UNCHANGED <<backend, plugged, sent, got, list, main, mode, result, shutdown, gone, stop, winVars>>

(* The removal callback, on the run loop of the main thread.  A run loop   *)
(* that is not running does not notice that it is to stop.                 *)
Unplug ==
  /\ plugged /\ main # "unopened"
  /\ plugged' = FALSE
  /\ UNCHANGED <<backend, sent, got, list, appVars, threadVars, winVars>>

Removed ==
  /\ backend = "mac" /\ ~plugged /\ ~gone /\ main = "open"
  /\ gone' = TRUE /\ stop' = (stop \/ rt = "run")
  /\ UNCHANGED <<backend, plugged, sent, got, list, appVars, rt, shutdown, hearing, winVars>>
----------------------------------------------------------------------------
(* hid_read_timeout of the threaded builds holds the mutex from its start  *)
(* until it returns or sleeps.                                             *)
Return(r) == rd' = "out" /\ result' = r
TakeFirst ==
  /\ list # <<>>
  /\ Return("data") /\ got' = Head(list) /\ list' = Tail(list)

ReadList(m) ==
  /\ backend \in Threaded /\ main = "open" /\ rd = "out"
  /\ mode' = m
  /\ \/ TakeFirst
     \/ list = <<>> /\ (gone \/ shutdown) /\ Return("error") /\ UNCHANGED <<got, list>>
     \/ list = <<>> /\ ~gone /\ ~shutdown /\ rd' = "asleep" /\ UNCHANGED <<result, got, list>>
  /\ UNCHANGED <<backend, plugged, sent, main, threadVars, winVars>>

Spurious ==
  /\ rd = "asleep" /\ main # "freed"
  /\ rd' = "woken"
  /\ UNCHANGED <<backend, plugged, sent, got, list, main, mode, result, threadVars, winVars>>

\* On Mac OS a reader that was woken looks for an end first, else for data first.
ResumeMac ==
  /\ backend = "mac" /\ rd = "woken" /\ main # "freed"
  /\ \/ (shutdown \/ gone) /\ Return("error") /\ UNCHANGED <<got, list>>
     \/ ~shutdown /\ ~gone /\ TakeFirst
     \/ ~shutdown /\ ~gone /\ list = <<>> /\ rd' = "asleep" /\ UNCHANGED <<result, got, list>>
  /\ UNCHANGED <<backend, plugged, sent, main, mode, threadVars, winVars>>

ResumeUsb ==
  /\ backend = "libusb" /\ rd = "woken" /\ main # "freed"
  /\ \/ TakeFirst
     \/ list = <<>> /\ shutdown /\ Return("error") /\ UNCHANGED <<got, list>>
     \/ list = <<>> /\ ~shutdown /\ rd' = "asleep" /\ UNCHANGED <<result, got, list>>
  /\ UNCHANGED <<backend, plugged, sent, main, mode, threadVars, winVars>>

\* Fault: a read that was started for the call is given up with it.
TimedOutCancels ==
  /\ rd \in {"asleep", "poll", "wait"} /\ mode = "timeout" /\ main # "freed"
  /\ Return("zero") /\ pending' = FALSE /\ buf' = <<>>
  /\ UNCHANGED <<backend, plugged, sent, got, list, main, mode, threadVars>>

\* A pending read of Windows goes on without the call that started it.
TimedOut ==
  /\ rd \in {"asleep", "poll", "wait"} /\ mode = "timeout" /\ main # "freed"
  /\ Return("zero")
  /\ UNCHANGED <<backend, plugged, sent, got, list, main, mode, threadVars, winVars>>
----------------------------------------------------------------------------
(* The system keeps reports; when it has no room one is lost: on Linux the *)
(* new one, on Windows the oldest.                                         *)
Kept(l, x) ==
  IF Len(l) < KernelRoom THEN Append(l, x)
  ELSE IF backend = "hidraw" THEN l ELSE Tail(Append(l, x))

SystemReport ==
  /\ backend \notin Threaded /\ main = "open" /\ Arrives
  /\ list' = Kept(list, sent + 1)
  /\ UNCHANGED <<backend, plugged, got, appVars, threadVars, winVars>>

\* hid_read_timeout on Linux: poll, for one thing or the other, and read.
Poll(m) ==
  /\ backend = "hidraw" /\ main = "open" /\ rd = "out"
  /\ mode' = m /\ rd' = "poll"
  /\ UNCHANGED <<backend, plugged, sent, got, list, main, result, threadVars, winVars>>

ReadRaw ==
  /\ backend = "hidraw" /\ rd = "poll" /\ main = "open"
  /\ \/ TakeFirst
     \/ list = <<>> /\ ~plugged /\ Return("error") /\ UNCHANGED <<got, list>>
  /\ UNCHANGED <<backend, plugged, sent, main, mode, threadVars, winVars>>

(* On Windows a call starts a read unless one is pending; the system       *)
(* completes it, whether anybody waits for it or not.                      *)
ReadWin(m) ==
  /\ backend = "windows" /\ main = "open" /\ rd = "out"
  /\ mode' = m
  /\ \/ ~pending /\ ~plugged /\ Return("error") /\ UNCHANGED pending
     \/ (pending \/ plugged) /\ pending' = TRUE /\ UNCHANGED result
          /\ rd' = IF m = "timeout" THEN "wait" ELSE "result"
  /\ UNCHANGED <<backend, plugged, sent, got, list, main, threadVars, buf>>

Complete ==
  /\ backend = "windows" /\ pending /\ buf = <<>> /\ list # <<>>
  /\ buf' = <<Head(list)>> /\ list' = Tail(list)
  /\ UNCHANGED <<backend, plugged, sent, got, appVars, threadVars, pending>>

Finished == buf # <<>> \/ ~plugged

ResultWin ==
  /\ backend = "windows" /\ rd \in {"wait", "result"} /\ Finished /\ main = "open"
  /\ pending' = FALSE /\ buf' = <<>>
  /\ IF buf # <<>> THEN Return("data") /\ got' = buf[1] ELSE Return("error") /\ UNCHANGED got
  /\ UNCHANGED <<backend, plugged, sent, list, main, mode, threadVars>>
----------------------------------------------------------------------------
(* hid_close.  On Mac OS it has the callback forgotten, then shuts the     *)
(* thread down and wakes it; both builds join the thread and free what the *)
(* reader may be using still.                                              *)
CloseMac ==
  /\ backend = "mac" /\ main = "open"
  /\ hearing' = (hearing /\ gone) /\ shutdown' = TRUE /\ main' = "signal"
  /\ UNCHANGED <<backend, plugged, sent, got, list, rd, mode, result, rt, gone, stop, winVars>>

Signal ==
  /\ main = "signal"
  /\ stop' = TRUE /\ main' = "barrier"
  /\ UNCHANGED <<backend, plugged, sent, got, list, rd, mode, result, rt, shutdown, gone, hearing,
                 winVars>>

Barrier ==
  /\ main = "barrier" /\ rt = "barrier"
  /\ main' = "join" /\ rt' = "ended"
  /\ UNCHANGED <<backend, plugged, sent, got, list, rd, mode, result, shutdown, gone, stop, hearing,
                 winVars>>

CloseUsb ==
  /\ backend = "libusb" /\ main = "open"
  /\ shutdown' = TRUE /\ main' = "join"
  /\ UNCHANGED <<backend, plugged, sent, got, list, rd, mode, result, rt, gone, stop, hearing,
                 winVars>>

Join ==
  /\ main = "join" /\ rt \in {"ended", "failed"}
  /\ main' = "freed" /\ list' = <<>>
  /\ UNCHANGED <<backend, plugged, sent, got, rd, mode, result, threadVars, winVars>>

CloseRaw ==
  /\ backend = "hidraw" /\ main = "open"
  /\ main' = "freed" /\ list' = <<>>
  /\ UNCHANGED <<backend, plugged, sent, got, rd, mode, result, threadVars, winVars>>

CloseWin ==
  /\ backend = "windows" /\ main = "open"
  /\ main' = "freed" /\ list' = <<>> /\ buf' = <<>> /\ pending' = FALSE
  /\ UNCHANGED <<backend, plugged, sent, got, rd, mode, result, threadVars>>
----------------------------------------------------------------------------
Modes == {"block", "timeout"}
Opening == OpenMac \/ OpenUsb \/ OpenRaw \/ OpenWin
Thread  == Start \/ Test \/ Returns \/ TransferEnds \/ HandleFails \/ Wake
Device  == ReportMac \/ ReportUsb \/ SystemReport \/ Unplug
Reading == ResumeMac \/ ResumeUsb \/ ReadRaw \/ Complete \/ ResultWin
Closing == Signal \/ Barrier \/ Join

Next ==
  \/ Opening \/ Thread \/ Device \/ Removed \/ Reading \/ Closing
  \/ (\E m \in Modes : ReadList(m) \/ Poll(m) \/ ReadWin(m))
  \/ Spurious \/ TimedOut
  \/ CloseMac \/ CloseUsb \/ CloseRaw \/ CloseWin

Spec == Init /\ [][Next]_vars

(* The system runs the library's thread and a reader that can go on, it    *)
(* tells of a removal, and a run loop returns when its time is up.  It     *)
(* does not let a transfer time out for ever that could end for good.      *)
Fairness ==
  /\ WF_vars(Start \/ Test \/ Returns \/ Wake) /\ WF_vars(Removed)
  /\ SF_vars(TransferEnds /\ ~hearing')
  /\ WF_vars(Reading) /\ WF_vars(Closing) /\ WF_vars(TimedOut)
FairSpec == Spec /\ Fairness
----------------------------------------------------------------------------
Numbers == 1..sent

(* Types; a list is never longer than the threshold and two, and that of   *)
(* the system not longer than its room.                                    *)
TypeOK ==
  /\ backend \in {"mac", "libusb", "hidraw", "windows"} /\ plugged \in BOOLEAN
  /\ sent \in Nat /\ got \in 0..sent
  /\ list \in Seq(Numbers)
  /\ Len(list) <= IF backend \in Threaded THEN Threshold + 2 ELSE KernelRoom
  /\ main \in {"unopened", "opening", "open", "signal", "barrier", "join", "freed"}
  /\ rd \in {"out", "asleep", "woken", "poll", "wait", "result"} /\ mode \in Modes
  /\ result \in {"data", "zero", "error"}
  /\ rt \in {"none", "start", "test", "run", "wake", "barrier", "ended", "failed"}
  /\ shutdown \in BOOLEAN /\ gone \in BOOLEAN /\ stop \in BOOLEAN /\ hearing \in BOOLEAN
  /\ pending \in BOOLEAN /\ buf \in Seq(Numbers) /\ Len(buf) <= 1

(* No wakeup is lost: nobody sleeps while a report waits, nor after the    *)
(* thread that would bring one has told all sleepers that it stops.        *)
NoSleepOnData ==
  rd = "asleep" => list = <<>> /\ rt \notin {"barrier", "ended"}

\* What was received and not read.
waiting == buf \o list
Reports == INSTANCE HidReports WITH Room <- Threshold + 2

(* Whichever library, reads return reports in order, none twice; only a    *)
(* full list or closing loses any, and a timeout between does not.         *)
ReadsReports == Reports!Spec

(* A read of a device that was unplugged ends, if nobody closes it, unless *)
(* read_thread has failed.                                                 *)
UnplugEndsRead ==
  (~plugged /\ main = "open" /\ rd # "out") ~> (rd = "out" \/ main # "open" \/ rt = "failed")

(* hid_close returns: the second barrier and the join are reached.         *)
CloseReturns == (main \in {"signal", "barrier", "join"}) ~> (main = "freed")
=============================================================================
